----------------------------- MODULE DiffReview -----------------------------
(***************************************************************************)
(* Reviewing a session's worktree: worktree.status, diff, stage, unstage,  *)
(* discard and commit (la-core/worktree/diff.rs, parser.rs, the worktree    *)
(* handlers of la-daemon/dispatcher.rs) with the view that issues them      *)
(* (la-tui/diff_view.rs), while the agent goes on editing.                  *)
(*                                                                          *)
(* The text is a few places, far enough apart to be hunks of their own,     *)
(* each with a version in HEAD, in the index and in the working tree.       *)
(* Version 0 is nothing at all; an odd version has one line more than an    *)
(* even one, so that a change moves the line numbers of later hunks or      *)
(* not.  git itself is external: one git command is one step.               *)
(***************************************************************************)
EXTENDS Naturals, FiniteSets

CONSTANTS
  Reviewers,
  Spots,     \* 1..n
  FileOf,     \* the file of a place
  Untracked,  \* files the repository does not know at the start
  MaxEdits,   \* bound: changes made by the agent
  MaxAsked    \* bound: mutations asked for; the views rest after the last

ASSUME ReviewAssumption == 0 \notin Reviewers /\ Spots \subseteq Nat /\ FileOf \in [Spots -> Nat]

VARIABLES
  head, index, work,  \* per place, the version there
  tracked,            \* files with an index entry
  view,               \* per client: the hunks loaded for the file in focus, the discard dialog
  job,                \* per client: the mutation in hand
  treeLock,           \* WorktreeLocks: the client holding the session's lock, or 0
  unknown,            \* files that were untracked in the status its holder has read
  edits, asked,
  meddled             \* history: the agent acted since the lock's holder last read a diff

reviewVars == <<head, index, work, tracked, view, job, treeLock, unknown, edits, asked, meddled>>
trees == <<head, index, work, tracked>>

Files == {FileOf[p] : p \in Spots}
MutationKinds == {"stage", "unstage", "discard"}
NoJob == [at |-> "idle", kind |-> "none", ids |-> {}, files |-> {}, sel |-> {}, applied |-> {}, rejected |-> {}]
NoDiscard == [scope |-> "none", ids |-> {}]

ReviewInit ==
  /\ head = [p \in Spots |-> IF FileOf[p] \in Untracked THEN 0 ELSE 1]
  /\ index = head /\ work = [p \in Spots |-> p + 1] /\ tracked = Files \ Untracked
  /\ view = [c \in Reviewers |-> [hunks |-> {}, dialog |-> NoDiscard]]
  /\ job = [c \in Reviewers |-> NoJob] /\ treeLock = 0 /\ unknown = {} /\ edits = 0 /\ asked = 0 /\ meddled = FALSE

-----------------------------------------------------------------------------
(* Hunks *)

\* Lines that a tree has before place p, in p's file.
LinesBefore(tree, p) == Cardinality({q \in Spots : q < p /\ FileOf[q] = FileOf[p] /\ tree[q] % 2 = 1})

\* Mutant: the id is the hunk's place alone.
MutHunkId(p, old, new) == <<p>>

\* compute_hunk_id: path, line range and body, the @@ header included.
HunkId(p, old, new) == <<p, old[p], new[p], LinesBefore(old, p), LinesBefore(new, p)>>

\* git diff, with --cached or not.
Sides(staged) == IF staged THEN [old |-> head, new |-> index] ELSE [old |-> index, new |-> work]

\* The diff of a file, through build_hunks.
HunksFrom(f, old, new) ==
  {[p |-> p, old |-> old[p], new |-> new[p], id |-> HunkId(p, old, new)] :
     p \in {q \in Spots : FileOf[q] = f /\ old[q] # new[q]}}

Hunks(f, staged) == HunksFrom(f, Sides(staged).old, Sides(staged).new)

\* diff_untracked: all of the file is new.
Synthetic(f) == HunksFrom(f, [p \in Spots |-> 0], work)

IdsOf(hunks) == {h.id : h \in hunks}

\* What git status --porcelain lists: staged or unstaged changes, untracked files.
Changed == {f \in Files : Hunks(f, TRUE) \cup Hunks(f, FALSE) # {}}

-----------------------------------------------------------------------------
(* The view *)

\* worktree.diff lands in the view; reads take no lock.  A request is about one file, so
\* only the hunks of the file it will be about are kept.
LoadDiff(c, f) ==
  /\ \E staged \in BOOLEAN : view' = [view EXCEPT ![c].hunks = Hunks(f, staged)]
  /\ asked < MaxAsked /\ job[c].at = "idle" /\ view' # view
  /\ UNCHANGED <<trees, job, treeLock, unknown, edits, meddled, asked>>

\* request_discard_hunk: the focused hunk, or the file when none is loaded.
OpenDiscard(c) ==
  /\ view[c].dialog = NoDiscard /\ job[c].at = "idle" /\ asked < MaxAsked
  /\ IF view[c].hunks = {} THEN view' = [view EXCEPT ![c].dialog = [scope |-> "file", ids |-> {}]]
     ELSE \E h \in view[c].hunks : view' = [view EXCEPT ![c].dialog = [scope |-> "hunk", ids |-> {h}]]
  /\ UNCHANGED <<trees, job, treeLock, unknown, edits, meddled, asked>>

CancelDiscard(c) ==
  /\ view[c].dialog # NoDiscard /\ view' = [view EXCEPT ![c].dialog = NoDiscard]
  /\ UNCHANGED <<trees, job, treeLock, unknown, edits, meddled, asked>>

Ask(c, kind, ids) ==
  /\ asked < MaxAsked /\ asked' = asked + 1
  /\ job' = [job EXCEPT ![c] = [NoJob EXCEPT !.at = "wait", !.kind = kind, !.ids = ids]]

\* confirm_discard: the hunk of the dialog, or every hunk loaded for its file by now.
ConfirmDiscard(c) ==
  /\ view[c].dialog # NoDiscard /\ job[c].at = "idle"
  /\ Ask(c, "discard", IF view[c].dialog.scope = "hunk" THEN view[c].dialog.ids ELSE view[c].hunks)
  /\ view' = [view EXCEPT ![c].dialog = NoDiscard]
  /\ UNCHANGED <<trees, treeLock, unknown, edits, meddled>>

\* Stage and Unstage send the focused hunk.
SendHunk(c) ==
  /\ view[c].dialog = NoDiscard /\ job[c].at = "idle"
  /\ \E h \in view[c].hunks, kind \in {"stage", "unstage"} : Ask(c, kind, {h})
  /\ UNCHANGED <<trees, view, treeLock, unknown, edits, meddled>>

-----------------------------------------------------------------------------
(* apply_mutation: the steps from TakeLock to the answer run under the worktree's lock *)

\* The lock, then the files that status lists as changed, and as what; no id, nothing
\* to do.
TakeLock(c) ==
  /\ job[c].at = "wait" /\ treeLock = 0 /\ treeLock' = c
  /\ job' = [job EXCEPT ![c].at = "read",
               ![c].files = IF job[c].ids = {} THEN {} ELSE Changed]
  /\ unknown' = Files \ tracked
  /\ UNCHANGED <<trees, view, edits, meddled, asked>>

\* The diff that a mutation reads of a file; git has none of a file without an index entry.
DiffFor(kind, f, known) ==
  IF kind = "discard" /\ f \in unknown THEN Synthetic(f)
  ELSE IF kind = "stage" /\ f \notin known THEN {}
  ELSE Hunks(f, kind = "unstage")

\* The next file's diff is read again and its ids recomputed.  Staging tries to make an
\* index entry for every untracked file it meets, asked for or not.
ReadDiff(c) ==
  /\ job[c].at = "read" /\ job[c].files # {} /\ meddled' = FALSE
  /\ LET r == job[c]
         f == CHOOSE f \in r.files : \A g \in r.files : f <= g
         sel == {h \in DiffFor(r.kind, f, tracked') : h.id \in IdsOf(r.ids)}
     IN /\ tracked' \in {tracked} \cup IF r.kind = "stage" /\ f \in unknown THEN {tracked \cup {f}} ELSE {}
        /\ job' = [job EXCEPT ![c].sel = sel, ![c].files = @ \ {f},
                     ![c].at = IF sel = {} THEN "read"
                               ELSE IF r.kind = "discard" /\ f \in unknown THEN "remove" ELSE "apply"]
  /\ UNCHANGED <<head, index, work, view, treeLock, unknown, edits, asked>>

Patch(tree, hunks, reverse) ==
  [p \in Spots |-> IF \E h \in hunks : h.p = p
                    THEN LET h == CHOOSE h \in hunks : h.p = p IN IF reverse THEN h.old ELSE h.new
                    ELSE tree[p]]

\* git apply: with --cached to the index, otherwise to the working tree; refused unless
\* every hunk finds its text.  Unstaging all of an added file takes it out of the index.
ApplyPatch(c) ==
  LET r == job[c]
      tree == IF r.kind = "discard" THEN work ELSE index
      reverse == r.kind # "stage"
      fits == \A h \in r.sel : tree[h.p] = IF reverse THEN h.new ELSE h.old
      new == Patch(tree, r.sel, reverse)
      f == FileOf[(CHOOSE h \in r.sel : TRUE).p]
      emptied == r.kind = "unstage" /\ \A p \in Spots : FileOf[p] = f => head[p] = 0 /\ new[p] = 0
  IN /\ r.at = "apply"
     /\ IF fits
        THEN /\ IF r.kind = "discard" THEN work' = new /\ UNCHANGED index
                ELSE index' = new /\ UNCHANGED work
             /\ tracked' = IF emptied THEN tracked \ {f} ELSE tracked
             /\ job' = [job EXCEPT ![c].at = "read", ![c].applied = @ \cup IdsOf(r.sel), ![c].sel = {}]
        ELSE /\ job' = [job EXCEPT ![c].at = "read", ![c].rejected = @ \cup IdsOf(r.sel), ![c].sel = {}]
             /\ UNCHANGED <<index, work, tracked>>
     /\ UNCHANGED <<head, view, treeLock, unknown, edits, meddled, asked>>

\* try_discard_untracked matched: the whole file is removed, and the hunk counts as
\* applied even if that fails.
RemoveUntracked(c) ==
  LET r == job[c] IN
    /\ r.at = "remove"
    /\ work' \in {work, [p \in Spots |-> IF \E h \in r.sel : FileOf[h.p] = FileOf[p] THEN 0 ELSE work[p]]}
    /\ job' = [job EXCEPT ![c].at = "read", ![c].applied = @ \cup IdsOf(r.sel), ![c].sel = {}]
    /\ UNCHANGED <<head, index, tracked, view, treeLock, unknown, edits, meddled, asked>>

\* Ids that matched nothing are stale; the guard is dropped with the answer.
AnswerMutation(c) ==
  /\ job[c].at = "read" /\ job[c].files = {}
  /\ treeLock' = 0 /\ unknown' = {} /\ meddled' = FALSE
  /\ job' = [job EXCEPT ![c].at = "answered", ![c].rejected = @ \cup (IdsOf(job[c].ids) \ job[c].applied)]
  /\ UNCHANGED <<trees, view, edits, asked>>

\* status, a diff or git apply fails to run: the call ends with the error.
GitFails(c) ==
  /\ job[c].at \in {"read", "apply", "remove"} /\ treeLock' = 0 /\ unknown' = {} /\ meddled' = FALSE
  /\ job' = [job EXCEPT ![c] = NoJob]
  /\ UNCHANGED <<trees, view, edits, asked>>

\* The view takes the answer.
TakeAnswer(c) ==
  /\ job[c].at = "answered" /\ job' = [job EXCEPT ![c] = NoJob]
  /\ UNCHANGED <<trees, view, treeLock, unknown, edits, meddled, asked>>

\* git commit under the same lock: the index, whoever staged it.
Commit(c) ==
  /\ treeLock = 0 /\ job[c].at = "idle" /\ index # head /\ head' = index
  /\ UNCHANGED <<index, work, tracked, view, job, treeLock, unknown, edits, meddled, asked>>

-----------------------------------------------------------------------------
(* The agent works in the same tree, with git too. *)

AgentEdits(p) ==
  /\ edits < MaxEdits /\ edits' = edits + 1 /\ meddled' = (treeLock # 0)
  /\ work' = [work EXCEPT ![p] = Cardinality(Spots) + 2 + edits]
  /\ UNCHANGED <<head, index, tracked, view, job, treeLock, unknown, asked>>

AgentAdds(p) ==
  /\ edits < MaxEdits /\ edits' = edits + 1 /\ meddled' = (treeLock # 0)
  /\ index[p] # work[p] /\ index' = [index EXCEPT ![p] = work[p]] /\ tracked' = tracked \cup {FileOf[p]}
  /\ UNCHANGED <<head, work, view, job, treeLock, unknown, asked>>

ReviewNext ==
  \/ \E c \in Reviewers :
       \/ \E f \in Files : LoadDiff(c, f)
       \/ OpenDiscard(c) \/ CancelDiscard(c) \/ ConfirmDiscard(c) \/ SendHunk(c)
       \/ TakeLock(c) \/ ReadDiff(c) \/ ApplyPatch(c) \/ RemoveUntracked(c) \/ AnswerMutation(c) \/ GitFails(c)
       \/ TakeAnswer(c) \/ Commit(c)
  \/ \E p \in Spots : AgentEdits(p) \/ AgentAdds(p)

ReviewSpec == ReviewInit /\ [][ReviewNext]_reviewVars

-----------------------------------------------------------------------------
(* Properties *)

\* A mutation changes no text the reviewer was not shown: where it changes a tracked
\* file it takes the very text of a hunk that was asked for back or over, and it removes
\* only an untracked file of which a hunk was asked for, with the text it was shown with
\* unless the agent wrote to it after the daemon had read it again; whatever the agent and
\* the other clients did since the view was loaded.
ChangesWereShown ==
  [][\A c \in Reviewers :
       /\ job[c].at = "apply" /\ job'[c].at = "read" => \A p \in Spots :
            /\ work'[p] # work[p] => \E h \in job[c].ids : h.p = p /\ h.new = work[p] /\ h.old = work'[p]
            /\ index'[p] # index[p] => \E h \in job[c].ids : h.p = p /\ {h.old, h.new} = {index[p], index'[p]}
       /\ job[c].at = "remove" /\ job'[c].at = "read" => \A p \in Spots :
            work'[p] # work[p] =>
              \E h \in job[c].ids : FileOf[h.p] = FileOf[p] /\ (h.new = work[h.p] \/ meddled)
    ]_reviewVars

\* Reviewers do not race on the index: only the agent's doings between the re-read and the
\* patch can make git refuse it.
OnlyAgentRejects ==
  [][\A c \in Reviewers : job[c].at = "apply" /\ job'[c].rejected # job[c].rejected => meddled]_reviewVars

\* Every hunk asked for is answered, once: applied or rejected.
EveryHunkAnswered ==
  \A c \in Reviewers : job[c].at = "answered" =>
    job[c].applied \cup job[c].rejected = IdsOf(job[c].ids) /\ job[c].applied \cap job[c].rejected = {}

\* A reviewer's mutation changes the text that was asked for and no other.  (It may do one
\* thing more: staging marks every untracked file it passes with git add --intent-to-add,
\* diff.rs:563, which adds an entry without text to the index.)
ReviewIsExact == []EveryHunkAnswered /\ ChangesWereShown /\ OnlyAgentRejects

=============================================================================
