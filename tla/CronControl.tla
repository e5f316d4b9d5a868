----------------------------- MODULE CronControl -----------------------------
(***************************************************************************)
(* The serializer for crons.* requests (la-daemon/src/cron_control.rs) with *)
(* its confirmation tokens (cron_security.rs), the dispatcher's handlers in *)
(* front of it (dispatcher.rs), and the run watcher, which writes to the    *)
(* crons table without the control lock.                                    *)
(*                                                                          *)
(* The eight sensitive fields of a cron are one value, its content; the     *)
(* fingerprint of a content is the content itself (a hash collision is left *)
(* out).  A request is a task with a program counter: every step is one     *)
(* await, and between two of them the watcher and other requests run.       *)
(***************************************************************************)
EXTENDS Naturals, FiniteSets

CONSTANTS
  None,         \* Option::None
  Crons,        \* cron ids
  Contents,     \* values of the sensitive fields
  Clients,      \* requests in progress at the same time
  Tokens,       \* confirmation tokens (bound: how many are ever issued)
  TTL,          \* CONFIRMATION_TOKEN_TTL
  MaxClock,      \* bound on the clock
  MaxFailures,  \* bound on consecutive_failures
  PauseAt,      \* pause_on_consecutive_failures
  Watchers      \* whether runs end and their watchers write to the table

ASSUME ControlAssumption ==
  /\ None \notin Contents \cup Clients \cup Tokens \cup Crons
  /\ {TTL, MaxClock, MaxFailures, PauseAt} \subseteq Nat
  /\ Watchers \in BOOLEAN

VARIABLES
  row,       \* the crons table: [enabled, content, failures], None without a row
  heap,      \* the scheduling loop's entries: [content, mirror], None without one;
             \* mirror is consecutive_failures as the loop knows it
  pending,   \* ConfirmationTokens::pending: [cron, content, expires] or None
  used,      \* tokens that were ever issued
  clock,     \* Instant::now
  up,        \* the scheduling loop still takes commands
  lock,      \* holder of the control lock
  pc,        \* where each request is
  req,       \* its arguments and what it has read
  watcher,   \* where the watcher of a failed run of each cron is
  approved,  \* history: the content of each cron a user was shown and confirmed last
  redeemed   \* history: how often each token enabled a cron (0, 1, 2+)

controlVars == <<row, heap, pending, used, clock, up, lock, pc, req, watcher, approved, redeemed>>

NoReq == [op |-> "none", cron |-> None, content |-> None, token |-> None,
          at |-> 0, stale |-> 0, seen |-> None]

Goto(p, place) == pc' = [pc EXCEPT ![p] = place]

\* The outcome is sent, the lock guard dropped.
Reply(p) ==
  /\ lock' = None
  /\ pc' = [pc EXCEPT ![p] = "idle"] /\ req' = [req EXCEPT ![p] = NoReq]

-----------------------------------------------------------------------------
(* cron_security.rs *)

\* invalidate_cron
Invalidated(c) ==
  [t \in Tokens |-> IF pending[t] # None /\ pending[t].cron = c THEN None ELSE pending[t]]

\* prune_expired
Pruned(now) ==
  [t \in Tokens |-> IF pending[t] # None /\ pending[t].expires <= now THEN None
                    ELSE pending[t]]

\* Mutant: a sensitive edit keeps an enabled cron enabled.
MutEnabledAfterUpsert(old, content) == old # None /\ old.enabled

\* decide_upsert_security: a new cron and a sensitive change are disabled.
EnabledAfterUpsert(old, content) ==
  old # None /\ old.enabled /\ old.content = content

\* require_or_confirm: the conditions under which a token is accepted.
Redeemable(p, c, content, now) ==
  p # None /\ p.expires > now /\ p.cron = c /\ p.content = content

\* Mutant: an accepted token stays valid.
MutAfterConfirm(t, c, content, now) ==
  IF Redeemable(pending[t], c, content, now) THEN pending
  ELSE [pending EXCEPT ![t] = None]

\* require_or_confirm: a token is gone once it is presented, and a stale one
\* takes the cron's other tokens with it.
AfterConfirm(t, c, content, now) ==
  LET p == pending[t]
  IN  IF p = None THEN Pruned(now)
      ELSE IF p.expires > now /\ p.cron = c /\ p.content # content
           THEN [Invalidated(c) EXCEPT ![t] = None]
           ELSE [pending EXCEPT ![t] = None]

-----------------------------------------------------------------------------
(* Requests arrive; crons.upsert reads the row first *)

BeginUpsert(p, c, content) ==
  /\ pc[p] = "idle"
  /\ req' = [req EXCEPT ![p] = [NoReq EXCEPT !.op = "upsert", !.cron = c, !.content = content,
               !.stale = IF row[c] = None THEN 0 ELSE row[c].failures]]
  /\ Goto(p, "upsert")
  /\ UNCHANGED <<row, heap, pending, used, clock, up, lock, watcher, approved, redeemed>>

\* crons.set_enabled, with a token or without one; the time is taken on arrival.
BeginEnable(p, c, token) ==
  /\ pc[p] = "idle"
  /\ req' = [req EXCEPT ![p] = [NoReq EXCEPT !.op = "enable", !.cron = c, !.token = token,
                                             !.at = clock]]
  /\ Goto(p, "enable")
  /\ UNCHANGED <<row, heap, pending, used, clock, up, lock, watcher, approved, redeemed>>

\* crons.set_enabled { enabled: false } and crons.delete
BeginRemoval(p, c, op) ==
  /\ pc[p] = "idle"
  /\ req' = [req EXCEPT ![p] = [NoReq EXCEPT !.op = op, !.cron = c]]
  /\ Goto(p, "remove")
  /\ UNCHANGED <<row, heap, pending, used, clock, up, lock, watcher, approved, redeemed>>

-----------------------------------------------------------------------------
(* CronControl::upsert *)

\* Take the lock and read the row.
UpsertReads(p) ==
  /\ pc[p] = "upsert" /\ lock = None
  /\ lock' = p
  /\ req' = [req EXCEPT ![p].seen = row[req[p].cron]]
  /\ Goto(p, "write")
  /\ UNCHANGED <<row, heap, pending, used, clock, up, watcher, approved, redeemed>>

\* Decide on the row that was read, write the row: the counter is the one the
\* handler read before it had the lock.
UpsertWrites(p) ==
  /\ pc[p] = "write"
  /\ LET q == req[p] IN
     row' = [row EXCEPT ![q.cron] =
       [enabled |-> EnabledAfterUpsert(q.seen, q.content), content |-> q.content,
        failures |-> q.stale]]
  /\ Goto(p, "install")
  /\ UNCHANGED <<heap, pending, used, clock, up, lock, req, watcher, approved, redeemed>>

\* What SchedulerHandle::upsert makes of the loop's entry: a new one starts
\* without a backoff mirror, an old one keeps its own.
Installed(c, content) ==
  [content |-> content, mirror |-> IF heap[c] = None THEN 0 ELSE heap[c].mirror]

\* requires_reconfirmation: the decision disabled an enabled cron.
Reconfirm(q) ==
  q.seen # None /\ q.seen.enabled /\ ~EnabledAfterUpsert(q.seen, q.content)

\* Read the row back, bring the heap in line with it, invalidate tokens if the
\* cron must be confirmed again, answer.
UpsertInstalls(p) ==
  /\ up /\ pc[p] = "install"
  /\ LET q == req[p]
     IN  /\ heap' = [heap EXCEPT ![q.cron] =
                       IF row[q.cron].enabled THEN Installed(q.cron, q.content) ELSE None]
         /\ pending' = IF Reconfirm(q) THEN Invalidated(q.cron) ELSE pending
  /\ Reply(p)
  /\ UNCHANGED <<row, used, clock, up, watcher, approved, redeemed>>

-----------------------------------------------------------------------------
(* CronControl::set_enabled(true): two calls, the first issues a token *)

\* Without a row the request fails.
EnableNotFound(p) ==
  /\ pc[p] = "enable" /\ lock = None /\ row[req[p].cron] = None
  /\ Reply(p)
  /\ UNCHANGED <<row, heap, pending, used, clock, up, watcher, approved, redeemed>>

\* The first call: show the user the content, issue a token bound to it.
EnableIssues(p) ==
  /\ pc[p] = "enable" /\ lock = None /\ req[p].token = None
  /\ row[req[p].cron] # None
  /\ LET c == req[p].cron IN
     \E t \in Tokens \ used :
       /\ pending' = [Pruned(req[p].at) EXCEPT ![t] =
            [cron |-> c, content |-> row[c].content, expires |-> req[p].at + TTL]]
       /\ used' = used \cup {t}
  /\ Reply(p)
  /\ UNCHANGED <<row, heap, clock, up, watcher, approved, redeemed>>

\* The second call: check the token against the row as it is now.
EnableConfirms(p) ==
  /\ pc[p] = "enable" /\ lock = None /\ req[p].token # None
  /\ row[req[p].cron] # None
  /\ LET q == req[p]
         c == q.cron
         content == row[c].content
     IN  /\ pending' = AfterConfirm(q.token, c, content, q.at)
         /\ IF Redeemable(pending[q.token], c, content, q.at)
            THEN /\ lock' = p /\ req' = [req EXCEPT ![p].seen = row[c]]
                 /\ Goto(p, "enabling")
                 /\ approved' = [approved EXCEPT ![c] = pending[q.token].content]
                 /\ redeemed' = [redeemed EXCEPT ![q.token] = IF @ < 2 THEN @ + 1 ELSE @]
            ELSE Reply(p) /\ UNCHANGED <<approved, redeemed>>
  /\ UNCHANGED <<row, heap, used, clock, up, watcher>>

\* CronsRepo::set_enabled(true)
EnableWrites(p) ==
  /\ pc[p] = "enabling"
  /\ row' = [row EXCEPT ![req[p].cron] =
       IF @ = None THEN None ELSE [@ EXCEPT !.enabled = TRUE]]
  /\ Goto(p, "enabled")
  /\ UNCHANGED <<heap, pending, used, clock, up, lock, req, watcher, approved, redeemed>>

\* The heap entry, from the row that was read under the lock.
EnableInstalls(p) ==
  /\ up /\ pc[p] = "enabled"
  /\ heap' = [heap EXCEPT ![req[p].cron] = Installed(req[p].cron, req[p].seen.content)]
  /\ Reply(p)
  /\ UNCHANGED <<row, pending, used, clock, up, watcher, approved, redeemed>>

-----------------------------------------------------------------------------
(* CronControl::set_enabled(false) and CronControl::delete *)

\* Mutant: the heap entry goes first, before the row is written.
MutRemoveInvalidates(p) ==
  /\ pc[p] = "remove" /\ lock = None
  /\ lock' = p /\ pending' = Invalidated(req[p].cron)
  /\ heap' = [heap EXCEPT ![req[p].cron] = None]
  /\ Goto(p, "removing")
  /\ UNCHANGED <<row, req, used, clock, up, watcher, approved, redeemed>>

\* Take the lock, drop the cron's tokens.  A disable needs the row.
RemoveInvalidates(p) ==
  /\ pc[p] = "remove" /\ lock = None
  /\ IF req[p].op = "disable" /\ row[req[p].cron] = None
     THEN Reply(p) /\ UNCHANGED pending
     ELSE /\ lock' = p /\ pending' = Invalidated(req[p].cron)
          /\ Goto(p, "removing") /\ UNCHANGED req
  /\ UNCHANGED <<row, heap, used, clock, up, watcher, approved, redeemed>>

\* Disable or delete the row.
RemoveWrites(p) ==
  /\ pc[p] = "removing"
  /\ row' = [row EXCEPT ![req[p].cron] =
       IF @ = None \/ req[p].op = "delete" THEN None ELSE [@ EXCEPT !.enabled = FALSE]]
  /\ approved' = [approved EXCEPT ![req[p].cron] = IF req[p].op = "delete" THEN None ELSE @]
  /\ Goto(p, "removed")
  /\ UNCHANGED <<heap, pending, used, clock, up, lock, req, watcher, redeemed>>

\* Remove the heap entry.
RemoveUninstalls(p) ==
  /\ up /\ pc[p] = "removed"
  /\ heap' = [heap EXCEPT ![req[p].cron] = None]
  /\ Reply(p)
  /\ UNCHANGED <<row, pending, used, clock, up, watcher, approved, redeemed>>

-----------------------------------------------------------------------------
(* Requests that fail half-way *)

\* A SQLite statement fails, or the row turns out not to parse when it is to be
\* enabled: the request ends where it is, and what it did so far stays done.  At
\* "install" it is the read-back of an upsert: the row is written, the heap is
\* left as it was.
StatementFails(p) ==
  /\ pc[p] \in {"upsert", "enable", "remove", "write", "install", "enabling", "removing"}
  /\ lock \in {None, p}
  /\ Reply(p)
  /\ UNCHANGED <<row, heap, pending, used, clock, up, watcher, approved, redeemed>>

\* The scheduling loop stops before the requests do.
LoopStops ==
  /\ up /\ up' = FALSE
  /\ UNCHANGED <<row, heap, pending, used, clock, lock, pc, req, watcher, approved, redeemed>>

\* The scheduling loop is gone.  An installation is given up with an error, a
\* removal is taken for done.
HeapGone(p) ==
  /\ ~up /\ pc[p] \in {"install", "enabled", "removed"}
  /\ LET q == req[p] IN
     pending' = IF pc[p] = "install" /\ ~row[q.cron].enabled /\ Reconfirm(q)
                THEN Invalidated(q.cron) ELSE pending
  /\ Reply(p)
  /\ UNCHANGED <<row, heap, used, clock, up, watcher, approved, redeemed>>

-----------------------------------------------------------------------------
(* The run watcher: no control lock *)

\* A run has failed: bump_consecutive_failures.
WatcherBumps(c) ==
  /\ Watchers /\ watcher[c] = "none" /\ row[c] # None /\ row[c].failures < MaxFailures
  /\ row' = [row EXCEPT ![c].failures = @ + 1]
  /\ watcher' = [watcher EXCEPT ![c] = "mirror"]
  /\ UNCHANGED <<heap, pending, used, clock, up, lock, pc, req, approved, redeemed>>

\* update_backoff_state with the counter read back; no loop or no entry, nothing
\* to do.
WatcherMirrors(c) ==
  /\ watcher[c] = "mirror"
  /\ heap' = [heap EXCEPT ![c] =
       IF ~up \/ @ = None \/ row[c] = None THEN @ ELSE [@ EXCEPT !.mirror = row[c].failures]]
  /\ watcher' = [watcher EXCEPT ![c] = "pause"]
  /\ UNCHANGED <<row, pending, used, clock, up, lock, pc, req, approved, redeemed>>

\* pause_for_failures
WatcherPauses(c) ==
  /\ watcher[c] = "pause"
  /\ row' = [row EXCEPT ![c] =
       IF @ = None \/ @.failures < PauseAt \/ PauseAt = 0 THEN @
       ELSE [@ EXCEPT !.enabled = FALSE]]
  /\ watcher' = [watcher EXCEPT ![c] = "none"]
  /\ UNCHANGED <<heap, pending, used, clock, up, lock, pc, req, approved, redeemed>>

ControlTick ==
  /\ clock < MaxClock /\ clock' = clock + 1
  /\ UNCHANGED <<row, heap, pending, used, up, lock, pc, req, watcher, approved, redeemed>>

-----------------------------------------------------------------------------
ControlInit ==
  /\ row = [c \in Crons |-> None] /\ heap = [c \in Crons |-> None]
  /\ pending = [t \in Tokens |-> None] /\ used = {}
  /\ clock = 0 /\ up = TRUE /\ lock = None
  /\ pc = [p \in Clients |-> "idle"] /\ req = [p \in Clients |-> NoReq]
  /\ watcher = [c \in Crons |-> "none"]
  /\ approved = [c \in Crons |-> None] /\ redeemed = [t \in Tokens |-> 0]

Begin(p) ==
  \E c \in Crons :
    \/ \E content \in Contents : BeginUpsert(p, c, content)
    \/ \E token \in used \cup {None} : BeginEnable(p, c, token)
    \/ \E op \in {"disable", "delete"} : BeginRemoval(p, c, op)

Control(p) ==
  \/ UpsertReads(p) \/ UpsertWrites(p) \/ UpsertInstalls(p)
  \/ EnableNotFound(p) \/ EnableIssues(p) \/ EnableConfirms(p)
  \/ EnableWrites(p) \/ EnableInstalls(p)
  \/ RemoveInvalidates(p) \/ RemoveWrites(p) \/ RemoveUninstalls(p)
  \/ StatementFails(p) \/ HeapGone(p)

ControlNext ==
  \/ \E p \in Clients : Begin(p) \/ Control(p)
  \/ \E c \in Crons : WatcherBumps(c) \/ WatcherMirrors(c) \/ WatcherPauses(c)
  \/ LoopStops
  \/ ControlTick

ControlSpec == ControlInit /\ [][ControlNext]_controlVars

-----------------------------------------------------------------------------
(* Properties *)

Row == [enabled : BOOLEAN, content : Contents, failures : Nat]

\* None is neither a row nor an entry.
ASSUME NoRecordAssumption ==
  None \notin Row /\ None \notin [content : Contents, mirror : Nat]

Places == {"idle", "upsert", "enable", "remove", "write", "install", "enabling", "enabled",
           "removing", "removed"}

Request ==
  [op : {"none", "upsert", "enable", "disable", "delete"}, cron : Crons \cup {None},
   content : Contents \cup {None}, token : Tokens \cup {None},
   at : Nat, stale : Nat, seen : Row \cup {None}]

\* Every variable has its type.
ControlTypeOK ==
  /\ row \in [Crons -> Row \cup {None}]
  /\ heap \in [Crons -> {None} \cup [content : Contents, mirror : Nat]]
  /\ pending \in [Tokens -> {None} \cup [cron : Crons, content : Contents, expires : Nat]]
  /\ used \subseteq Tokens /\ clock \in Nat /\ up \in BOOLEAN /\ lock \in Clients \cup {None}
  /\ pc \in [Clients -> Places] /\ req \in [Clients -> Request]
  /\ watcher \in [Crons -> {"none", "mirror", "pause"}]
  /\ approved \in [Crons -> Contents \cup {None}] /\ redeemed \in [Tokens -> Nat]

\* An enabled cron runs content that a user was shown and confirmed: no order of
\* edits, toggles and token calls gets other content enabled (cron_security.rs,
\* "the WEK-53 TOCTOU fix").
OnlyApprovedRuns ==
  \A c \in Crons : row[c] # None /\ row[c].enabled => row[c].content = approved[c]

\* A token enables at most one cron, once.
TokensAreSingleUse == \A t \in Tokens : redeemed[t] <= 1

\* While the scheduling loop lives, a cron whose row is enabled is in the heap
\* with the content of the row, whichever of its two writes a request fails at
\* and whatever the watcher does in between.  (The converse does not hold: an
\* auto-pause leaves the entry.)
EnabledIsInstalled ==
  up /\ lock = None => \A c \in Crons :
    row[c] # None /\ row[c].enabled => heap[c] # None /\ heap[c].content = row[c].content

\* Said of the serializer: cron_security cannot be bypassed.  A disabled cron is
\* enabled only by a request that redeemed a token.
EnabledOnlyByConfirmation ==
  [][\A c \in Crons :
       (row[c] = None \/ ~row[c].enabled) /\ row'[c] # None /\ row'[c].enabled
         => \E p \in Clients : pc[p] = "enabling" /\ req[p].cron = c]_controlVars

=============================================================================
