------------------------ MODULE ClientRequests_proofs ------------------------
(***************************************************************************)
(* Proofs about what clients ask of the daemon, for every set of crons,     *)
(* contents, clients, tokens and reviewers. Crons: a token is redeemed      *)
(* once, an enabled cron runs what a user was shown and confirmed, and it   *)
(* is in the heap. Diffs: every hunk asked for is answered once, only what  *)
(* was shown is changed, and only the agent makes git refuse a hunk.        *)
(***************************************************************************)
EXTENDS CronControl, DiffReview, FiniteSetTheorems, NaturalsInduction, WellFoundedInduction, TLAPS

-----------------------------------------------------------------------------
(* The inductive invariant *)

\* The places of a request that holds the control lock.
Locked == {"write", "install", "enabling", "enabled", "removing", "removed"}

\* A request in the serializer holds its lock, so there is at most one.
LockInv == \A p \in Clients : pc[p] \in Locked => lock = p

\* A request has the arguments its place needs.
RequestInv ==
  \A p \in Clients :
    /\ pc[p] # "idle" => req[p].cron \in Crons
    /\ pc[p] \in {"upsert", "write", "install"} => req[p].content \in Contents
    /\ pc[p] \in {"enabling", "enabled"} => req[p].seen # None

\* A token is recorded once issued, and not pending any more once redeemed.
TokenInv ==
  \A t \in Tokens :
    /\ pending[t] # None => t \in used
    /\ redeemed[t] = 0 \/ (redeemed[t] = 1 /\ pending[t] = None /\ t \in used)

\* What an upsert read, and what an enable is about to turn on, is the approved
\* content: the lock keeps other requests from changing either.
ApprovalInv ==
  \A p \in Clients :
    /\ pc[p] = "write" /\ req[p].seen # None /\ req[p].seen.enabled
         => req[p].seen.content = approved[req[p].cron]
    /\ pc[p] = "enabling" /\ row[req[p].cron] # None
         => row[req[p].cron].content = approved[req[p].cron]

TypeInv == ControlTypeOK /\ RequestInv
Inv == TypeInv /\ LockInv /\ TokenInv /\ ApprovalInv /\ OnlyApprovedRuns

-----------------------------------------------------------------------------
(* The token table *)

Pending == [cron : Crons, content : Contents, expires : Nat]

\* A token table that has lost entries and gained none.
Shrunk(table) ==
  /\ table \in [Tokens -> {None} \cup Pending]
  /\ \A t \in Tokens : table[t] = None \/ table[t] = pending[t]

\* invalidate_cron and prune_expired only drop tokens.
LEMMA InvalidatedShrinks ==
  ASSUME ControlTypeOK, NEW c
  PROVE  Shrunk(Invalidated(c))
  BY DEF ControlTypeOK, Shrunk, Invalidated, Pending

\* Pruning the confirmation store (prune_expired) only ever removes tokens.
LEMMA PrunedShrinks ==
  ASSUME ControlTypeOK, NEW now
  PROVE  Shrunk(Pruned(now))
  BY DEF ControlTypeOK, Shrunk, Pruned, Pending

\* require_or_confirm only drops tokens, the presented one among them.
LEMMA AfterConfirmShrinks ==
  ASSUME ControlTypeOK, NEW t \in Tokens, NEW c, NEW content, NEW now
  PROVE  Shrunk(AfterConfirm(t, c, content, now)) /\ AfterConfirm(t, c, content, now)[t] = None
<1>1. Shrunk(Pruned(now)) /\ Shrunk(Invalidated(c))
  BY InvalidatedShrinks, PrunedShrinks
<1>2. pending[t] = None => Pruned(now)[t] = None
  BY DEF Pruned
<1>3. Shrunk([Invalidated(c) EXCEPT ![t] = None]) /\ [Invalidated(c) EXCEPT ![t] = None][t] = None
  BY <1>1 DEF Shrunk
<1>4. Shrunk([pending EXCEPT ![t] = None]) /\ [pending EXCEPT ![t] = None][t] = None
  BY DEF Shrunk, ControlTypeOK, Pending
<1> QED
  BY <1>1, <1>2, <1>3, <1>4 DEF AfterConfirm

-----------------------------------------------------------------------------
(* Types *)

\* The empty daemon satisfies every part of the inductive invariant.
LEMMA InitInv == ControlInit => Inv
<1> SUFFICES ASSUME ControlInit PROVE Inv
  OBVIOUS
<1> USE DEF ControlInit, NoReq
<1>1. ControlTypeOK
  BY DEF ControlTypeOK, Places, Request
<1>2. RequestInv /\ LockInv /\ TokenInv /\ ApprovalInv /\ OnlyApprovedRuns
  BY DEF RequestInv, LockInv, Locked, TokenInv, ApprovalInv, OnlyApprovedRuns
<1> QED
  BY <1>1, <1>2 DEF Inv, TypeInv

\* The writes the crons table sees keep a row a row.
LEMMA RowUpdates ==
  ASSUME NEW r \in Row
  PROVE  /\ [r EXCEPT !.enabled = TRUE] \in Row /\ [r EXCEPT !.enabled = FALSE] \in Row
         /\ [r EXCEPT !.failures = @ + 1] \in Row
<1>1. [r EXCEPT !.enabled = TRUE] \in Row
  BY Zenon DEF Row
<1>2. [r EXCEPT !.enabled = FALSE] \in Row
  BY Zenon DEF Row
<1>3. [r EXCEPT !.failures = @ + 1] \in Row
  BY DEF Row
<1> QED
  BY <1>1, <1>2, <1>3

\* Answering a request keeps the types.
LEMMA ReplyTypes ==
  ASSUME TypeInv, NEW p \in Clients, Reply(p)
  PROVE  /\ pc' \in [Clients -> Places] /\ req' \in [Clients -> Request]
         /\ lock' \in Clients \cup {None}
         /\ RequestInv'
<1>1. NoReq \in Request
  BY DEF NoReq, Request
<1> QED
  BY <1>1 DEF TypeInv, ControlTypeOK, RequestInv, Reply, Places

\* Every step keeps the types and the arguments of the requests.
LEMMA TypeStep == TypeInv /\ [ControlNext]_controlVars => TypeInv'
<1> SUFFICES ASSUME TypeInv, [ControlNext]_controlVars PROVE TypeInv'
  OBVIOUS
<1> USE ControlAssumption
<1>0. NoReq \in Request
  BY DEF NoReq, Request
<1>1. ASSUME NEW p \in Clients, NEW c \in Crons, NEW content \in Contents,
             BeginUpsert(p, c, content)
      PROVE  TypeInv'
  <2> DEFINE q == [NoReq EXCEPT !.op = "upsert", !.cron = c, !.content = content,
                     !.stale = IF row[c] = None THEN 0 ELSE row[c].failures]
  <2>1. q \in Request /\ q.cron = c /\ q.content = content
    BY DEF NoReq, Request, TypeInv, ControlTypeOK, Row
  <2>2. req' = [req EXCEPT ![p] = q] /\ pc' = [pc EXCEPT ![p] = "upsert"]
    BY <1>1 DEF BeginUpsert, Goto
  <2> HIDE DEF q
  <2> QED
    BY <1>1, <2>1, <2>2 DEF BeginUpsert, TypeInv, ControlTypeOK, RequestInv, Places
<1>2. ASSUME NEW p \in Clients, NEW c \in Crons, NEW token \in used \cup {None},
             BeginEnable(p, c, token)
      PROVE  TypeInv'
  <2> DEFINE q == [NoReq EXCEPT !.op = "enable", !.cron = c, !.token = token, !.at = clock]
  <2>1. q \in Request /\ q.cron = c
    BY DEF NoReq, Request, TypeInv, ControlTypeOK
  <2>2. req' = [req EXCEPT ![p] = q] /\ pc' = [pc EXCEPT ![p] = "enable"]
    BY <1>2 DEF BeginEnable, Goto
  <2> HIDE DEF q
  <2> QED
    BY <1>2, <2>1, <2>2 DEF BeginEnable, TypeInv, ControlTypeOK, RequestInv, Places
<1>3. ASSUME NEW p \in Clients, NEW c \in Crons, NEW op \in {"disable", "delete"},
             BeginRemoval(p, c, op)
      PROVE  TypeInv'
  <2> DEFINE q == [NoReq EXCEPT !.op = op, !.cron = c]
  <2>1. q \in Request /\ q.cron = c
    BY DEF NoReq, Request
  <2>2. req' = [req EXCEPT ![p] = q] /\ pc' = [pc EXCEPT ![p] = "remove"]
    BY <1>3 DEF BeginRemoval, Goto
  <2> HIDE DEF q
  <2> QED
    BY <1>3, <2>1, <2>2 DEF BeginRemoval, TypeInv, ControlTypeOK, RequestInv, Places
<1>4. ASSUME NEW p \in Clients, UpsertReads(p)
      PROVE  TypeInv'
  <2>1. req[p].cron \in Crons /\ req[p].content \in Contents
    BY <1>4 DEF UpsertReads, TypeInv, RequestInv
  <2> DEFINE q == [req[p] EXCEPT !.seen = row[req[p].cron]]
  <2>2. q \in Request /\ q.cron = req[p].cron /\ q.content = req[p].content
    BY <2>1 DEF TypeInv, ControlTypeOK, Request
  <2>3. req' = [req EXCEPT ![p] = q] /\ pc' = [pc EXCEPT ![p] = "write"]
    BY <1>4 DEF UpsertReads, Goto
  <2> HIDE DEF q
  <2> QED
    BY <1>4, <2>1, <2>2, <2>3 DEF UpsertReads, TypeInv, ControlTypeOK, RequestInv, Places
<1>5. ASSUME NEW p \in Clients, UpsertWrites(p)
      PROVE  TypeInv'
  <2>1. req[p].cron \in Crons /\ req[p].content \in Contents /\ req[p].stale \in Nat
    BY <1>5 DEF UpsertWrites, TypeInv, ControlTypeOK, RequestInv, Request
  <2> DEFINE new == [enabled |-> EnabledAfterUpsert(req[p].seen, req[p].content),
                     content |-> req[p].content, failures |-> req[p].stale]
  <2>2. EnabledAfterUpsert(req[p].seen, req[p].content) \in BOOLEAN
    BY DEF EnabledAfterUpsert
  <2>3. new \in Row
    BY <2>1, <2>2 DEF Row
  <2>4. row' = [row EXCEPT ![req[p].cron] = new] /\ pc' = [pc EXCEPT ![p] = "install"]
    BY <1>5 DEF UpsertWrites, Goto
  <2> HIDE DEF new
  <2> QED
    BY <1>5, <2>1, <2>3, <2>4 DEF UpsertWrites, TypeInv, ControlTypeOK, RequestInv, Places
<1>6. ASSUME NEW p \in Clients, UpsertInstalls(p)
      PROVE  TypeInv'
  <2>1. req[p].cron \in Crons /\ req[p].content \in Contents
    BY <1>6 DEF UpsertInstalls, TypeInv, RequestInv
  <2>2. Installed(req[p].cron, req[p].content) \in [content : Contents, mirror : Nat]
    BY <2>1 DEF Installed, TypeInv, ControlTypeOK
  <2>3. heap' \in [Crons -> {None} \cup [content : Contents, mirror : Nat]]
    BY <1>6, <2>1, <2>2 DEF UpsertInstalls, TypeInv, ControlTypeOK
  <2>4. pending' \in [Tokens -> {None} \cup Pending]
    BY <1>6, InvalidatedShrinks DEF UpsertInstalls, TypeInv, ControlTypeOK, Shrunk, Pending
  <2>5. Reply(p)
    BY <1>6 DEF UpsertInstalls
  <2> QED
    BY <1>6, <2>3, <2>4, <2>5, ReplyTypes DEF UpsertInstalls, TypeInv, ControlTypeOK, Pending
<1>7. ASSUME NEW p \in Clients, EnableNotFound(p)
      PROVE  TypeInv'
  <2>1. Reply(p)
    BY <1>7 DEF EnableNotFound
  <2> QED
    BY <1>7, <2>1, ReplyTypes DEF EnableNotFound, TypeInv, ControlTypeOK
<1>8. ASSUME NEW p \in Clients, EnableIssues(p)
      PROVE  TypeInv'
  <2>1. req[p].cron \in Crons /\ req[p].at \in Nat
    BY <1>8 DEF EnableIssues, TypeInv, ControlTypeOK, RequestInv, Request
  <2>2. PICK t \in Tokens \ used :
          /\ pending' = [Pruned(req[p].at) EXCEPT ![t] =
               [cron |-> req[p].cron, content |-> row[req[p].cron].content,
                expires |-> req[p].at + TTL]]
          /\ used' = used \cup {t}
    BY <1>8 DEF EnableIssues
  <2>3. row[req[p].cron].content \in Contents
    BY <1>8, <2>1 DEF EnableIssues, TypeInv, ControlTypeOK, Row
  <2>4. pending' \in [Tokens -> {None} \cup Pending] /\ used' \subseteq Tokens
    BY <2>1, <2>2, <2>3, PrunedShrinks DEF TypeInv, ControlTypeOK, Shrunk, Pending
  <2>5. Reply(p)
    BY <1>8 DEF EnableIssues
  <2> QED
    BY <1>8, <2>4, <2>5, ReplyTypes DEF EnableIssues, TypeInv, ControlTypeOK, Pending
<1>9. ASSUME NEW p \in Clients, EnableConfirms(p)
      PROVE  TypeInv'
  <2> DEFINE c == req[p].cron
  <2>1. c \in Crons /\ req[p].token \in Tokens /\ row[c] # None /\ row[c] \in Row
    BY <1>9 DEF EnableConfirms, TypeInv, ControlTypeOK, RequestInv, Request
  <2>2. Shrunk(pending')
    BY <1>9, <2>1, AfterConfirmShrinks DEF EnableConfirms, TypeInv
  <2>3. CASE Redeemable(pending[req[p].token], c, row[c].content, req[p].at)
    <3> DEFINE q == [req[p] EXCEPT !.seen = row[c]]
    <3>1. q \in Request /\ q.cron = c /\ q.seen = row[c]
      BY <2>1 DEF TypeInv, ControlTypeOK, Request
    <3>2. /\ req' = [req EXCEPT ![p] = q] /\ pc' = [pc EXCEPT ![p] = "enabling"] /\ lock' = p
          /\ approved' = [approved EXCEPT ![c] = pending[req[p].token].content]
          /\ redeemed' = [redeemed EXCEPT ![req[p].token] = IF @ < 2 THEN @ + 1 ELSE @]
      BY <1>9, <2>3 DEF EnableConfirms, Goto
    <3>3. pending[req[p].token].content \in Contents
      BY <2>1, <2>3 DEF Redeemable, Row
    <3>4. RequestInv' /\ req' \in [Clients -> Request] /\ pc' \in [Clients -> Places]
      <4> HIDE DEF q, c
      <4> QED
        BY <2>1, <3>1, <3>2 DEF TypeInv, ControlTypeOK, RequestInv, Places
    <3> QED
      BY <1>9, <2>1, <2>2, <3>2, <3>3, <3>4 DEF EnableConfirms, TypeInv, ControlTypeOK, Shrunk, Pending
  <2>4. CASE ~Redeemable(pending[req[p].token], c, row[c].content, req[p].at)
    <3>1. Reply(p) /\ UNCHANGED <<approved, redeemed>>
      BY <1>9, <2>4 DEF EnableConfirms
    <3> QED
      BY <1>9, <2>2, <3>1, ReplyTypes DEF EnableConfirms, TypeInv, ControlTypeOK, Shrunk, Pending
  <2> QED
    BY <2>3, <2>4
<1>10. ASSUME NEW p \in Clients, EnableWrites(p)
       PROVE  TypeInv'
  <2>1. req[p].cron \in Crons
    BY <1>10 DEF EnableWrites, TypeInv, RequestInv
  <2>2. row' \in [Crons -> Row \cup {None}]
    BY <1>10, <2>1, RowUpdates DEF EnableWrites, TypeInv, ControlTypeOK
  <2>3. pc' = [pc EXCEPT ![p] = "enabled"]
    BY <1>10 DEF EnableWrites, Goto
  <2> QED
    BY <1>10, <2>2, <2>3 DEF EnableWrites, TypeInv, ControlTypeOK, RequestInv, Places
<1>11. ASSUME NEW p \in Clients, EnableInstalls(p)
       PROVE  TypeInv'
  <2>1. req[p].cron \in Crons /\ req[p].seen.content \in Contents
    BY <1>11 DEF EnableInstalls, TypeInv, ControlTypeOK, RequestInv, Request, Row
  <2>2. Installed(req[p].cron, req[p].seen.content) \in [content : Contents, mirror : Nat]
    BY <2>1 DEF Installed, TypeInv, ControlTypeOK
  <2>3. heap' \in [Crons -> {None} \cup [content : Contents, mirror : Nat]]
    BY <1>11, <2>1, <2>2 DEF EnableInstalls, TypeInv, ControlTypeOK
  <2>4. Reply(p)
    BY <1>11 DEF EnableInstalls
  <2> QED
    BY <1>11, <2>3, <2>4, ReplyTypes DEF EnableInstalls, TypeInv, ControlTypeOK
<1>12. ASSUME NEW p \in Clients, RemoveInvalidates(p)
       PROVE  TypeInv'
  <2>1. CASE req[p].op = "disable" /\ row[req[p].cron] = None
    <3>1. Reply(p) /\ UNCHANGED pending
      BY <1>12, <2>1 DEF RemoveInvalidates
    <3> QED
      BY <1>12, <3>1, ReplyTypes DEF RemoveInvalidates, TypeInv, ControlTypeOK
  <2>2. CASE ~(req[p].op = "disable" /\ row[req[p].cron] = None)
    <3>1. /\ lock' = p /\ pending' = Invalidated(req[p].cron)
          /\ pc' = [pc EXCEPT ![p] = "removing"] /\ UNCHANGED req
      BY <1>12, <2>2 DEF RemoveInvalidates, Goto
    <3>2. pending' \in [Tokens -> {None} \cup Pending]
      BY <3>1, InvalidatedShrinks DEF TypeInv, Shrunk
    <3>3. RequestInv'
      BY <1>12, <3>1 DEF RemoveInvalidates, TypeInv, ControlTypeOK, RequestInv
    <3> QED
      BY <1>12, <3>1, <3>2, <3>3 DEF RemoveInvalidates, TypeInv, ControlTypeOK, Places, Pending
  <2> QED
    BY <2>1, <2>2
<1>13. ASSUME NEW p \in Clients, RemoveWrites(p)
       PROVE  TypeInv'
  <2>1. req[p].cron \in Crons
    BY <1>13 DEF RemoveWrites, TypeInv, RequestInv
  <2>2. row' \in [Crons -> Row \cup {None}]
    BY <1>13, <2>1, RowUpdates DEF RemoveWrites, TypeInv, ControlTypeOK
  <2>3. approved' \in [Crons -> Contents \cup {None}]
    BY <1>13, <2>1 DEF RemoveWrites, TypeInv, ControlTypeOK
  <2>4. pc' = [pc EXCEPT ![p] = "removed"]
    BY <1>13 DEF RemoveWrites, Goto
  <2> QED
    BY <1>13, <2>2, <2>3, <2>4 DEF RemoveWrites, TypeInv, ControlTypeOK, RequestInv, Places
<1>14. ASSUME NEW p \in Clients, RemoveUninstalls(p)
       PROVE  TypeInv'
  <2>1. Reply(p)
    BY <1>14 DEF RemoveUninstalls
  <2> QED
    BY <1>14, <2>1, ReplyTypes DEF RemoveUninstalls, TypeInv, ControlTypeOK
<1>15. ASSUME NEW c \in Crons, WatcherBumps(c) \/ WatcherMirrors(c) \/ WatcherPauses(c)
       PROVE  TypeInv'
  <2>1. row' \in [Crons -> Row \cup {None}]
    <3>1. CASE WatcherBumps(c)
      <4>1. row[c] \in Row /\ row' = [row EXCEPT ![c] = [row[c] EXCEPT !.failures = @ + 1]]
        BY <3>1 DEF WatcherBumps, TypeInv, ControlTypeOK
      <4> QED
        BY <4>1, RowUpdates DEF TypeInv, ControlTypeOK
    <3>2. CASE WatcherPauses(c)
      BY <3>2, RowUpdates DEF WatcherPauses, TypeInv, ControlTypeOK
    <3> QED
      BY <1>15, <3>1, <3>2 DEF WatcherMirrors, TypeInv, ControlTypeOK
  <2>2. heap' \in [Crons -> {None} \cup [content : Contents, mirror : Nat]]
    BY <1>15 DEF WatcherBumps, WatcherMirrors, WatcherPauses, TypeInv, ControlTypeOK, Row
  <2>3. watcher' \in [Crons -> {"none", "mirror", "pause"}]
    BY <1>15 DEF WatcherBumps, WatcherMirrors, WatcherPauses, TypeInv, ControlTypeOK
  <2> QED
    BY <1>15, <2>1, <2>2, <2>3
    DEF WatcherBumps, WatcherMirrors, WatcherPauses, TypeInv, ControlTypeOK, RequestInv
<1>16. CASE ControlTick \/ LoopStops \/ UNCHANGED controlVars
  <2>1. up' \in BOOLEAN
    BY <1>16, Zenon DEF ControlTick, LoopStops, controlVars, TypeInv, ControlTypeOK
  <2>2. clock' \in Nat
    BY <1>16 DEF ControlTick, LoopStops, controlVars, TypeInv, ControlTypeOK
  <2>3. RequestInv'
    BY <1>16 DEF ControlTick, LoopStops, controlVars, TypeInv, RequestInv
  <2> QED
    BY <1>16, <2>1, <2>2, <2>3 DEF ControlTick, LoopStops, controlVars, TypeInv, ControlTypeOK
<1>17. ASSUME NEW p \in Clients, StatementFails(p)
       PROVE  TypeInv'
  <2>1. Reply(p)
    BY <1>17 DEF StatementFails
  <2> QED
    BY <1>17, <2>1, ReplyTypes DEF StatementFails, TypeInv, ControlTypeOK
<1>18. ASSUME NEW p \in Clients, HeapGone(p)
       PROVE  TypeInv'
  <2>1. Reply(p)
    BY <1>18 DEF HeapGone
  <2>2. pending' \in [Tokens -> {None} \cup Pending]
    BY <1>18, InvalidatedShrinks DEF HeapGone, TypeInv, ControlTypeOK, Shrunk, Pending
  <2> QED
    BY <1>18, <2>1, <2>2, ReplyTypes DEF HeapGone, TypeInv, ControlTypeOK, Pending
<1> QED
  BY <1>1, <1>2, <1>3, <1>4, <1>5, <1>6, <1>7, <1>8, <1>9, <1>10, <1>11, <1>12, <1>13,
     <1>14, <1>15, <1>16, <1>17, <1>18 DEF ControlNext, Begin, Control

-----------------------------------------------------------------------------
(* The lock and the tokens *)

\* Every step keeps the lock with the request that took it.
LEMMA LockStep == TypeInv /\ LockInv /\ [ControlNext]_controlVars => LockInv'
<1> SUFFICES ASSUME TypeInv, LockInv, [ControlNext]_controlVars PROVE LockInv'
  OBVIOUS
<1> USE ControlAssumption DEF TypeInv, ControlTypeOK, LockInv, Locked
<1>1. ASSUME NEW p \in Clients, Begin(p) PROVE LockInv'
  BY <1>1 DEF Begin, BeginUpsert, BeginEnable, BeginRemoval, Goto
<1>2. ASSUME NEW p \in Clients, UpsertReads(p) \/ UpsertWrites(p) \/ UpsertInstalls(p)
      PROVE  LockInv'
  BY <1>2 DEF UpsertReads, UpsertWrites, UpsertInstalls, Goto, Reply
<1>3. ASSUME NEW p \in Clients, EnableNotFound(p) \/ EnableIssues(p) \/ EnableConfirms(p)
      PROVE  LockInv'
  BY <1>3 DEF EnableNotFound, EnableIssues, EnableConfirms, Goto, Reply
<1>4. ASSUME NEW p \in Clients, EnableWrites(p) \/ EnableInstalls(p)
      PROVE  LockInv'
  BY <1>4 DEF EnableWrites, EnableInstalls, Goto, Reply
<1>5. ASSUME NEW p \in Clients, RemoveInvalidates(p) \/ RemoveWrites(p) \/ RemoveUninstalls(p)
      PROVE  LockInv'
  BY <1>5 DEF RemoveInvalidates, RemoveWrites, RemoveUninstalls, Goto, Reply
<1>6. ASSUME NEW c \in Crons, WatcherBumps(c) \/ WatcherMirrors(c) \/ WatcherPauses(c)
      PROVE  LockInv'
  BY <1>6 DEF WatcherBumps, WatcherMirrors, WatcherPauses
<1>7. CASE ControlTick \/ LoopStops \/ UNCHANGED controlVars
  BY <1>7 DEF ControlTick, LoopStops, controlVars
<1>8. ASSUME NEW p \in Clients, StatementFails(p) \/ HeapGone(p)
      PROVE  LockInv'
  BY <1>8 DEF StatementFails, HeapGone, Reply
<1> QED
  BY <1>1, <1>2, <1>3, <1>4, <1>5, <1>6, <1>7, <1>8 DEF ControlNext, Control

\* Dropping tokens keeps the token invariant.
LEMMA ShrinkingKeepsTokens ==
  ASSUME TokenInv, Shrunk(pending'), UNCHANGED <<used, redeemed>>
  PROVE  TokenInv'
  BY DEF TokenInv, Shrunk

\* Every step keeps the token invariant.
LEMMA TokenStep == TypeInv /\ TokenInv /\ [ControlNext]_controlVars => TokenInv'
<1> SUFFICES ASSUME TypeInv, TokenInv, [ControlNext]_controlVars PROVE TokenInv'
  OBVIOUS
<1>0. ControlTypeOK
  BY DEF TypeInv
<1>1. ASSUME UNCHANGED <<pending, used, redeemed>> PROVE TokenInv'
  BY <1>1 DEF TokenInv
<1>2. ASSUME NEW p \in Clients, UpsertInstalls(p) PROVE TokenInv'
  <2>1. pending' = Invalidated(req[p].cron) \/ pending' = pending
    BY <1>2 DEF UpsertInstalls
  <2>2. UNCHANGED <<used, redeemed>>
    BY <1>2 DEF UpsertInstalls
  <2> QED
    BY <1>0, <1>1, <2>1, <2>2, InvalidatedShrinks, ShrinkingKeepsTokens
<1>3. ASSUME NEW p \in Clients, RemoveInvalidates(p) PROVE TokenInv'
  <2>1. pending' = Invalidated(req[p].cron) \/ pending' = pending
    BY <1>3 DEF RemoveInvalidates
  <2>2. UNCHANGED <<used, redeemed>>
    BY <1>3 DEF RemoveInvalidates
  <2> QED
    BY <1>0, <1>1, <2>1, <2>2, InvalidatedShrinks, ShrinkingKeepsTokens
<1>4. ASSUME NEW p \in Clients, EnableIssues(p) PROVE TokenInv'
  \* A fresh token was never redeemed.
  <2>1. PICK t \in Tokens \ used : \E new :
          pending' = [Pruned(req[p].at) EXCEPT ![t] = new] /\ used' = used \cup {t}
    BY <1>4 DEF EnableIssues
  <2>2. Shrunk(Pruned(req[p].at)) /\ redeemed' = redeemed
    BY <1>0, <1>4, PrunedShrinks DEF EnableIssues
  <2> QED
    BY <2>1, <2>2 DEF TokenInv, Shrunk
<1>5. ASSUME NEW p \in Clients, EnableConfirms(p) PROVE TokenInv'
  <2> DEFINE t == req[p].token
  <2>1. t \in Tokens
    BY <1>0, <1>5 DEF EnableConfirms, ControlTypeOK, Request
  <2>2. Shrunk(pending') /\ pending'[t] = None /\ used' = used
    BY <1>0, <1>5, <2>1, AfterConfirmShrinks DEF EnableConfirms
  <2>3. CASE Redeemable(pending[t], req[p].cron, row[req[p].cron].content, req[p].at)
    <3>1. redeemed' = [redeemed EXCEPT ![t] = IF @ < 2 THEN @ + 1 ELSE @]
      BY <1>5, <2>3 DEF EnableConfirms
    <3>2. pending[t] # None
      BY <2>3 DEF Redeemable
    <3>3. redeemed[t] = 0 /\ t \in used
      BY <2>1, <3>2 DEF TokenInv
    <3> HIDE DEF t
    <3> QED
      BY <1>0, <2>1, <2>2, <3>1, <3>3 DEF TokenInv, Shrunk, ControlTypeOK
  <2>4. CASE ~Redeemable(pending[t], req[p].cron, row[req[p].cron].content, req[p].at)
    <3>1. redeemed' = redeemed
      BY <1>5, <2>4 DEF EnableConfirms
    <3> QED
      BY <2>2, <3>1, ShrinkingKeepsTokens
  <2> QED
    BY <2>3, <2>4
<1>6. ASSUME NEW p \in Clients,
             \/ Begin(p) \/ StatementFails(p) \/ UpsertReads(p) \/ UpsertWrites(p)
             \/ EnableNotFound(p)
             \/ EnableWrites(p) \/ EnableInstalls(p) \/ RemoveWrites(p) \/ RemoveUninstalls(p)
      PROVE  TokenInv'
  BY <1>1, <1>6 DEF Begin, BeginUpsert, BeginEnable, BeginRemoval, UpsertReads, UpsertWrites,
                    StatementFails, EnableNotFound, EnableWrites, EnableInstalls, RemoveWrites, RemoveUninstalls
<1>7. ASSUME NEW c \in Crons, WatcherBumps(c) \/ WatcherMirrors(c) \/ WatcherPauses(c)
      PROVE  TokenInv'
  BY <1>1, <1>7 DEF WatcherBumps, WatcherMirrors, WatcherPauses
<1>8. CASE ControlTick \/ LoopStops \/ UNCHANGED controlVars
  BY <1>1, <1>8 DEF ControlTick, LoopStops, controlVars
<1>9. ASSUME NEW p \in Clients, HeapGone(p) PROVE TokenInv'
  <2>1. pending' = Invalidated(req[p].cron) \/ pending' = pending
    BY <1>9 DEF HeapGone
  <2>2. UNCHANGED <<used, redeemed>>
    BY <1>9 DEF HeapGone
  <2> QED
    BY <1>0, <1>1, <2>1, <2>2, InvalidatedShrinks, ShrinkingKeepsTokens
<1> QED
  BY <1>2, <1>3, <1>4, <1>5, <1>6, <1>7, <1>8, <1>9 DEF ControlNext, Control

-----------------------------------------------------------------------------
(* Approval *)

Approval == ApprovalInv /\ OnlyApprovedRuns

\* Every step keeps enabled crons at their approved content.
LEMMA ApprovalStep == Inv /\ [ControlNext]_controlVars => Approval'
<1> SUFFICES ASSUME Inv, [ControlNext]_controlVars PROVE Approval'
  OBVIOUS
<1> USE ControlAssumption DEF Inv, Approval
<1>1. ASSUME NEW p \in Clients, NEW place \in Places \ {"write", "enabling"},
             pc' = [pc EXCEPT ![p] = place], UNCHANGED <<row, approved>>,
             \A q \in Clients \ {p} : req'[q] = req[q]
      PROVE  Approval'
  BY <1>1 DEF ApprovalInv, OnlyApprovedRuns, TypeInv, ControlTypeOK
<1>2. ASSUME NEW p \in Clients, Begin(p) PROVE Approval'
  BY <1>1, <1>2 DEF Begin, BeginUpsert, BeginEnable, BeginRemoval, Goto, Places, TypeInv, ControlTypeOK
<1>3. ASSUME NEW p \in Clients, UpsertReads(p) PROVE Approval'
  <2>1. req[p].cron \in Crons
    BY <1>3 DEF UpsertReads, TypeInv, RequestInv
  <2>2. /\ pc' = [pc EXCEPT ![p] = "write"] /\ row' = row /\ approved' = approved
        /\ \A q \in Clients \ {p} : req'[q] = req[q]
        /\ req'[p].seen = row[req[p].cron] /\ req'[p].cron = req[p].cron
    BY <1>3 DEF UpsertReads, Goto, TypeInv, ControlTypeOK, Request
  <2> QED
    BY <2>1, <2>2 DEF ApprovalInv, OnlyApprovedRuns, TypeInv, ControlTypeOK
<1>4. ASSUME NEW p \in Clients, UpsertWrites(p) PROVE Approval'
  <2> DEFINE c == req[p].cron
  <2>1. c \in Crons /\ lock = p
    BY <1>4 DEF UpsertWrites, TypeInv, RequestInv, LockInv, Locked
  <2>2. \A q \in Clients : q # p => pc[q] \notin Locked
    BY <2>1 DEF LockInv
  <2>3. /\ pc' = [pc EXCEPT ![p] = "install"] /\ req' = req /\ approved' = approved
        /\ row' = [row EXCEPT ![c] =
             [enabled |-> EnabledAfterUpsert(req[p].seen, req[p].content),
              content |-> req[p].content, failures |-> req[p].stale]]
    BY <1>4 DEF UpsertWrites, Goto
  <2>4. EnabledAfterUpsert(req[p].seen, req[p].content) => req[p].content = approved[c]
    BY <1>4 DEF EnabledAfterUpsert, UpsertWrites, ApprovalInv
  <2>5. ApprovalInv'
    BY <2>2, <2>3 DEF ApprovalInv, Locked, TypeInv, ControlTypeOK
  <2>6. OnlyApprovedRuns'
    <3> SUFFICES ASSUME NEW d \in Crons, row'[d] # None, row'[d].enabled
                 PROVE  row'[d].content = approved'[d]
      BY DEF OnlyApprovedRuns
    <3>1. CASE d = c
      BY <2>1, <2>3, <2>4, <3>1 DEF TypeInv, ControlTypeOK
    <3>2. CASE d # c
      BY <2>3, <3>2 DEF OnlyApprovedRuns, TypeInv, ControlTypeOK
    <3> QED
      BY <3>1, <3>2
  <2> QED
    BY <2>5, <2>6
<1>5. ASSUME NEW p \in Clients, Reply(p), UNCHANGED <<row, approved>> PROVE Approval'
  BY <1>1, <1>5 DEF Reply, Places, TypeInv, ControlTypeOK
<1>6. ASSUME NEW p \in Clients,
             UpsertInstalls(p) \/ EnableNotFound(p) \/ EnableIssues(p) \/ EnableInstalls(p)
               \/ RemoveUninstalls(p) \/ StatementFails(p) \/ HeapGone(p)
      PROVE  Approval'
  BY <1>5, <1>6 DEF UpsertInstalls, EnableNotFound, EnableIssues, EnableInstalls, RemoveUninstalls,
                    StatementFails, HeapGone
<1>7. ASSUME NEW p \in Clients, EnableConfirms(p) PROVE Approval'
  <2> DEFINE c == req[p].cron
             t == req[p].token
  <2>1. c \in Crons /\ row[c] # None /\ row' = row
    BY <1>7 DEF EnableConfirms, TypeInv, RequestInv
  <2>2. CASE Redeemable(pending[t], c, row[c].content, req[p].at)
    <3>1. \A q \in Clients : pc[q] \notin Locked
      BY <1>7 DEF EnableConfirms, LockInv
    <3>2. /\ pc' = [pc EXCEPT ![p] = "enabling"]
          /\ approved' = [approved EXCEPT ![c] = pending[t].content]
          /\ \A q \in Clients : req'[q].cron = req[q].cron
      <4>1. /\ pc' = [pc EXCEPT ![p] = "enabling"]
            /\ approved' = [approved EXCEPT ![c] = pending[t].content]
            /\ req' = [req EXCEPT ![p] = [req[p] EXCEPT !.seen = row[c]]]
        BY <1>7, <2>2 DEF EnableConfirms, Goto
      <4>2. [req[p] EXCEPT !.seen = row[c]].cron = req[p].cron
        BY DEF TypeInv, ControlTypeOK, Request
      <4> QED
        BY <4>1, <4>2 DEF TypeInv, ControlTypeOK
    <3>3. approved' = [approved EXCEPT ![c] = row[c].content]
      BY <2>2, <3>2 DEF Redeemable
    <3>4. OnlyApprovedRuns'
      BY <2>1, <3>3 DEF OnlyApprovedRuns, TypeInv, ControlTypeOK
    <3>5. ApprovalInv'
      BY <2>1, <3>1, <3>2, <3>3 DEF ApprovalInv, Locked, TypeInv, ControlTypeOK
    <3> QED
      BY <3>4, <3>5
  <2>3. CASE ~Redeemable(pending[t], c, row[c].content, req[p].at)
    BY <1>5, <1>7, <2>3 DEF EnableConfirms
  <2> QED
    BY <2>2, <2>3
<1>8. ASSUME NEW p \in Clients, EnableWrites(p) PROVE Approval'
  <2> DEFINE c == req[p].cron
  <2>1. c \in Crons /\ lock = p
    BY <1>8 DEF EnableWrites, TypeInv, RequestInv, LockInv, Locked
  <2>2. \A q \in Clients : q # p => pc[q] \notin Locked
    BY <2>1 DEF LockInv
  <2>3. /\ pc' = [pc EXCEPT ![p] = "enabled"] /\ req' = req /\ approved' = approved
        /\ \A d \in Crons : d # c => row'[d] = row[d]
        /\ row[c] = None => row'[c] = None
        /\ row[c] # None => row'[c].content = row[c].content
    BY <1>8, <2>1 DEF EnableWrites, Goto, TypeInv, ControlTypeOK, Row
  <2>4. row[c] # None => row[c].content = approved[c]
    BY <1>8 DEF EnableWrites, ApprovalInv
  <2>5. ApprovalInv'
    BY <2>2, <2>3 DEF ApprovalInv, Locked, TypeInv, ControlTypeOK
  <2>6. OnlyApprovedRuns'
    BY <2>3, <2>4 DEF OnlyApprovedRuns
  <2> QED
    BY <2>5, <2>6
<1>9. ASSUME NEW p \in Clients, RemoveInvalidates(p) PROVE Approval'
  BY <1>1, <1>5, <1>9 DEF RemoveInvalidates, Goto, Places
<1>10. ASSUME NEW p \in Clients, RemoveWrites(p) PROVE Approval'
  <2> DEFINE c == req[p].cron
  <2>1. c \in Crons /\ lock = p
    BY <1>10 DEF RemoveWrites, TypeInv, RequestInv, LockInv, Locked
  <2>2. \A q \in Clients : q # p => pc[q] \notin Locked
    BY <2>1 DEF LockInv
  <2>3. /\ pc' = [pc EXCEPT ![p] = "removed"] /\ req' = req
        /\ \A d \in Crons : d # c => row'[d] = row[d] /\ approved'[d] = approved[d]
        /\ row'[c] = None \/ ~row'[c].enabled
    BY <1>10, <2>1 DEF RemoveWrites, Goto, TypeInv, ControlTypeOK, Row
  <2>4. ApprovalInv'
    BY <2>2, <2>3 DEF ApprovalInv, Locked, TypeInv, ControlTypeOK
  <2>5. OnlyApprovedRuns'
    BY <2>3 DEF OnlyApprovedRuns
  <2> QED
    BY <2>4, <2>5
<1>11. ASSUME NEW c \in Crons, WatcherBumps(c) \/ WatcherMirrors(c) \/ WatcherPauses(c)
       PROVE  Approval'
  <2>1. /\ UNCHANGED <<pc, req, approved>>
        /\ \A d \in Crons : /\ row'[d] # None => row[d] # None /\ row'[d].content = row[d].content
                            /\ row'[d] # None /\ row'[d].enabled => row[d].enabled
    BY <1>11 DEF WatcherBumps, WatcherMirrors, WatcherPauses, TypeInv, ControlTypeOK, Row
  <2>2. ApprovalInv'
    BY <2>1 DEF ApprovalInv, TypeInv, RequestInv
  <2>3. OnlyApprovedRuns'
    BY <2>1 DEF OnlyApprovedRuns
  <2> QED
    BY <2>2, <2>3
<1>12. CASE ControlTick \/ LoopStops \/ UNCHANGED controlVars
  BY <1>12 DEF ControlTick, LoopStops, controlVars, ApprovalInv, OnlyApprovedRuns
<1> QED
  BY <1>2, <1>3, <1>4, <1>6, <1>7, <1>8, <1>9, <1>10, <1>11, <1>12 DEF ControlNext, Control

-----------------------------------------------------------------------------
(* The theorems *)

\* The invariant holds throughout.
LEMMA Invariance == ControlSpec => []Inv
<1>1. Inv /\ [ControlNext]_controlVars => Inv'
  BY TypeStep, LockStep, TokenStep, ApprovalStep DEF Inv, Approval
<1> QED
  BY InitInv, <1>1, PTL DEF ControlSpec

\* The variables of the serializer and its requests keep their types.
THEOREM ControlTypes == ControlSpec => []ControlTypeOK
<1>1. Inv => ControlTypeOK
  BY DEF Inv, TypeInv
<1> QED
  BY Invariance, <1>1, PTL

\* cron_security.rs: an enabled cron runs content that a user was shown and
\* confirmed, whatever the number of clients, tokens and crons, and with the
\* run watchers writing to the table without the lock.
THEOREM ApprovedContentOnly == ControlSpec => []OnlyApprovedRuns
<1>1. Inv => OnlyApprovedRuns
  BY DEF Inv
<1> QED
  BY Invariance, <1>1, PTL

\* cron_security.rs: no confirmation token enables a cron twice.
THEOREM TokensRedeemedOnce == ControlSpec => []TokensAreSingleUse
<1>1. Inv => TokensAreSingleUse
  BY DEF Inv, TokenInv, TokensAreSingleUse
<1> QED
  BY Invariance, <1>1, PTL

-----------------------------------------------------------------------------
(* The table and the heap *)

\* The scheduling loop has the content of the row.
InHeap(c) == heap[c] # None /\ heap[c].content = row[c].content

RowOn(c) == row[c] # None /\ row[c].enabled

\* An upsert that read an enabled row found its entry in the heap; what a request
\* that has written the row is going to install is what the row says, and one
\* that is going to remove the entry has turned the row off.
WrittenInv ==
  \A p \in Clients :
    LET r == row[req[p].cron]
        h == heap[req[p].cron]
    IN
    /\ pc[p] = "write" /\ up /\ req[p].seen # None /\ req[p].seen.enabled =>
         h # None /\ h.content = req[p].seen.content
    /\ pc[p] = "install" => r # None /\ r.content = req[p].content
    /\ pc[p] \in {"enabling", "enabled"} /\ r # None => r.content = req[p].seen.content
    /\ pc[p] = "removed" => ~RowOn(req[p].cron)

\* An enabled row without its entry has a confirmed request that is about to
\* install it.  (An upsert may fail before it installs anything: the row it leaves
\* enabled is one that was installed before.)
InstalledInv ==
  up => \A c \in Crons : RowOn(c) =>
    InHeap(c) \/ \E p \in Clients : pc[p] = "enabled" /\ req[p].cron = c

Synced == WrittenInv /\ InstalledInv

\* Every step keeps the table and the heap in step.
LEMMA SyncStep == Inv /\ Synced /\ [ControlNext]_controlVars => Synced'
<1> SUFFICES ASSUME Inv, Synced, [ControlNext]_controlVars PROVE Synced'
  OBVIOUS
<1> USE ControlAssumption DEF Inv, Synced
\* A request outside the serializer moves, or enters it, and writes nothing.
<1>1. ASSUME NEW p \in Clients, NEW place \in Places \ {"write", "install", "enabling", "enabled", "removed"},
             pc[p] # "enabled",
             pc' = [pc EXCEPT ![p] = place], UNCHANGED <<row, heap, up>>,
             \A q \in Clients \ {p} : req'[q] = req[q]
      PROVE  Synced'
  <2>1. WrittenInv'
    BY <1>1 DEF WrittenInv, RowOn, TypeInv, ControlTypeOK
  <2>2. InstalledInv'
    BY <1>1 DEF InstalledInv, RowOn, InHeap, TypeInv, ControlTypeOK
  <2> QED
    BY <2>1, <2>2
<1>2. ASSUME NEW p \in Clients, Begin(p) PROVE Synced'
  BY <1>1, <1>2 DEF Begin, BeginUpsert, BeginEnable, BeginRemoval, Goto, Places, TypeInv, ControlTypeOK
<1>3. ASSUME NEW p \in Clients, UpsertReads(p) PROVE Synced'
  <2> DEFINE c == req[p].cron
  <2>1. c \in Crons /\ pc[p] = "upsert" /\ lock = None /\ UNCHANGED <<row, heap, up>>
    BY <1>3 DEF UpsertReads, TypeInv, RequestInv
  <2>2. /\ pc' = [pc EXCEPT ![p] = "write"]
        /\ req' = [req EXCEPT ![p] = [req[p] EXCEPT !.seen = row[c]]]
    BY <1>3 DEF UpsertReads, Goto
  <2>3. [req[p] EXCEPT !.seen = row[c]].cron = c /\ [req[p] EXCEPT !.seen = row[c]].seen = row[c]
    BY DEF TypeInv, ControlTypeOK, Request
  <2>4. /\ pc'[p] = "write" /\ \A q \in Clients : q # p => pc'[q] \notin Locked
        /\ \A q \in Clients : pc[q] \notin Locked
    BY <2>1, <2>2 DEF LockInv, TypeInv, ControlTypeOK
  <2>5. req'[p].cron = c /\ req'[p].seen = row[c]
    BY <2>2, <2>3 DEF TypeInv, ControlTypeOK
  <2> HIDE DEF c
  <2>6. up /\ RowOn(c) => InHeap(c)
    BY <2>1, <2>4 DEF InstalledInv, Locked
  <2>7. WrittenInv'
    BY <2>1, <2>4, <2>5, <2>6 DEF WrittenInv, Locked, RowOn, InHeap
  <2>8. InstalledInv'
    BY <2>1, <2>4 DEF InstalledInv, RowOn, InHeap, Locked
  <2> QED
    BY <2>7, <2>8
<1>4. ASSUME NEW p \in Clients, Reply(p), UNCHANGED <<row, heap, up>>,
             pc[p] # "enabled"
      PROVE  Synced'
  BY <1>1, <1>4 DEF Reply, Places, TypeInv, ControlTypeOK
<1>5. ASSUME NEW p \in Clients, EnableNotFound(p) \/ EnableIssues(p) \/ StatementFails(p)
      PROVE  Synced'
  BY <1>4, <1>5 DEF EnableNotFound, EnableIssues, StatementFails
<1>6. ASSUME NEW p \in Clients, RemoveInvalidates(p) PROVE Synced'
  BY <1>1, <1>4, <1>6 DEF RemoveInvalidates, Goto, Places
\* The lock keeps other requests away from the row and the entry.
<1>7. ASSUME NEW p \in Clients, pc[p] \in Locked
      PROVE  req[p].cron \in Crons /\ \A q \in Clients : q # p => pc[q] \notin Locked
  BY <1>7 DEF TypeInv, RequestInv, LockInv, Locked
\* An answer of the serializer that leaves the cron in order.
<1>8. ASSUME NEW p \in Clients, NEW c \in Crons, pc[p] \in Locked, req[p].cron = c,
             Reply(p), UNCHANGED <<row, up>>,
             \A d \in Crons : d # c => heap'[d] = heap[d],
             up /\ RowOn(c) => InHeap(c)'
      PROVE  Synced'
  <2>1. \A q \in Clients : pc'[q] \notin Locked
    BY <1>7, <1>8 DEF Reply, Locked, TypeInv, ControlTypeOK
  <2>2. WrittenInv'
    BY <2>1 DEF WrittenInv, Locked
  <2>3. ASSUME NEW d \in Crons, up', RowOn(d)' PROVE InHeap(d)'
    <3>1. CASE d = c
      BY <1>8, <2>3, <3>1 DEF RowOn, InHeap
    <3>2. CASE d # c
      <4>1. \A q \in Clients : pc[q] = "enabled" => req[q].cron # d
        BY <1>7, <1>8, <3>2 DEF Locked
      <4> QED
        BY <1>8, <2>3, <3>2, <4>1 DEF RowOn, InHeap, InstalledInv
    <3> QED
      BY <3>1, <3>2
  <2> QED
    BY <2>2, <2>3 DEF InstalledInv
<1>9. ASSUME NEW p \in Clients, NEW content, pc[p] \in Locked, Reply(p), UNCHANGED <<row, up>>,
             heap' = [heap EXCEPT ![req[p].cron] = Installed(req[p].cron, content)],
             content \in Contents, RowOn(req[p].cron) => row[req[p].cron].content = content
      PROVE  Synced'
  <2>1. PICK c \in Crons : c = req[p].cron
    BY <1>7, <1>9
  <2>2. Installed(c, content) \in [content : Contents, mirror : Nat] /\ Installed(c, content).content = content
    BY <1>9, <2>1 DEF Installed, TypeInv, ControlTypeOK
  <2>3. heap'[c] = Installed(c, content) /\ \A d \in Crons : d # c => heap'[d] = heap[d]
    BY <1>9, <2>1 DEF TypeInv, ControlTypeOK
  <2>4. RowOn(c) => InHeap(c)'
    BY <1>9, <2>1, <2>2, <2>3, NoRecordAssumption DEF InHeap
  <2> QED
    BY <1>8, <1>9, <2>1, <2>3, <2>4
<1>10. ASSUME NEW p \in Clients, NEW c \in Crons, pc[p] \in Locked, Reply(p), UNCHANGED <<row, up>>,
              req[p].cron = c, heap' = [heap EXCEPT ![c] = None], ~RowOn(c)
       PROVE  Synced'
  <2>1. \A d \in Crons : d # c => heap'[d] = heap[d]
    BY <1>10 DEF TypeInv, ControlTypeOK
  <2> QED
    BY <1>8, <1>10, <2>1
<1>11. ASSUME NEW p \in Clients, UpsertInstalls(p) PROVE Synced'
  <2> DEFINE c == req[p].cron
  <2>1. pc[p] \in Locked /\ Reply(p) /\ UNCHANGED <<row, up>>
    BY <1>11 DEF UpsertInstalls, Locked
  <2>2. c \in Crons /\ req[p].content \in Contents /\ row[c] # None /\ row[c].content = req[p].content
    BY <1>7, <1>11, <2>1 DEF UpsertInstalls, WrittenInv, TypeInv, RequestInv
  <2>3. CASE row[c].enabled
    <3>1. heap' = [heap EXCEPT ![c] = Installed(c, req[p].content)]
      BY <1>11, <2>3 DEF UpsertInstalls
    <3> QED
      BY <1>9, <2>1, <2>2, <3>1
  <2>4. CASE ~row[c].enabled
    <3>1. heap' = [heap EXCEPT ![c] = None] /\ ~RowOn(c)
      BY <1>11, <2>4 DEF UpsertInstalls, RowOn
    <3> QED
      BY <1>10, <2>1, <2>2, <3>1
  <2> QED
    BY <2>3, <2>4
<1>12. ASSUME NEW p \in Clients, EnableInstalls(p) PROVE Synced'
  <2>1. pc[p] \in Locked /\ Reply(p) /\ UNCHANGED <<row, up>>
    BY <1>12 DEF EnableInstalls, Locked
  <2>2. req[p].seen.content \in Contents
    BY <1>12 DEF EnableInstalls, TypeInv, ControlTypeOK, RequestInv, Request, Row
  <2>3. RowOn(req[p].cron) => row[req[p].cron].content = req[p].seen.content
    BY <1>12 DEF EnableInstalls, WrittenInv, RowOn
  <2> QED
    BY <1>9, <1>12, <2>1, <2>2, <2>3 DEF EnableInstalls
<1>13. ASSUME NEW p \in Clients, RemoveUninstalls(p) PROVE Synced'
  <2>1. pc[p] \in Locked /\ Reply(p) /\ UNCHANGED <<row, up>> /\ ~RowOn(req[p].cron)
    BY <1>13 DEF RemoveUninstalls, Locked, WrittenInv
  <2> QED
    BY <1>7, <1>10, <1>13, <2>1 DEF RemoveUninstalls
<1>14. ASSUME NEW p \in Clients, HeapGone(p) PROVE Synced'
  <2>1. pc[p] \in Locked /\ Reply(p) /\ UNCHANGED <<row, heap, up>> /\ ~up
    BY <1>14 DEF HeapGone, Locked
  <2> QED
    BY <1>7, <1>8, <2>1
\* A request of the serializer writes its row.
<1>15. ASSUME NEW p \in Clients, NEW c \in Crons, pc[p] \in Locked \ {"install", "enabled"},
              req[p].cron = c, NEW place \in {"install", "enabled", "removed"},
              pc' = [pc EXCEPT ![p] = place], UNCHANGED <<heap, up, req>>,
              \A d \in Crons : d # c => row'[d] = row[d],
              place = "install" => row'[c] # None /\ row'[c].content = req[p].content,
              place = "enabled" /\ row'[c] # None => row'[c].content = req[p].seen.content,
              place = "removed" => ~RowOn(c)',
              place = "install" /\ up /\ RowOn(c)' => InHeap(c)'
       PROVE  Synced'
  <2>1. pc'[p] = place /\ \A q \in Clients : q # p => pc'[q] \notin Locked
    BY <1>7, <1>15 DEF TypeInv, ControlTypeOK
  <2>2. WrittenInv'
    BY <1>15, <2>1 DEF WrittenInv, Locked, RowOn
  <2>3. ASSUME up', NEW d \in Crons, RowOn(d)'
        PROVE  InHeap(d)' \/ \E q \in Clients : pc'[q] = "enabled" /\ req'[q].cron = d
    <3>1. CASE d = c
      BY <1>15, <2>1, <2>3, <3>1
    <3>2. CASE d # c
      <4>1. \A q \in Clients : pc[q] = "enabled" => req[q].cron # d
        BY <1>7, <1>15, <3>2 DEF Locked
      <4> QED
        BY <1>15, <2>3, <3>2, <4>1 DEF RowOn, InHeap, InstalledInv
    <3> QED
      BY <3>1, <3>2
  <2> QED
    BY <2>2, <2>3 DEF InstalledInv
<1>16. ASSUME NEW p \in Clients, UpsertWrites(p) PROVE Synced'
  <2> DEFINE c == req[p].cron
             new == [enabled |-> EnabledAfterUpsert(req[p].seen, req[p].content),
                     content |-> req[p].content, failures |-> req[p].stale]
  <2>1. pc[p] \in Locked \ {"install", "enabled"} /\ UNCHANGED <<heap, up, req>>
    BY <1>16 DEF UpsertWrites, Locked
  <2>2. c \in Crons /\ req[p].content \in Contents /\ req[p].stale \in Nat
    BY <1>16 DEF UpsertWrites, TypeInv, ControlTypeOK, RequestInv, Request
  <2>3. new \in Row /\ new.content = req[p].content
    <3>1. EnabledAfterUpsert(req[p].seen, req[p].content) \in BOOLEAN
      BY DEF EnabledAfterUpsert
    <3> QED
      BY <2>2, <3>1 DEF Row
  <2>4. row' = [row EXCEPT ![c] = new] /\ pc' = [pc EXCEPT ![p] = "install"]
    BY <1>16 DEF UpsertWrites, Goto
  <2> HIDE DEF new
  <2>5. row'[c] # None /\ row'[c].content = req[p].content /\ \A d \in Crons : d # c => row'[d] = row[d]
    BY <2>2, <2>3, <2>4, NoRecordAssumption DEF TypeInv, ControlTypeOK
  <2>6. up /\ row'[c].enabled => heap'[c] # None /\ heap'[c].content = row'[c].content
    <3>1. row'[c] = new
      BY <2>2, <2>4 DEF TypeInv, ControlTypeOK
    <3>2. new.enabled => req[p].seen # None /\ req[p].seen.enabled /\ req[p].seen.content = req[p].content
      BY DEF new, EnabledAfterUpsert
    <3>3. up /\ new.enabled => heap[c] # None /\ heap[c].content = req[p].content
      BY <1>16, <3>2 DEF UpsertWrites, WrittenInv
    <3> QED
      BY <2>1, <2>5, <3>1, <3>3
  <2> HIDE DEF c
  <2>7. req[p].cron = c
    BY DEF c
  <2> QED
    BY <1>15, <2>1, <2>2, <2>4, <2>5, <2>6, <2>7 DEF RowOn, InHeap
<1>17. ASSUME NEW p \in Clients, EnableWrites(p) PROVE Synced'
  <2> DEFINE c == req[p].cron
  <2>1. pc[p] \in Locked \ {"install", "enabled"} /\ UNCHANGED <<heap, up, req>>
    BY <1>17 DEF EnableWrites, Locked
  <2>2. c \in Crons /\ (row[c] # None => row[c].content = req[p].seen.content)
    BY <1>7, <1>17, <2>1 DEF EnableWrites, WrittenInv
  <2>3. /\ pc' = [pc EXCEPT ![p] = "enabled"] /\ \A d \in Crons : d # c => row'[d] = row[d]
        /\ row[c] = None => row'[c] = None
        /\ row[c] # None => row'[c].content = row[c].content
    BY <1>17, <2>2 DEF EnableWrites, Goto, TypeInv, ControlTypeOK, Row
  <2> HIDE DEF c
  <2>4. req[p].cron = c
    BY DEF c
  <2> QED
    BY <1>15, <2>1, <2>2, <2>3, <2>4
<1>18. ASSUME NEW p \in Clients, RemoveWrites(p) PROVE Synced'
  <2>1. pc[p] \in Locked \ {"install", "enabled"} /\ UNCHANGED <<heap, up, req>>
    BY <1>18 DEF RemoveWrites, Locked
  <2>2. PICK c \in Crons : c = req[p].cron
    BY <1>7, <2>1
  <2>3. /\ pc' = [pc EXCEPT ![p] = "removed"] /\ \A d \in Crons : d # c => row'[d] = row[d]
        /\ row'[c] = None \/ ~row'[c].enabled
    BY <1>18, <2>2 DEF RemoveWrites, Goto, TypeInv, ControlTypeOK, Row
  <2>4. ~RowOn(c)'
    BY <2>3 DEF RowOn
  <2> QED
    BY <1>15, <2>1, <2>2, <2>3, <2>4
<1>19. ASSUME NEW p \in Clients, EnableConfirms(p) PROVE Synced'
  <2> DEFINE c == req[p].cron
             t == req[p].token
  <2>1. c \in Crons /\ pc[p] = "enable" /\ lock = None /\ UNCHANGED <<row, heap, up>>
    BY <1>19 DEF EnableConfirms, TypeInv, RequestInv
  <2>2. CASE Redeemable(pending[t], c, row[c].content, req[p].at)
    <3>1. /\ pc' = [pc EXCEPT ![p] = "enabling"]
          /\ req' = [req EXCEPT ![p] = [req[p] EXCEPT !.seen = row[c]]]
      BY <1>19, <2>2 DEF EnableConfirms, Goto
    <3>2. [req[p] EXCEPT !.seen = row[c]].cron = c /\ [req[p] EXCEPT !.seen = row[c]].seen = row[c]
      BY DEF TypeInv, ControlTypeOK, Request
    <3>3. /\ pc'[p] = "enabling" /\ \A q \in Clients : q # p => pc'[q] \notin Locked
          /\ \A q \in Clients : pc[q] \notin Locked
      BY <2>1, <3>1 DEF LockInv, TypeInv, ControlTypeOK
    <3>4. req'[p].cron = c /\ req'[p].seen = row[c]
      BY <3>1, <3>2 DEF TypeInv, ControlTypeOK
    <3> HIDE DEF c
    <3>5. WrittenInv'
      BY <2>1, <3>3, <3>4 DEF WrittenInv, Locked
    <3>6. InstalledInv'
      BY <2>1, <3>3 DEF InstalledInv, RowOn, InHeap, Locked
    <3> QED
      BY <3>5, <3>6
  <2>3. CASE ~Redeemable(pending[t], c, row[c].content, req[p].at)
    BY <1>4, <1>19, <2>1, <2>3 DEF EnableConfirms
  <2> QED
    BY <2>2, <2>3
<1>20. ASSUME NEW c \in Crons, WatcherBumps(c) \/ WatcherMirrors(c) \/ WatcherPauses(c)
       PROVE  Synced'
  \* The watcher neither makes nor deletes a row or an entry, leaves their contents
  \* alone and enables nothing.
  <2>1. \A d \in Crons : /\ row'[d] # None <=> row[d] # None
                         /\ row[d] # None => row'[d].content = row[d].content
                         /\ RowOn(d)' => RowOn(d)
    <3>1. CASE WatcherBumps(c)
      <4>1. row[c] \in Row /\ row' = [row EXCEPT ![c] = [row[c] EXCEPT !.failures = @ + 1]]
        BY <3>1 DEF WatcherBumps, TypeInv, ControlTypeOK
      <4>2. PICK new \in Row : /\ new = [row[c] EXCEPT !.failures = @ + 1] /\ new # None
                               /\ new.content = row[c].content /\ new.enabled = row[c].enabled
        <5>1. [row[c] EXCEPT !.failures = @ + 1].enabled = row[c].enabled
          BY <4>1, Zenon DEF Row
        <5>2. [row[c] EXCEPT !.failures = @ + 1].content = row[c].content
          BY <4>1 DEF Row
        <5> QED
          BY <4>1, <5>1, <5>2, RowUpdates, NoRecordAssumption
      <4>3. row'[c] = new /\ row[c] # None /\ \A d \in Crons : d # c => row'[d] = row[d]
        BY <4>1, <4>2, NoRecordAssumption DEF TypeInv, ControlTypeOK
      <4> QED
        BY <4>2, <4>3, Zenon DEF RowOn
    <3>2. CASE WatcherPauses(c)
      <4> DEFINE off == [row[c] EXCEPT !.enabled = FALSE]
      <4>1. row[c] # None => off # None /\ off.content = row[c].content /\ ~off.enabled
        <5>1. row[c] # None => row[c] \in Row
          BY DEF TypeInv, ControlTypeOK
        <5>2. row[c] \in Row => off \in Row
          BY RowUpdates
        <5> QED
          BY <5>1, <5>2, NoRecordAssumption DEF Row
      <4>2. /\ \A d \in Crons : d # c => row'[d] = row[d]
            /\ row'[c] = row[c] \/ (row[c] # None /\ row'[c] = off)
        BY <3>2 DEF WatcherPauses, TypeInv, ControlTypeOK
      <4> HIDE DEF off
      <4> QED
        BY <4>1, <4>2, Zenon DEF RowOn
    <3>3. CASE WatcherMirrors(c)
      BY <3>3 DEF WatcherMirrors, RowOn
    <3> QED
      BY <1>20, <3>1, <3>2, <3>3
  <2>2. \A d \in Crons : heap[d] # None => heap'[d] # None /\ heap'[d].content = heap[d].content
    <3>1. CASE WatcherMirrors(c)
      <4>1. heap[c] # None /\ row[c] # None =>
              [heap[c] EXCEPT !.mirror = row[c].failures] \in [content : Contents, mirror : Nat]
        BY DEF TypeInv, ControlTypeOK, Row
      <4> QED
        BY <3>1, <4>1, NoRecordAssumption DEF WatcherMirrors, TypeInv, ControlTypeOK
    <3> QED
      BY <1>20, <3>1 DEF WatcherBumps, WatcherPauses
  <2>3. UNCHANGED <<pc, req, up>>
    BY <1>20 DEF WatcherBumps, WatcherMirrors, WatcherPauses
  <2>4. WrittenInv'
    <3> SUFFICES ASSUME NEW p \in Clients, pc[p] \in Locked
                 PROVE  /\ pc[p] = "write" /\ up /\ req[p].seen # None /\ req[p].seen.enabled =>
                             heap'[req[p].cron] # None
                             /\ heap'[req[p].cron].content = req[p].seen.content
                        /\ pc[p] = "install" => row'[req[p].cron] # None
                                                /\ row'[req[p].cron].content = req[p].content
                        /\ pc[p] \in {"enabling", "enabled"} /\ row'[req[p].cron] # None
                             => row'[req[p].cron].content = req[p].seen.content
                        /\ pc[p] = "removed" => ~(row'[req[p].cron] # None /\ row'[req[p].cron].enabled)
      BY <2>3 DEF WrittenInv, RowOn, Locked
    <3> QED
      BY <1>7, <2>1, <2>2 DEF WrittenInv, RowOn
  <2>5. InstalledInv'
    BY <2>1, <2>2, <2>3 DEF InstalledInv, InHeap, RowOn
  <2> QED
    BY <2>4, <2>5
<1>21. CASE ControlTick \/ LoopStops \/ UNCHANGED controlVars
  BY <1>21 DEF ControlTick, LoopStops, controlVars, WrittenInv, InstalledInv, InHeap, RowOn
<1> QED
  BY <1>2, <1>3, <1>5, <1>6, <1>11, <1>12, <1>13, <1>14, <1>16, <1>17, <1>18, <1>19, <1>20, <1>21
  DEF ControlNext, Control

\* cron_control.rs: while the scheduling loop lives and no request is between its
\* write to the table and its command to the loop, an enabled cron is scheduled
\* with the content of its row.
THEOREM EnabledCronsAreInstalled == ControlSpec => []EnabledIsInstalled
<1>1. ControlInit => Synced
  BY DEF ControlInit, Synced, WrittenInv, InstalledInv, RowOn
<1>2. Inv /\ Synced => EnabledIsInstalled
  BY ControlAssumption DEF Inv, Synced, InstalledInv, LockInv, Locked, InHeap, RowOn, EnabledIsInstalled
<1> QED
  BY Invariance, SyncStep, <1>1, <1>2, PTL DEF ControlSpec

-----------------------------------------------------------------------------
(* Reviewing a worktree: DiffReview *)

IsTree(t) == t = [p \in Spots |-> t[p]]

IsView(v) == v = [hunks |-> v.hunks, dialog |-> v.dialog]

IsJob(r) == r = [at |-> r.at, kind |-> r.kind, ids |-> r.ids, files |-> r.files, sel |-> r.sel,
                 applied |-> r.applied, rejected |-> r.rejected]

ReviewTypes ==
  /\ IsTree(index) /\ IsTree(work)
  /\ view = [c \in Reviewers |-> view[c]] /\ \A c \in Reviewers : IsView(view[c])
  /\ job = [c \in Reviewers |-> job[c]] /\ \A c \in Reviewers : IsJob(job[c])

\* The id of a hunk says which place it changes from what to what.
Shaped(h) == h.id[1] = h.p /\ h.id[2] = h.old /\ h.id[3] = h.new

\* What a view shows and a mutation asks for is about one file.
OneFile(hunks) ==
  /\ \A h \in hunks : Shaped(h)
  /\ \A h, g \in hunks : FileOf[h.p] = FileOf[g.p]

ViewInv == \A c \in Reviewers : OneFile(view[c].hunks) /\ OneFile(view[c].dialog.ids)

\* The file asked for is not among those still to be read.
FileIsDone(r) == \A h \in r.ids : FileOf[h.p] \notin r.files

\* git would take the hunks selected.
Fits(r) ==
  \A h \in r.sel : (IF r.kind = "discard" THEN work ELSE index)[h.p] = IF r.kind # "stage" THEN h.new ELSE h.old

\* A mutation in hand holds the lock, counts each id once, and selects from one file only.
JobOk(c, r) ==
  /\ OneFile(r.ids) /\ r.files \subseteq Nat
  /\ r.applied \subseteq IdsOf(r.ids) /\ r.rejected \subseteq IdsOf(r.ids) /\ r.applied \cap r.rejected = {}
  /\ r.at \in {"read", "apply", "remove"} => treeLock = c
  /\ r.at # "idle" => r.kind \in MutationKinds
  /\ r.at = "wait" => r.applied = {} /\ r.rejected = {}
  /\ r.at = "read" => (r.applied = {} /\ r.rejected = {}) \/ FileIsDone(r)
  /\ r.at \in {"apply", "remove"} =>
       /\ r.applied = {} /\ r.rejected = {} /\ FileIsDone(r)
       /\ IdsOf(r.sel) \subseteq IdsOf(r.ids) /\ \A h \in r.sel : Shaped(h) /\ h.p \in Spots
  /\ r.at = "remove" => r.kind = "discard"
  /\ r.at \in {"apply", "remove"} /\ ~meddled => Fits(r)
  /\ r.at = "answered" => r.applied \cup r.rejected = IdsOf(r.ids)

ReviewInv == ReviewTypes /\ ViewInv /\ \A c \in Reviewers : JobOk(c, job[c])

\* What setting one field of a view makes of it.
LEMMA ViewWith ==
  ASSUME NEW v, IsView(v), NEW x
  PROVE  /\ [v EXCEPT !.hunks = x] = [hunks |-> x, dialog |-> v.dialog]
         /\ [v EXCEPT !.dialog = x] = [hunks |-> v.hunks, dialog |-> x]
<1>1. PICK h, g : v = [hunks |-> h, dialog |-> g]
  BY DEF IsView
<1> QED
  BY <1>1

\* A mutation's record once the lock is taken.
LEMMA JobReads ==
  ASSUME NEW r, IsJob(r), NEW x, NEW y
  PROVE  [[r EXCEPT !.at = x] EXCEPT !.files = y]
       = [at |-> x, kind |-> r.kind, ids |-> r.ids, files |-> y, sel |-> r.sel, applied |-> r.applied, rejected |-> r.rejected]
<1>1. PICK t, k, i, f, s, a, b : r = [at |-> t, kind |-> k, ids |-> i, files |-> f, sel |-> s, applied |-> a, rejected |-> b]
  BY DEF IsJob
<1>2. r.at = t /\ r.kind = k /\ r.ids = i /\ r.files = f /\ r.sel = s /\ r.applied = a /\ r.rejected = b
  BY <1>1
<1>3. [r EXCEPT !.at = x]
      = [at |-> x, kind |-> k, ids |-> i, files |-> f, sel |-> s, applied |-> a, rejected |-> b]
  BY <1>1
<1>4. [[at |-> x, kind |-> k, ids |-> i, files |-> f, sel |-> s, applied |-> a, rejected |-> b] EXCEPT !.files = y]
      = [at |-> x, kind |-> k, ids |-> i, files |-> y, sel |-> s, applied |-> a, rejected |-> b]
  OBVIOUS
<1> QED
  BY <1>2, <1>3, <1>4

\* A mutation's record once hunks are applied.
LEMMA JobApplies ==
  ASSUME NEW r, IsJob(r), NEW x, NEW y, NEW z
  PROVE  [[[r EXCEPT !.at = x] EXCEPT !.applied = y] EXCEPT !.sel = z]
       = [at |-> x, kind |-> r.kind, ids |-> r.ids, files |-> r.files, sel |-> z, applied |-> y, rejected |-> r.rejected]
<1>1. PICK t, k, i, f, s, a, b : r = [at |-> t, kind |-> k, ids |-> i, files |-> f, sel |-> s, applied |-> a, rejected |-> b]
  BY DEF IsJob
<1>2. r.at = t /\ r.kind = k /\ r.ids = i /\ r.files = f /\ r.sel = s /\ r.applied = a /\ r.rejected = b
  BY <1>1
<1>3. [r EXCEPT !.at = x]
      = [at |-> x, kind |-> k, ids |-> i, files |-> f, sel |-> s, applied |-> a, rejected |-> b]
  BY <1>1
<1>4. [[at |-> x, kind |-> k, ids |-> i, files |-> f, sel |-> s, applied |-> a, rejected |-> b] EXCEPT !.applied = y]
      = [at |-> x, kind |-> k, ids |-> i, files |-> f, sel |-> s, applied |-> y, rejected |-> b]
  OBVIOUS
<1>5. [[at |-> x, kind |-> k, ids |-> i, files |-> f, sel |-> s, applied |-> y, rejected |-> b] EXCEPT !.sel = z]
      = [at |-> x, kind |-> k, ids |-> i, files |-> f, sel |-> z, applied |-> y, rejected |-> b]
  OBVIOUS
<1> QED
  BY <1>2, <1>3, <1>4, <1>5

\* A mutation's record once hunks are refused.
LEMMA JobRejects ==
  ASSUME NEW r, IsJob(r), NEW x, NEW y, NEW z
  PROVE  [[[r EXCEPT !.at = x] EXCEPT !.rejected = y] EXCEPT !.sel = z]
       = [at |-> x, kind |-> r.kind, ids |-> r.ids, files |-> r.files, sel |-> z, applied |-> r.applied, rejected |-> y]
<1>1. PICK t, k, i, f, s, a, b : r = [at |-> t, kind |-> k, ids |-> i, files |-> f, sel |-> s, applied |-> a, rejected |-> b]
  BY DEF IsJob
<1>2. r.at = t /\ r.kind = k /\ r.ids = i /\ r.files = f /\ r.sel = s /\ r.applied = a /\ r.rejected = b
  BY <1>1
<1>3. [r EXCEPT !.at = x]
      = [at |-> x, kind |-> k, ids |-> i, files |-> f, sel |-> s, applied |-> a, rejected |-> b]
  BY <1>1
<1>4. [[at |-> x, kind |-> k, ids |-> i, files |-> f, sel |-> s, applied |-> a, rejected |-> b] EXCEPT !.rejected = y]
      = [at |-> x, kind |-> k, ids |-> i, files |-> f, sel |-> s, applied |-> a, rejected |-> y]
  OBVIOUS
<1>5. [[at |-> x, kind |-> k, ids |-> i, files |-> f, sel |-> s, applied |-> a, rejected |-> y] EXCEPT !.sel = z]
      = [at |-> x, kind |-> k, ids |-> i, files |-> f, sel |-> z, applied |-> a, rejected |-> y]
  OBVIOUS
<1> QED
  BY <1>2, <1>3, <1>4, <1>5

\* A mutation's record once the answer is given.
LEMMA JobAnswers ==
  ASSUME NEW r, IsJob(r), NEW x, NEW y
  PROVE  [[r EXCEPT !.at = x] EXCEPT !.rejected = y]
       = [at |-> x, kind |-> r.kind, ids |-> r.ids, files |-> r.files, sel |-> r.sel, applied |-> r.applied, rejected |-> y]
<1>1. PICK t, k, i, f, s, a, b : r = [at |-> t, kind |-> k, ids |-> i, files |-> f, sel |-> s, applied |-> a, rejected |-> b]
  BY DEF IsJob
<1>2. r.at = t /\ r.kind = k /\ r.ids = i /\ r.files = f /\ r.sel = s /\ r.applied = a /\ r.rejected = b
  BY <1>1
<1>3. [r EXCEPT !.at = x]
      = [at |-> x, kind |-> k, ids |-> i, files |-> f, sel |-> s, applied |-> a, rejected |-> b]
  BY <1>1
<1>4. [[at |-> x, kind |-> k, ids |-> i, files |-> f, sel |-> s, applied |-> a, rejected |-> b] EXCEPT !.rejected = y]
      = [at |-> x, kind |-> k, ids |-> i, files |-> f, sel |-> s, applied |-> a, rejected |-> y]
  OBVIOUS
<1> QED
  BY <1>2, <1>3, <1>4

\* What a diff shows of a file.
LEMMA HunksAreShaped ==
  ASSUME NEW f, NEW old, NEW new
  PROVE  /\ OneFile(HunksFrom(f, old, new))
         /\ \A h \in HunksFrom(f, old, new) :
              /\ Shaped(h) /\ h.p \in Spots /\ FileOf[h.p] = f /\ h.old = old[h.p] /\ h.new = new[h.p]
<1> DEFINE H(p) == [p |-> p, old |-> old[p], new |-> new[p], id |-> HunkId(p, old, new)]
<1>1. \A h \in HunksFrom(f, old, new) : \E p \in {q \in Spots : FileOf[q] = f /\ old[q] # new[q]} : h = H(p)
  BY DEF HunksFrom
<1>2. ASSUME NEW p PROVE HunkId(p, old, new)[1] = p /\ HunkId(p, old, new)[2] = old[p] /\ HunkId(p, old, new)[3] = new[p]
  BY DEF HunkId
<1>3. ASSUME NEW h \in HunksFrom(f, old, new)
      PROVE  Shaped(h) /\ h.p \in Spots /\ FileOf[h.p] = f /\ h.old = old[h.p] /\ h.new = new[h.p]
  <2>1. PICK p \in Spots : FileOf[p] = f /\ h = H(p)
    BY <1>1
  <2>2. HunkId(p, old, new)[1] = p /\ HunkId(p, old, new)[2] = old[p] /\ HunkId(p, old, new)[3] = new[p]
    BY <1>2
  <2>3. h.p = p /\ h.old = old[p] /\ h.new = new[p] /\ h.id = HunkId(p, old, new)
    BY <2>1
  <2> QED
    BY <2>1, <2>2, <2>3 DEF Shaped
<1> QED
  BY <1>3 DEF OneFile

\* What a mutation reads of a file: hunks of it that git would take as long as nobody
\* touches the trees.
LEMMA DiffIsShaped ==
  ASSUME NEW kind \in MutationKinds, NEW f, NEW known
  PROVE  \A h \in DiffFor(kind, f, known) :
           /\ Shaped(h) /\ h.p \in Spots /\ FileOf[h.p] = f
           /\ (IF kind = "discard" THEN work ELSE index)[h.p] = IF kind # "stage" THEN h.new ELSE h.old
<1> SUFFICES ASSUME NEW h \in DiffFor(kind, f, known)
             PROVE  /\ Shaped(h) /\ h.p \in Spots /\ FileOf[h.p] = f
                    /\ (IF kind = "discard" THEN work ELSE index)[h.p] = IF kind # "stage" THEN h.new ELSE h.old
  OBVIOUS
<1>1. CASE kind = "discard" /\ f \in unknown
  <2>1. PICK old : old = [p \in Spots |-> 0]
    OBVIOUS
  <2>2. h \in HunksFrom(f, old, work)
    BY <1>1, <2>1 DEF DiffFor, Synthetic
  <2> QED
    BY <1>1, <2>2, HunksAreShaped
<1>2. CASE ~(kind = "discard" /\ f \in unknown)
  <2>1. h \in Hunks(f, kind = "unstage")
    BY <1>2 DEF DiffFor
  <2>2. CASE kind = "unstage"
    <3>1. h \in HunksFrom(f, head, index)
      BY <2>1, <2>2 DEF Hunks, Sides
    <3> QED
      BY <2>2, <3>1, HunksAreShaped
  <2>3. CASE kind # "unstage"
    <3>1. h \in HunksFrom(f, index, work)
      BY <2>1, <2>3 DEF Hunks, Sides
    <3>2. CASE kind = "discard"
      BY <3>1, <3>2, HunksAreShaped
    <3>3. CASE kind = "stage"
      BY <3>1, <3>3, HunksAreShaped
    <3> QED
      BY <2>3, <3>2, <3>3 DEF MutationKinds
  <2> QED
    BY <2>2, <2>3
<1> QED
  BY <1>1, <1>2

\* A file of the list is the least of it.
LEMMA NextFileIs ==
  ASSUME NEW F \in SUBSET Nat, F # {}
  PROVE  (CHOOSE f \in F : \A g \in F : f <= g) \in F
<1>1. \E f \in F : \A g \in F : f <= g
  <2>1. PICK R : R = OpToRel(<, Nat)
    OBVIOUS
  <2>2. IsWellFoundedOn(R, Nat)
    BY <2>1, NatLessThanWellFounded
  <2>3. PICK m \in F : \A y \in F : <<y, m>> \notin R
    BY <2>2, WFMin
  <2>4. \A x, y \in Nat : y < x => <<y, x>> \in R
    BY <2>1 DEF OpToRel
  <2>5. \A n \in F : m \in Nat /\ n \in Nat /\ ~(n < m)
    BY <2>3, <2>4
  <2> QED
    BY <2>5
<1> QED
  BY <1>1

\* A mutation that is not at work is not disturbed.
LEMMA JobStays ==
  ASSUME NEW c \in Reviewers, JobOk(c, job[c]), job'[c] = job[c],
         job[c].at \in {"read", "apply", "remove"} => treeLock' = c,
         job[c].at \in {"apply", "remove"} /\ ~meddled' => ~meddled /\ index' = index /\ work' = work
  PROVE  JobOk(c, job[c])'
<1> DEFINE r == job[c]
<1>1. r.at \in {"apply", "remove"} /\ ~meddled' => Fits(r)'
  <2> SUFFICES ASSUME r.at \in {"apply", "remove"}, ~meddled' PROVE Fits(r)'
    OBVIOUS
  <2>1. Fits(r)
    BY DEF JobOk
  <2> QED
    BY <2>1 DEF Fits
<1> QED
  BY <1>1 DEF JobOk, FileIsDone, OneFile, Shaped, IdsOf

\* A view that loads what is there, and the requests it makes.
LEMMA ViewSteps ==
  ASSUME ReviewInv, NEW c \in Reviewers,
         (\E f \in Files : LoadDiff(c, f)) \/ OpenDiscard(c) \/ CancelDiscard(c) \/ ConfirmDiscard(c) \/ SendHunk(c)
  PROVE  ReviewInv'
<1> USE DEF ReviewInv
\* Only the view changes.
<1>v. ASSUME UNCHANGED <<trees, job, treeLock, meddled>>,
             NEW w, IsView(w), OneFile(w.hunks), OneFile(w.dialog.ids), view' = [view EXCEPT ![c] = w]
      PROVE  ReviewInv'
  <2>1. \A d \in Reviewers : view'[d] = IF d = c THEN w ELSE view[d]
    BY <1>v DEF ReviewTypes
  <2>2. ReviewTypes'
    <3>1. view' = [d \in Reviewers |-> view'[d]]
      BY <1>v DEF ReviewTypes
    <3>2. \A d \in Reviewers : IsView(view'[d])
      BY <1>v, <2>1 DEF ReviewTypes
    <3> QED
      BY <1>v, <3>1, <3>2 DEF ReviewTypes, IsView, IsTree, IsJob, trees
  <2>3. ViewInv'
    BY <1>v, <2>1 DEF ViewInv, OneFile, Shaped
  <2>4. \A d \in Reviewers : JobOk(d, job[d])'
    BY <1>v, JobStays DEF trees, JobOk
  <2> QED
    BY <2>2, <2>3, <2>4
<1>0. IsView(view[c]) /\ OneFile(view[c].hunks) /\ OneFile(view[c].dialog.ids) /\ OneFile({})
  BY DEF ReviewTypes, ViewInv, OneFile
<1>1. ASSUME NEW f \in Files, LoadDiff(c, f) PROVE ReviewInv'
  <2>1. PICK staged \in BOOLEAN : view' = [view EXCEPT ![c].hunks = Hunks(f, staged)]
    BY <1>1 DEF LoadDiff
  <2> DEFINE w == [hunks |-> Hunks(f, staged), dialog |-> view[c].dialog]
  <2>2. view' = [view EXCEPT ![c] = w]
    <3>1. [view[c] EXCEPT !.hunks = Hunks(f, staged)] = w
      BY <1>0, ViewWith
    <3> QED
      BY <2>1, <3>1
  <2>3. OneFile(w.hunks) /\ OneFile(w.dialog.ids) /\ IsView(w)
    BY <1>0, HunksAreShaped DEF IsView, Hunks
  <2> QED
    BY <1>v, <1>1, <2>2, <2>3 DEF LoadDiff
<1>d. ASSUME UNCHANGED <<trees, job, treeLock, meddled>>, NEW g, OneFile(g.ids), view' = [view EXCEPT ![c].dialog = g]
      PROVE  ReviewInv'
  <2> DEFINE w == [hunks |-> view[c].hunks, dialog |-> g]
  <2>2. view' = [view EXCEPT ![c] = w]
    <3>1. [view[c] EXCEPT !.dialog = g] = w
      BY <1>0, ViewWith
    <3> QED
      BY <1>d, <3>1
  <2>3. OneFile(w.hunks) /\ OneFile(w.dialog.ids) /\ IsView(w)
    BY <1>0, <1>d DEF IsView
  <2> QED
    BY <1>v, <1>d, <2>2, <2>3
<1>h. \A h \in view[c].hunks : OneFile({h})
  BY <1>0 DEF OneFile
<1>2. ASSUME OpenDiscard(c) PROVE ReviewInv'
  <2>0. UNCHANGED <<trees, job, treeLock, meddled>>
    BY <1>2 DEF OpenDiscard
  <2>1. CASE view' = [view EXCEPT ![c].dialog = [scope |-> "file", ids |-> {}]]
    <3>1. PICK g : g = [scope |-> "file", ids |-> {}]
      OBVIOUS
    <3>2. OneFile(g.ids)
      BY <1>0, <3>1
    <3>3. view' = [view EXCEPT ![c].dialog = g]
      BY <2>1, <3>1
    <3> QED
      BY <1>d, <2>0, <3>2, <3>3
  <2>2. ASSUME NEW h \in view[c].hunks, view' = [view EXCEPT ![c].dialog = [scope |-> "hunk", ids |-> {h}]]
        PROVE  ReviewInv'
    <3>1. PICK g : g = [scope |-> "hunk", ids |-> {h}]
      OBVIOUS
    <3>2. OneFile(g.ids)
      BY <1>h, <3>1
    <3>3. view' = [view EXCEPT ![c].dialog = g]
      BY <2>2, <3>1
    <3> QED
      BY <1>d, <2>0, <3>2, <3>3
  <2> QED
    BY <1>2, <2>1, <2>2 DEF OpenDiscard
<1>3. ASSUME CancelDiscard(c) PROVE ReviewInv'
  <2>1. PICK g : g = NoDiscard
    OBVIOUS
  <2>2. OneFile(g.ids)
    BY <1>0, <2>1 DEF NoDiscard
  <2> QED
    BY <1>d, <1>3, <2>1, <2>2 DEF CancelDiscard
\* A request.
<1>a. ASSUME NEW kind \in MutationKinds, NEW ids, Ask(c, kind, ids), OneFile(ids), UNCHANGED <<trees, treeLock, meddled>>,
             view' = view \/ view' = [view EXCEPT ![c].dialog = NoDiscard]
      PROVE  ReviewInv'
  <2> DEFINE r == [NoJob EXCEPT !.at = "wait", !.kind = kind, !.ids = ids]
  <2>1. job' = [job EXCEPT ![c] = r]
    BY <1>a DEF Ask
  <2>2. r = [at |-> "wait", kind |-> kind, ids |-> ids, files |-> {}, sel |-> {}, applied |-> {}, rejected |-> {}]
    <3>1. IsJob(NoJob)
      BY DEF NoJob, IsJob
    <3>2. r = [[[NoJob EXCEPT !.at = "wait"] EXCEPT !.kind = kind] EXCEPT !.ids = ids]
      OBVIOUS
    <3>3. r = [at |-> "wait", kind |-> kind, ids |-> ids, files |-> NoJob.files, sel |-> NoJob.sel,
               applied |-> NoJob.applied, rejected |-> NoJob.rejected]
      <4>1. PICK n : n = NoJob
        OBVIOUS
      <4>2. IsJob(n)
        BY <3>1, <4>1
      <4>3. [[[n EXCEPT !.at = "wait"] EXCEPT !.kind = kind] EXCEPT !.ids = ids]
            = [at |-> "wait", kind |-> kind, ids |-> ids, files |-> n.files, sel |-> n.sel,
               applied |-> n.applied, rejected |-> n.rejected]
          <5>1. PICK u, k, i, g, s, a, b : n = [at |-> u, kind |-> k, ids |-> i, files |-> g, sel |-> s, applied |-> a, rejected |-> b]
            BY <4>2 DEF IsJob
          <5>2. n.at = u /\ n.kind = k /\ n.ids = i /\ n.files = g /\ n.sel = s /\ n.applied = a /\ n.rejected = b
            BY <5>1
          <5>3. [n EXCEPT !.at = "wait"]
                = [at |-> "wait", kind |-> k, ids |-> i, files |-> g, sel |-> s, applied |-> a, rejected |-> b]
            BY <5>1
          <5>4. [[at |-> "wait", kind |-> k, ids |-> i, files |-> g, sel |-> s, applied |-> a, rejected |-> b] EXCEPT !.kind = kind]
                = [at |-> "wait", kind |-> kind, ids |-> i, files |-> g, sel |-> s, applied |-> a, rejected |-> b]
            OBVIOUS
          <5>5. [[at |-> "wait", kind |-> kind, ids |-> i, files |-> g, sel |-> s, applied |-> a, rejected |-> b] EXCEPT !.ids = ids]
                = [at |-> "wait", kind |-> kind, ids |-> ids, files |-> g, sel |-> s, applied |-> a, rejected |-> b]
            OBVIOUS
          <5> QED
            BY <5>2, <5>3, <5>4, <5>5
      <4> HIDE DEF r
      <4> QED
        BY <3>2, <4>1, <4>3
    <3>4. NoJob.files = {} /\ NoJob.sel = {} /\ NoJob.applied = {} /\ NoJob.rejected = {}
      BY DEF NoJob
    <3> HIDE DEF r
    <3> QED
      BY <3>3, <3>4
  <2> HIDE DEF r
  <2>3. job'[c] = r /\ (\A d \in Reviewers : d # c => job'[d] = job[d]) /\ job' = [d \in Reviewers |-> job'[d]]
    BY <2>1 DEF ReviewTypes
  <2>4. IsJob(r)
    BY <2>2 DEF IsJob
  <2>5. IsView(view'[c]) /\ view'[c].hunks = view[c].hunks /\ view'[c].dialog \in {view[c].dialog, NoDiscard}
        /\ (\A d \in Reviewers : d # c => view'[d] = view[d]) /\ view' = [d \in Reviewers |-> view'[d]]
    BY <1>a, <1>0 DEF ReviewTypes, IsView
  <2>6. \A d \in Reviewers : IsView(view'[d]) /\ OneFile(view'[d].hunks) /\ OneFile(view'[d].dialog.ids)
    <3>1. OneFile(NoDiscard.ids)
      BY <1>0 DEF NoDiscard
    <3> QED
      BY <1>0, <2>5, <3>1 DEF ReviewTypes, ViewInv
  <2>7. \A d \in Reviewers : IsJob(job'[d])
    BY <2>3, <2>4 DEF ReviewTypes
  <2>8. ReviewTypes' /\ ViewInv'
    BY <1>a, <2>3, <2>5, <2>6, <2>7 DEF ReviewTypes, ViewInv, IsTree, IsView, IsJob, OneFile, Shaped, trees
  <2>9. JobOk(c, job[c])'
    BY <1>a, <2>2, <2>3 DEF JobOk, IdsOf, OneFile, Shaped
  <2>10. ASSUME NEW d \in Reviewers, d # c PROVE JobOk(d, job[d])'
    BY <1>a, <2>3, <2>10, JobStays DEF trees, JobOk
  <2> QED
    BY <2>8, <2>9, <2>10
<1>4. ASSUME ConfirmDiscard(c) PROVE ReviewInv'
  BY <1>a, <1>0, <1>4 DEF ConfirmDiscard, MutationKinds
<1>5. ASSUME SendHunk(c) PROVE ReviewInv'
  BY <1>a, <1>h, <1>5 DEF SendHunk, MutationKinds
<1> QED
  BY <1>1, <1>2, <1>3, <1>4, <1>5

\* A step in which one mutation moves, at work under the lock or away from it.
LEMMA JobMoves ==
  ASSUME ReviewInv, NEW c \in Reviewers, NEW r, IsJob(r), job' = [job EXCEPT ![c] = r], view' = view,
         IsTree(index)', IsTree(work)', JobOk(c, r)',
         treeLock \in {0, c} \/ UNCHANGED <<treeLock, meddled, index, work>>
  PROVE  ReviewInv'
<1> USE DEF ReviewInv
<1>1. job'[c] = r /\ (\A d \in Reviewers : d # c => job'[d] = job[d]) /\ job' = [d \in Reviewers |-> job'[d]]
  BY DEF ReviewTypes
<1>2. ReviewTypes'
  <2>1. \A d \in Reviewers : IsJob(job'[d])
    BY <1>1 DEF ReviewTypes
  <2> QED
    BY <1>1, <2>1 DEF ReviewTypes, IsView, IsJob
<1>3. ViewInv'
  BY DEF ViewInv, OneFile, Shaped
<1>4. JobOk(c, job[c])'
  BY <1>1
<1>5. ASSUME NEW d \in Reviewers, d # c PROVE JobOk(d, job[d])'
  <2>1. CASE treeLock \in {0, c}
    <3>1. job[d].at \notin {"read", "apply", "remove"}
      BY <1>5, <2>1, ReviewAssumption DEF JobOk
    <3> QED
      BY <1>1, <1>5, <3>1, JobStays
  <2>2. CASE UNCHANGED <<treeLock, meddled, index, work>>
    <3>1. job[d].at \in {"read", "apply", "remove"} => treeLock' = d
      BY <2>2 DEF JobOk
    <3> QED
      BY <1>1, <1>5, <2>2, <3>1, JobStays
  <2> QED
    BY <2>1, <2>2
<1> QED
  BY <1>2, <1>3, <1>4, <1>5

\* The lock is taken, and what status lists is to be read.
LEMMA TakeLockStep ==
  ASSUME ReviewInv, NEW c \in Reviewers, TakeLock(c)
  PROVE  ReviewInv'
<1> USE DEF ReviewInv
<1> DEFINE j == job[c]
           F == IF j.ids = {} THEN {} ELSE Changed
<1>1. PICK r : r = [at |-> "read", kind |-> j.kind, ids |-> j.ids, files |-> F, sel |-> j.sel,
                    applied |-> j.applied, rejected |-> j.rejected]
  OBVIOUS
<1>2. IsJob(j) /\ JobOk(c, j) /\ j.at = "wait" /\ treeLock = 0 /\ treeLock' = c
      /\ UNCHANGED <<trees, view, meddled>>
  BY DEF ReviewTypes, TakeLock
<1>3. job' = [job EXCEPT ![c] = r]
  <2>1. job' = [job EXCEPT ![c].at = "read", ![c].files = F]
    BY DEF TakeLock
  <2> HIDE DEF F
  <2>2. [[j EXCEPT !.at = "read"] EXCEPT !.files = F] = r
    <3> HIDE DEF j
    <3> QED
      BY <1>1, <1>2, JobReads
  <2>3. job' = [job EXCEPT ![c] = [[job[c] EXCEPT !.at = "read"] EXCEPT !.files = F]]
    BY <2>1 DEF ReviewTypes
  <2> QED
    BY <2>2, <2>3
<1>4. F \subseteq Nat
  BY ReviewAssumption DEF Changed, Files
<1> HIDE DEF F
<1>5. /\ r.at = "read" /\ r.kind = j.kind /\ r.ids = j.ids /\ r.files = F /\ r.sel = j.sel
      /\ r.applied = j.applied /\ r.rejected = j.rejected /\ IsJob(r)
  BY <1>1 DEF IsJob
<1> HIDE DEF j
<1>6. JobOk(c, r)'
  BY <1>2, <1>4, <1>5 DEF JobOk, OneFile, Shaped, IdsOf
<1> QED
  BY <1>2, <1>3, <1>5, <1>6, JobMoves DEF ReviewTypes, IsTree, trees

\* The next file's diff is read again; hunks of another file have other ids.
LEMMA ReadDiffStep ==
  ASSUME ReviewInv, NEW c \in Reviewers, ReadDiff(c)
  PROVE  ReviewInv'
<1> USE DEF ReviewInv
<1>1. PICK j : j = job[c]
  OBVIOUS
<1>2. /\ IsJob(j) /\ JobOk(c, j) /\ j.at = "read" /\ j.files # {} /\ treeLock = c /\ treeLock' = treeLock
      /\ meddled' = FALSE /\ UNCHANGED <<head, index, work, view>>
  BY <1>1 DEF ReviewTypes, ReadDiff, JobOk
<1>3. PICK f : f = CHOOSE e \in j.files : \A g \in j.files : e <= g
  OBVIOUS
<1>4. j.kind \in MutationKinds
  BY <1>2 DEF JobOk
<1>5. PICK H : H = DiffFor(j.kind, f, tracked')
  OBVIOUS
<1>6. PICK sel : sel = {h \in H : h.id \in IdsOf(j.ids)}
  OBVIOUS
<1>7. PICK at : at = IF sel = {} THEN "read" ELSE IF j.kind = "discard" /\ f \in unknown THEN "remove" ELSE "apply"
  OBVIOUS
<1>8. PICK F : F = j.files \ {f}
  OBVIOUS
<1>9. PICK r : r = [at |-> at, kind |-> j.kind, ids |-> j.ids, files |-> F, sel |-> sel,
                    applied |-> j.applied, rejected |-> j.rejected]
  OBVIOUS
<1>10. f \in j.files
  BY <1>2, <1>3, NextFileIs DEF JobOk
<1>11. job' = [job EXCEPT ![c] = r]
  <2>1. job' = [job EXCEPT ![c].sel = sel, ![c].files = F, ![c].at = at]
    <3>1. job' = [job EXCEPT ![c].sel = sel, ![c].files = @ \ {f}, ![c].at = at]
      BY <1>1, <1>3, <1>5, <1>6, <1>7 DEF ReadDiff
    <3> QED
      BY <1>1, <1>8, <3>1 DEF ReviewTypes
  <2>2. [[[j EXCEPT !.sel = sel] EXCEPT !.files = F] EXCEPT !.at = at] = r
    <3>1. PICK u, k, i, g, s, a, b : j = [at |-> u, kind |-> k, ids |-> i, files |-> g, sel |-> s, applied |-> a, rejected |-> b]
      BY <1>2 DEF IsJob
    <3>2. j.at = u /\ j.kind = k /\ j.ids = i /\ j.files = g /\ j.sel = s /\ j.applied = a /\ j.rejected = b
      BY <3>1
    <3>3. [j EXCEPT !.sel = sel]
          = [at |-> u, kind |-> k, ids |-> i, files |-> g, sel |-> sel, applied |-> a, rejected |-> b]
      BY <3>1
    <3>4. [[at |-> u, kind |-> k, ids |-> i, files |-> g, sel |-> sel, applied |-> a, rejected |-> b] EXCEPT !.files = F]
          = [at |-> u, kind |-> k, ids |-> i, files |-> F, sel |-> sel, applied |-> a, rejected |-> b]
      OBVIOUS
    <3>5. [[at |-> u, kind |-> k, ids |-> i, files |-> F, sel |-> sel, applied |-> a, rejected |-> b] EXCEPT !.at = at]
          = [at |-> at, kind |-> k, ids |-> i, files |-> F, sel |-> sel, applied |-> a, rejected |-> b]
      OBVIOUS
    <3> QED
      BY <1>9, <3>2, <3>3, <3>4, <3>5
  <2>3. job' = [job EXCEPT ![c] = [[[job[c] EXCEPT !.sel = sel] EXCEPT !.files = F] EXCEPT !.at = at]]
    BY <2>1 DEF ReviewTypes
  <2> QED
    BY <1>1, <2>2, <2>3
<1>12. /\ r.at = at /\ r.kind = j.kind /\ r.ids = j.ids /\ r.files = F /\ r.sel = sel
       /\ r.applied = j.applied /\ r.rejected = j.rejected /\ IsJob(r)
  BY <1>9 DEF IsJob
<1>13. \A h \in H : /\ Shaped(h) /\ h.p \in Spots /\ FileOf[h.p] = f
                     /\ (IF j.kind = "discard" THEN work ELSE index)[h.p] = IF j.kind # "stage" THEN h.new ELSE h.old
  BY <1>4, <1>5, DiffIsShaped
<1>14. ASSUME sel # {} PROVE j.applied = {} /\ j.rejected = {} /\ \A g \in j.ids : FileOf[g.p] = f
  <2>1. PICK h \in H : h.id \in IdsOf(j.ids)
    BY <1>6, <1>14
  <2>2. PICK g \in j.ids : g.id = h.id
    BY <2>1 DEF IdsOf
  <2>3. g.p = h.p
    BY <1>2, <1>13, <2>1, <2>2 DEF JobOk, OneFile, Shaped
  <2>4. FileOf[g.p] = f
    BY <1>13, <2>1, <2>3
  <2>5. \A e \in j.ids : FileOf[e.p] = f
    BY <1>2, <2>2, <2>4 DEF JobOk, OneFile
  <2> QED
    BY <1>2, <1>10, <2>2, <2>4, <2>5 DEF JobOk, FileIsDone
<1>15. at = "read" \/ (sel # {} /\ at \in {"apply", "remove"} /\ (at = "remove" => j.kind = "discard"))
  BY <1>7
<1>16. at = "read" => (j.applied = {} /\ j.rejected = {}) \/ FileIsDone(r)
  BY <1>2, <1>8, <1>12 DEF JobOk, FileIsDone
<1>17. at # "read" => FileIsDone(r)
  BY <1>8, <1>12, <1>14, <1>15 DEF FileIsDone
<1>18. IdsOf(sel) \subseteq IdsOf(j.ids) /\ \A h \in sel : Shaped(h) /\ h.p \in Spots
  BY <1>6, <1>13 DEF IdsOf
<1>19. Fits(r)'
  <2> SUFFICES ASSUME NEW h \in sel
               PROVE  (IF j.kind = "discard" THEN work' ELSE index')[h.p] = IF j.kind # "stage" THEN h.new ELSE h.old
    BY <1>12 DEF Fits
  <2>1. h \in H
    BY <1>6
  <2> QED
    BY <1>2, <1>13, <2>1
<1>20. JobOk(c, r)'
  <2>1. OneFile(r.ids) /\ OneFile(r.ids)' /\ F \subseteq Nat
    BY <1>2, <1>8, <1>12 DEF JobOk, OneFile, Shaped
  <2>2. /\ r.applied \subseteq IdsOf(r.ids)' /\ r.rejected \subseteq IdsOf(r.ids)' /\ r.applied \cap r.rejected = {}
    BY <1>2, <1>12 DEF JobOk, IdsOf
  <2>3. /\ treeLock' = c /\ r.kind \in MutationKinds /\ r.at \notin {"wait", "answered", "idle"}
        /\ r.at = "remove" => r.kind = "discard"
    BY <1>2, <1>12, <1>15 DEF JobOk
  <2>4. FileIsDone(r)' = FileIsDone(r)
    BY DEF FileIsDone
  <2>5. r.at = "read" => (r.applied = {} /\ r.rejected = {}) \/ FileIsDone(r)'
    BY <1>12, <1>16, <2>4
  <2>6. r.at # "read" => r.applied = {} /\ r.rejected = {} /\ FileIsDone(r)'
    BY <1>12, <1>14, <1>15, <1>17, <2>4
  <2>7. IdsOf(r.sel)' \subseteq IdsOf(r.ids)' /\ \A h \in r.sel : Shaped(h)' /\ h.p \in Spots
    BY <1>12, <1>18 DEF IdsOf, Shaped
  <2> QED
    BY <1>12, <1>19, <2>1, <2>2, <2>3, <2>5, <2>6, <2>7 DEF JobOk
<1>21. IsTree(index)' /\ IsTree(work)'
  BY <1>2 DEF ReviewTypes, IsTree
<1> QED
  BY <1>2, <1>11, <1>12, <1>20, <1>21, JobMoves

\* What git apply makes of a tree it fits: the selected places change over, and nothing else.
LEMMA PatchIs ==
  ASSUME NEW tree, NEW hunks, NEW reverse, NEW p \in Spots, Patch(tree, hunks, reverse)[p] # tree[p]
  PROVE  \E h \in hunks : h.p = p /\ Patch(tree, hunks, reverse)[p] = IF reverse THEN h.old ELSE h.new
<1>1. Patch(tree, hunks, reverse)[p] = IF \E h \in hunks : h.p = p
                                       THEN LET h == CHOOSE h \in hunks : h.p = p IN IF reverse THEN h.old ELSE h.new
                                       ELSE tree[p]
  BY DEF Patch
<1>2. \E h \in hunks : h.p = p
  BY <1>1
<1> DEFINE h == CHOOSE h \in hunks : h.p = p
<1>3. h \in hunks /\ h.p = p
  BY <1>2
<1>4. Patch(tree, hunks, reverse)[p] = IF reverse THEN h.old ELSE h.new
  BY <1>1, <1>2
<1> HIDE DEF h
<1> QED
  BY <1>3, <1>4

\* The selected hunks are applied, removed or refused.
LEMMA WorkSteps ==
  ASSUME ReviewInv, NEW c \in Reviewers, ApplyPatch(c) \/ RemoveUntracked(c)
  PROVE  ReviewInv'
<1> USE DEF ReviewInv
<1>1. PICK j : j = job[c]
  OBVIOUS
<1>2. IsJob(j) /\ JobOk(c, j) /\ j.at \in {"apply", "remove"} /\ treeLock = c /\ treeLock' = treeLock /\ view' = view
  BY <1>1 DEF ReviewTypes, ApplyPatch, RemoveUntracked, JobOk
<1>3. PICK new : new = IdsOf(j.sel)
  OBVIOUS
<1>4. j.applied = {} /\ j.rejected = {} /\ FileIsDone(j) /\ new \subseteq IdsOf(j.ids) /\ OneFile(j.ids)
      /\ j.files \subseteq Nat /\ j.kind \in MutationKinds
  BY <1>2, <1>3 DEF JobOk
<1>5. PICK x : x = j.applied \cup new
  OBVIOUS
<1>6. PICK y : y = j.rejected \cup new
  OBVIOUS
\* Whichever it is, the ids selected are now answered for.
<1>7. ASSUME NEW r, IsJob(r), r.at = "read", r.kind = j.kind, r.ids = j.ids, r.files = j.files,
             r.applied \subseteq new, r.rejected \subseteq new, r.applied = {} \/ r.rejected = {}
      PROVE  JobOk(c, r)'
  <2>1. FileIsDone(r)' /\ OneFile(r.ids)'
    BY <1>4, <1>7 DEF FileIsDone, OneFile, Shaped
  <2>2. r.applied \subseteq IdsOf(r.ids)' /\ r.rejected \subseteq IdsOf(r.ids)' /\ r.applied \cap r.rejected = {}
    BY <1>4, <1>7 DEF IdsOf
  <2> QED
    BY <1>2, <1>4, <1>7, <2>1, <2>2 DEF JobOk
<1>8. PICK a : a = [at |-> "read", kind |-> j.kind, ids |-> j.ids, files |-> j.files, sel |-> {},
                    applied |-> x, rejected |-> j.rejected]
  OBVIOUS
<1>9. PICK b : b = [at |-> "read", kind |-> j.kind, ids |-> j.ids, files |-> j.files, sel |-> {},
                    applied |-> j.applied, rejected |-> y]
  OBVIOUS
<1>10. /\ IsJob(a) /\ a.at = "read" /\ a.kind = j.kind /\ a.ids = j.ids /\ a.files = j.files
       /\ a.applied = new /\ a.rejected = {}
  BY <1>4, <1>5, <1>8 DEF IsJob
<1>11. /\ IsJob(b) /\ b.at = "read" /\ b.kind = j.kind /\ b.ids = j.ids /\ b.files = j.files
       /\ b.applied = {} /\ b.rejected = new
  BY <1>4, <1>6, <1>9 DEF IsJob
<1>12. job' = [job EXCEPT ![c] = a] \/ job' = [job EXCEPT ![c] = b]
  <2>1. \/ job' = [job EXCEPT ![c].at = "read", ![c].applied = @ \cup new, ![c].sel = {}]
        \/ job' = [job EXCEPT ![c].at = "read", ![c].rejected = @ \cup new, ![c].sel = {}]
    BY <1>1, <1>3 DEF ApplyPatch, RemoveUntracked
  <2>2. CASE job' = [job EXCEPT ![c].at = "read", ![c].applied = @ \cup new, ![c].sel = {}]
    <3>1. job' = [job EXCEPT ![c].at = "read", ![c].applied = x, ![c].sel = {}]
      BY <1>1, <1>5, <2>2 DEF ReviewTypes
    <3>2. job' = [job EXCEPT ![c] = [[[job[c] EXCEPT !.at = "read"] EXCEPT !.applied = x] EXCEPT !.sel = {}]]
      BY <3>1 DEF ReviewTypes
    <3>3. [[[j EXCEPT !.at = "read"] EXCEPT !.applied = x] EXCEPT !.sel = {}] = a
      BY <1>2, <1>8, JobApplies
    <3> QED
      BY <1>1, <3>2, <3>3
  <2>3. CASE job' = [job EXCEPT ![c].at = "read", ![c].rejected = @ \cup new, ![c].sel = {}]
    <3>1. job' = [job EXCEPT ![c].at = "read", ![c].rejected = y, ![c].sel = {}]
      BY <1>1, <1>6, <2>3 DEF ReviewTypes
    <3>2. job' = [job EXCEPT ![c] = [[[job[c] EXCEPT !.at = "read"] EXCEPT !.rejected = y] EXCEPT !.sel = {}]]
      BY <3>1 DEF ReviewTypes
    <3>3. [[[j EXCEPT !.at = "read"] EXCEPT !.rejected = y] EXCEPT !.sel = {}] = b
      BY <1>2, <1>9, JobRejects
    <3> QED
      BY <1>1, <3>2, <3>3
  <2> QED
    BY <2>1, <2>2, <2>3
<1>13. IsTree(index)' /\ IsTree(work)'
  <2>1. \A tree, hunks, reverse : IsTree(Patch(tree, hunks, reverse))
    BY DEF IsTree, Patch
  <2>2. ASSUME ApplyPatch(c) PROVE IsTree(index)' /\ IsTree(work)'
    <3>1. \/ index' = index /\ \E h, v : work' = Patch(work, h, v)
          \/ work' = work /\ \E h, v : index' = Patch(index, h, v)
          \/ index' = index /\ work' = work
      BY <2>2 DEF ApplyPatch
    <3> QED
      BY <2>1, <3>1 DEF ReviewTypes, IsTree
  <2>3. ASSUME RemoveUntracked(c) PROVE IsTree(index)' /\ IsTree(work)'
    <3>1. PICK bare : bare = [p \in Spots |-> IF \E h \in job[c].sel : FileOf[h.p] = FileOf[p] THEN 0 ELSE work[p]]
      OBVIOUS
    <3>2. index' = index /\ work' \in {work, bare} /\ IsTree(bare)
      BY <2>3, <3>1 DEF RemoveUntracked, IsTree
    <3> QED
      BY <3>2 DEF ReviewTypes, IsTree
  <2> QED
    BY <2>2, <2>3
<1>14. CASE job' = [job EXCEPT ![c] = a]
  <2>1. JobOk(c, a)'
    BY <1>7, <1>10
  <2> QED
    BY <1>2, <1>10, <1>13, <1>14, <2>1, JobMoves
<1>15. CASE job' = [job EXCEPT ![c] = b]
  <2>1. JobOk(c, b)'
    BY <1>7, <1>11
  <2> QED
    BY <1>2, <1>11, <1>13, <1>15, <2>1, JobMoves
<1> QED
  BY <1>12, <1>14, <1>15

\* The answer, a git that fails to run, and the view that takes the answer.
LEMMA EndSteps ==
  ASSUME ReviewInv, NEW c \in Reviewers, AnswerMutation(c) \/ GitFails(c) \/ TakeAnswer(c)
  PROVE  ReviewInv'
<1> USE DEF ReviewInv
<1>1. PICK j : j = job[c]
  OBVIOUS
<1>2. IsJob(j) /\ JobOk(c, j) /\ view' = view /\ UNCHANGED trees
  BY <1>1 DEF ReviewTypes, AnswerMutation, GitFails, TakeAnswer
<1>3. IsTree(index)' /\ IsTree(work)'
  BY <1>2 DEF ReviewTypes, IsTree, trees
<1>4. ASSUME job' = [job EXCEPT ![c] = NoJob], treeLock \in {0, c} \/ UNCHANGED <<treeLock, meddled>> PROVE ReviewInv'
  <2>1. PICK r : r = NoJob
    OBVIOUS
  <2>2. IsJob(r) /\ r.at = "idle" /\ r.ids = {} /\ r.files = {} /\ r.applied = {} /\ r.rejected = {}
    BY <2>1 DEF NoJob, IsJob
  <2>3. JobOk(c, r)'
    BY <2>2 DEF JobOk, OneFile, IdsOf
  <2> QED
    BY <1>2, <1>3, <1>4, <2>1, <2>2, <2>3, JobMoves DEF trees
<1>5. ASSUME AnswerMutation(c) PROVE ReviewInv'
  <2>1. PICK y : y = j.rejected \cup (IdsOf(j.ids) \ j.applied)
    OBVIOUS
  <2>2. PICK r : r = [at |-> "answered", kind |-> j.kind, ids |-> j.ids, files |-> j.files, sel |-> j.sel,
                      applied |-> j.applied, rejected |-> y]
    OBVIOUS
  <2>3. j.at = "read" /\ treeLock = c
    BY <1>1, <1>2, <1>5 DEF AnswerMutation, JobOk
  <2>4. job' = [job EXCEPT ![c] = r]
    <3>1. job' = [job EXCEPT ![c].at = "answered", ![c].rejected = @ \cup (IdsOf(job[c].ids) \ job[c].applied)]
      BY <1>5 DEF AnswerMutation
    <3>2. job' = [job EXCEPT ![c].at = "answered", ![c].rejected = y]
      BY <1>1, <2>1, <3>1 DEF ReviewTypes
    <3>3. job' = [job EXCEPT ![c] = [[job[c] EXCEPT !.at = "answered"] EXCEPT !.rejected = y]]
      BY <3>2 DEF ReviewTypes
    <3>4. [[j EXCEPT !.at = "answered"] EXCEPT !.rejected = y] = r
      BY <1>2, <2>2, JobAnswers
    <3> QED
      BY <1>1, <3>3, <3>4
  <2>5. IsJob(r) /\ r.at = "answered" /\ r.kind = j.kind /\ r.ids = j.ids /\ r.files = j.files /\ r.applied = j.applied
        /\ r.rejected = y
    BY <2>2 DEF IsJob
  <2>6. j.applied \subseteq IdsOf(j.ids) /\ j.rejected \subseteq IdsOf(j.ids) /\ j.applied \cap j.rejected = {}
    BY <1>2 DEF JobOk
  <2>7. y \subseteq IdsOf(j.ids) /\ j.applied \cap y = {} /\ j.applied \cup y = IdsOf(j.ids)
    BY <2>1, <2>6
  <2>8. JobOk(c, r)'
    BY <1>2, <2>3, <2>5, <2>7 DEF JobOk, OneFile, Shaped, IdsOf
  <2> QED
    BY <1>2, <1>3, <2>3, <2>4, <2>5, <2>8, JobMoves
<1>6. ASSUME GitFails(c) PROVE ReviewInv'
  <2>1. treeLock = c
    BY <1>1, <1>2, <1>6 DEF GitFails, JobOk
  <2> QED
    BY <1>4, <1>6, <2>1 DEF GitFails
<1>7. ASSUME TakeAnswer(c) PROVE ReviewInv'
  BY <1>4, <1>7 DEF TakeAnswer
<1> QED
  BY <1>5, <1>6, <1>7

\* Commits and the agent touch the trees only.
LEMMA TreeSteps ==
  ASSUME ReviewInv, (\E c \in Reviewers : Commit(c)) \/ (\E p \in Spots : AgentEdits(p) \/ AgentAdds(p))
  PROVE  ReviewInv'
<1> USE DEF ReviewInv
<1>1. UNCHANGED <<view, job, treeLock>>
  BY DEF Commit, AgentEdits, AgentAdds
<1>2. IsTree(index)' /\ IsTree(work)'
  <2>1. \/ UNCHANGED <<index, work>>
        \/ work' = work /\ \E p, x : index' = [index EXCEPT ![p] = x]
        \/ index' = index /\ \E p, x : work' = [work EXCEPT ![p] = x]
    BY DEF Commit, AgentEdits, AgentAdds
  <2> QED
    BY <2>1 DEF ReviewTypes, IsTree
<1>3. ReviewTypes' /\ ViewInv'
  BY <1>1, <1>2 DEF ReviewTypes, ViewInv, IsView, IsJob, OneFile, Shaped
<1>4. UNCHANGED <<meddled, index, work>> \/ meddled' = (treeLock # 0)
  BY DEF Commit, AgentEdits, AgentAdds
<1>5. ASSUME NEW d \in Reviewers PROVE JobOk(d, job[d])'
  <2>1. job[d].at \in {"read", "apply", "remove"} => treeLock = d /\ treeLock # 0
    BY ReviewAssumption DEF JobOk
  <2>2. CASE UNCHANGED <<meddled, index, work>>
    BY <1>1, <2>1, <2>2, JobStays
  <2>3. CASE meddled' = (treeLock # 0)
    <3>1. job[d].at \in {"apply", "remove"} => meddled'
      BY <2>1, <2>3
    <3> QED
      BY <1>1, <2>1, <3>1, JobStays
  <2> QED
    BY <1>4, <2>2, <2>3
<1> QED
  BY <1>3, <1>5

\* Nothing is asked for at the start.
LEMMA ReviewStart ==
  ASSUME ReviewInit
  PROVE  ReviewInv
<1>1. IsTree(index) /\ IsTree(work)
  <2>1. index = [p \in Spots |-> IF FileOf[p] \in Untracked THEN 0 ELSE 1] /\ work = [p \in Spots |-> p + 1]
    BY DEF ReviewInit
  <2> QED
    BY <2>1 DEF IsTree
<1>2. \A c \in Reviewers : view[c] = [hunks |-> {}, dialog |-> NoDiscard] /\ job[c] = NoJob
  BY DEF ReviewInit
<1>3. view = [c \in Reviewers |-> view[c]] /\ job = [c \in Reviewers |-> job[c]]
  BY DEF ReviewInit
<1>4. IsJob(NoJob) /\ NoJob.at = "idle" /\ NoJob.ids = {} /\ NoJob.files = {} /\ NoJob.applied = {} /\ NoJob.rejected = {}
  BY DEF NoJob, IsJob
<1>5. \A c \in Reviewers : IsView(view[c]) /\ view[c].hunks = {} /\ view[c].dialog = NoDiscard
  BY <1>2 DEF IsView
<1>6. NoDiscard.ids = {}
  BY DEF NoDiscard
<1>7. ReviewTypes /\ ViewInv
  BY <1>1, <1>2, <1>3, <1>4, <1>5, <1>6 DEF ReviewTypes, ViewInv, OneFile
<1>8. \A c \in Reviewers : JobOk(c, NoJob)
  BY <1>4 DEF JobOk, OneFile, IdsOf
<1> QED
  BY <1>2, <1>7, <1>8 DEF ReviewInv

\* Every step keeps the invariant.
LEMMA ReviewSteps ==
  ASSUME ReviewInv, [ReviewNext]_reviewVars
  PROVE  ReviewInv'
<1>1. CASE UNCHANGED reviewVars
  <2>1. UNCHANGED <<view, job, treeLock, index, work, meddled>>
    BY <1>1 DEF reviewVars
  <2>2. ReviewTypes' /\ ViewInv'
    BY <2>1 DEF ReviewInv, ReviewTypes, ViewInv, IsTree, IsView, IsJob, OneFile, Shaped
  <2>3. ASSUME NEW d \in Reviewers PROVE JobOk(d, job[d])'
    BY <2>1, JobStays DEF ReviewInv, JobOk
  <2> QED
    BY <2>2, <2>3 DEF ReviewInv
<1> QED
  BY <1>1, ViewSteps, TakeLockStep, ReadDiffStep, WorkSteps, EndSteps, TreeSteps DEF ReviewNext

\* The step that takes a mutation from its patch is git apply's, or the removal.
LEMMA PatchStep ==
  ASSUME ReviewInv, [ReviewNext]_reviewVars, NEW c \in Reviewers, job[c].at \in {"apply", "remove"}, job'[c] # job[c]
  PROVE  (job[c].at = "apply" /\ ApplyPatch(c)) \/ (job[c].at = "remove" /\ RemoveUntracked(c)) \/ GitFails(c)
<1>1. job = [d \in Reviewers |-> job[d]] /\ treeLock = c
  BY DEF ReviewInv, ReviewTypes, JobOk
<1>3. ASSUME job' = job PROVE FALSE
  BY <1>3
<1>4. ASSUME NEW d \in Reviewers, (\E f \in Files : LoadDiff(d, f)) \/ OpenDiscard(d) \/ CancelDiscard(d) \/ Commit(d)
      PROVE  FALSE
  BY <1>3, <1>4 DEF LoadDiff, OpenDiscard, CancelDiscard, Commit
<1>5. ASSUME NEW p \in Spots, AgentEdits(p) \/ AgentAdds(p) PROVE FALSE
  BY <1>3, <1>5 DEF AgentEdits, AgentAdds
<1>6. ASSUME NEW d \in Reviewers, ConfirmDiscard(d) \/ SendHunk(d) PROVE FALSE
  <2>1. d # c
    BY <1>6 DEF ConfirmDiscard, SendHunk
  <2>2. \E kind, ids : Ask(d, kind, ids)
    BY <1>6 DEF ConfirmDiscard, SendHunk
  <2> QED
    BY <1>1, <2>1, <2>2 DEF Ask
<1>7. ASSUME NEW d \in Reviewers, TakeLock(d) \/ ReadDiff(d) \/ AnswerMutation(d) \/ TakeAnswer(d)
      PROVE  FALSE
  <2>1. d # c
    BY <1>7 DEF TakeLock, ReadDiff, AnswerMutation, TakeAnswer
  <2> QED
    BY <1>1, <1>7, <2>1 DEF TakeLock, ReadDiff, AnswerMutation, TakeAnswer
<1>8. ASSUME NEW d \in Reviewers, ApplyPatch(d) \/ RemoveUntracked(d) \/ GitFails(d)
      PROVE  /\ d = c /\ (ApplyPatch(d) => job[d].at = "apply") /\ (RemoveUntracked(d) => job[d].at = "remove")
  <2>1. /\ job[d].at \in {"read", "apply", "remove"} /\ (ApplyPatch(d) => job[d].at = "apply")
        /\ (RemoveUntracked(d) => job[d].at = "remove")
    BY <1>8 DEF ApplyPatch, RemoveUntracked, GitFails
  <2>2. treeLock = d
    BY <2>1 DEF ReviewInv, JobOk
  <2> QED
    BY <1>1, <2>1, <2>2
<1>9. CASE UNCHANGED reviewVars
  BY <1>3, <1>9 DEF reviewVars
<1> QED
  BY <1>4, <1>5, <1>6, <1>7, <1>8, <1>9 DEF ReviewNext

\* A hunk that was selected is one that was asked for: they have the same id.
LEMMA SelectedWasShown ==
  ASSUME NEW c \in Reviewers, NEW r, JobOk(c, r), r.at \in {"apply", "remove"}, NEW h \in r.sel
  PROVE  \E g \in r.ids : g.p = h.p /\ g.old = h.old /\ g.new = h.new
<1>1. h.id \in IdsOf(r.ids) /\ Shaped(h)
  BY DEF JobOk, IdsOf
<1>2. PICK g \in r.ids : g.id = h.id
  BY <1>1 DEF IdsOf
<1> QED
  BY <1>1, <1>2 DEF JobOk, OneFile, Shaped

\* What ApplyPatch changes was shown.
LEMMA ShownStep ==
  ASSUME ReviewInv, [ReviewNext]_reviewVars, NEW c \in Reviewers, job[c].at = "apply", job'[c].at = "read",
         NEW p \in Spots
  PROVE  /\ work'[p] # work[p] => \E h \in job[c].ids : h.p = p /\ h.new = work[p] /\ h.old = work'[p]
         /\ index'[p] # index[p] => \E h \in job[c].ids : h.p = p /\ {h.old, h.new} = {index[p], index'[p]}
<1>1. PICK r : r = job[c]
  OBVIOUS
<1>2. JobOk(c, r) /\ r.at = "apply" /\ job = [d \in Reviewers |-> job[d]]
  BY <1>1 DEF ReviewInv, ReviewTypes
<1>3. ApplyPatch(c)
  <2>1. job'[c] # job[c]
    OBVIOUS
  <2>2. ~GitFails(c)
    BY <1>2 DEF GitFails, NoJob
  <2> QED
    BY <2>1, <2>2, PatchStep
<1> DEFINE tree == IF r.kind = "discard" THEN work ELSE index
           reverse == r.kind # "stage"
           fits == \A h \in r.sel : tree[h.p] = IF reverse THEN h.new ELSE h.old
           new == Patch(tree, r.sel, reverse)
<1>4. \/ fits /\ r.kind = "discard" /\ work' = new /\ index' = index
      \/ fits /\ r.kind # "discard" /\ index' = new /\ work' = work
      \/ UNCHANGED <<index, work>>
  BY <1>1, <1>3 DEF ApplyPatch
<1>5. ASSUME fits, new[p] # tree[p]
      PROVE  \E g \in r.ids : /\ g.p = p /\ new[p] = (IF reverse THEN g.old ELSE g.new)
                              /\ tree[p] = IF reverse THEN g.new ELSE g.old
  <2>1. PICK h \in r.sel : h.p = p /\ new[p] = IF reverse THEN h.old ELSE h.new
    BY <1>5, PatchIs
  <2>2. tree[p] = IF reverse THEN h.new ELSE h.old
    BY <1>5, <2>1
  <2>3. PICK g \in r.ids : g.p = h.p /\ g.old = h.old /\ g.new = h.new
    BY <1>2, SelectedWasShown
  <2> QED
    BY <2>1, <2>2, <2>3
<1> HIDE DEF new, fits
<1>6. ASSUME work'[p] # work[p] PROVE \E h \in job[c].ids : h.p = p /\ h.new = work[p] /\ h.old = work'[p]
  <2>1. fits /\ r.kind = "discard" /\ work' = new /\ tree = work
    BY <1>4, <1>6
  <2>2. PICK g \in r.ids : /\ g.p = p /\ new[p] = (IF reverse THEN g.old ELSE g.new)
                           /\ tree[p] = IF reverse THEN g.new ELSE g.old
    BY <1>5, <1>6, <2>1
  <2> QED
    BY <1>1, <2>1, <2>2
<1>7. ASSUME index'[p] # index[p]
      PROVE  \E h \in job[c].ids : h.p = p /\ {h.old, h.new} = {index[p], index'[p]}
  <2>1. fits /\ r.kind # "discard" /\ index' = new /\ tree = index
    BY <1>4, <1>7
  <2>2. PICK g \in r.ids : /\ g.p = p /\ new[p] = (IF reverse THEN g.old ELSE g.new)
                           /\ tree[p] = IF reverse THEN g.new ELSE g.old
    BY <1>5, <1>7, <2>1
  <2>3. {g.old, g.new} = {index[p], index'[p]}
    <3>1. new[p] = index'[p] /\ tree[p] = index[p]
      BY <2>1
    <3>2. CASE reverse
      BY <2>2, <3>1, <3>2
    <3>3. CASE ~reverse
      BY <2>2, <3>1, <3>3
    <3> QED
      BY <3>2, <3>3
  <2> QED
    BY <1>1, <2>2, <2>3
<1> QED
  BY <1>6, <1>7

\* What RemoveUntracked removes was shown.
LEMMA RemovedStep ==
  ASSUME ReviewInv, [ReviewNext]_reviewVars, NEW c \in Reviewers, job[c].at = "remove", job'[c].at = "read",
         NEW p \in Spots, work'[p] # work[p]
  PROVE  \E h \in job[c].ids : FileOf[h.p] = FileOf[p] /\ (h.new = work[h.p] \/ meddled)
<1>1. PICK r : r = job[c]
  OBVIOUS
<1>2. JobOk(c, r) /\ r.at = "remove" /\ job = [d \in Reviewers |-> job[d]]
  BY <1>1 DEF ReviewInv, ReviewTypes
<1>3. RemoveUntracked(c)
  <2>1. job'[c] # job[c]
    OBVIOUS
  <2>2. ~GitFails(c)
    BY <1>2 DEF GitFails, NoJob
  <2> QED
    BY <2>1, <2>2, PatchStep
<1>4. work' = [q \in Spots |-> IF \E h \in r.sel : FileOf[h.p] = FileOf[q] THEN 0 ELSE work[q]]
  BY <1>1, <1>3 DEF RemoveUntracked
<1>5. PICK h \in r.sel : FileOf[h.p] = FileOf[p]
  BY <1>4
<1>6. PICK g \in r.ids : g.p = h.p /\ g.old = h.old /\ g.new = h.new
  BY <1>2, SelectedWasShown
<1>7. ~meddled => h.new = work[h.p]
  BY <1>2 DEF JobOk, Fits
<1> QED
  BY <1>1, <1>5, <1>6, <1>7

\* A patch is refused only if the agent got in between.
LEMMA RejectStep ==
  ASSUME ReviewInv, [ReviewNext]_reviewVars, NEW c \in Reviewers, job[c].at = "apply",
         job'[c].rejected # job[c].rejected
  PROVE  meddled
<1>1. PICK r : r = job[c]
  OBVIOUS
<1>2. JobOk(c, r) /\ r.at = "apply" /\ IsJob(r) /\ job = [d \in Reviewers |-> job[d]]
  BY <1>1 DEF ReviewInv, ReviewTypes
<1>3. r.rejected = {}
  BY <1>2 DEF JobOk
<1>4. ApplyPatch(c)
  <2>1. job'[c] # job[c]
    OBVIOUS
  <2>2. ASSUME GitFails(c) PROVE FALSE
    <3>1. job'[c] = NoJob
      BY <1>2, <2>2 DEF GitFails
    <3> QED
      BY <1>1, <1>3, <3>1 DEF NoJob
  <2> QED
    BY <2>1, <2>2, PatchStep
<1> SUFFICES ASSUME ~meddled PROVE FALSE
  OBVIOUS
<1>5. Fits(r)
  BY <1>2 DEF JobOk
<1>6. job' = [job EXCEPT ![c].at = "read", ![c].applied = @ \cup IdsOf(r.sel), ![c].sel = {}]
  BY <1>1, <1>4, <1>5 DEF ApplyPatch, Fits
<1>7. PICK x : x = r.applied \cup IdsOf(r.sel)
  OBVIOUS
<1>8. job' = [job EXCEPT ![c].at = "read", ![c].applied = x, ![c].sel = {}]
  BY <1>1, <1>2, <1>6, <1>7
<1>9. job' = [job EXCEPT ![c] = [[[job[c] EXCEPT !.at = "read"] EXCEPT !.applied = x] EXCEPT !.sel = {}]]
  BY <1>2, <1>8
<1>10. PICK q : q = [at |-> "read", kind |-> r.kind, ids |-> r.ids, files |-> r.files, sel |-> {},
                     applied |-> x, rejected |-> r.rejected]
  OBVIOUS
<1>11. [[[r EXCEPT !.at = "read"] EXCEPT !.applied = x] EXCEPT !.sel = {}] = q
  <2>1. PICK u, k, i, g, s, a, b : r = [at |-> u, kind |-> k, ids |-> i, files |-> g, sel |-> s, applied |-> a, rejected |-> b]
    BY <1>2 DEF IsJob
  <2>2. r.at = u /\ r.kind = k /\ r.ids = i /\ r.files = g /\ r.sel = s /\ r.applied = a /\ r.rejected = b
    BY <2>1
  <2>3. [r EXCEPT !.at = "read"]
        = [at |-> "read", kind |-> k, ids |-> i, files |-> g, sel |-> s, applied |-> a, rejected |-> b]
    BY <2>1
  <2>4. [[at |-> "read", kind |-> k, ids |-> i, files |-> g, sel |-> s, applied |-> a, rejected |-> b] EXCEPT !.applied = x]
        = [at |-> "read", kind |-> k, ids |-> i, files |-> g, sel |-> s, applied |-> x, rejected |-> b]
    OBVIOUS
  <2>5. [[at |-> "read", kind |-> k, ids |-> i, files |-> g, sel |-> s, applied |-> x, rejected |-> b] EXCEPT !.sel = {}]
        = [at |-> "read", kind |-> k, ids |-> i, files |-> g, sel |-> {}, applied |-> x, rejected |-> b]
    OBVIOUS
  <2> QED
    BY <1>10, <2>2, <2>3, <2>4, <2>5
<1>12. job'[c] = q
  BY <1>1, <1>2, <1>9, <1>11
<1>13. q.rejected = r.rejected
  BY <1>10
<1> QED
  BY <1>1, <1>12, <1>13

\* ReviewIsExact for any reviewers, places, files and edits: in la-core's diff engine with
\* the dispatcher's worktree handlers a mutation changes only text that the reviewer was
\* shown, only the agent can make git refuse it, and every hunk asked for is answered once.
THEOREM ReviewStaysExact == ReviewSpec => ReviewIsExact
<1>1. ReviewInit => ReviewInv
  BY ReviewStart
<1>2. ReviewInv /\ [ReviewNext]_reviewVars => ReviewInv'
  BY ReviewSteps
<1>3. ReviewInv => EveryHunkAnswered
  BY DEF ReviewInv, JobOk, EveryHunkAnswered
<1>4. ReviewInv /\ [ReviewNext]_reviewVars =>
        [\A c \in Reviewers :
           /\ job[c].at = "apply" /\ job'[c].at = "read" => \A p \in Spots :
                /\ work'[p] # work[p] => \E h \in job[c].ids : h.p = p /\ h.new = work[p] /\ h.old = work'[p]
                /\ index'[p] # index[p] => \E h \in job[c].ids : h.p = p /\ {h.old, h.new} = {index[p], index'[p]}
           /\ job[c].at = "remove" /\ job'[c].at = "read" => \A p \in Spots :
                work'[p] # work[p] =>
                  \E h \in job[c].ids : FileOf[h.p] = FileOf[p] /\ (h.new = work[h.p] \/ meddled)]_reviewVars
  BY ShownStep, RemovedStep
<1>5. ReviewInv /\ [ReviewNext]_reviewVars =>
        [\A c \in Reviewers : job[c].at = "apply" /\ job'[c].rejected # job[c].rejected => meddled]_reviewVars
  BY RejectStep
<1> QED
  BY <1>1, <1>2, <1>3, <1>4, <1>5, PTL DEF ReviewSpec, ReviewIsExact, ChangesWereShown, OnlyAgentRejects

=============================================================================
