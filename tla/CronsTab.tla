------------------------------ MODULE CronsTab ------------------------------
(***************************************************************************)
(* The Crons tab of the terminal UI: list, editor and dialogs               *)
(* (la-tui/crons.rs, the cron handlers of la-tui/app.rs), over the cron     *)
(* source it works with (MockCronSource, the only one there is).            *)
(*                                                                          *)
(* A cron's fields are one value: what was there, an edit, or an edit whose *)
(* schedule does not parse.  A new cron is called draft-N for N one more    *)
(* than the crons listed: ids are numbers, those of the fixture above all   *)
(* N.                                                                       *)
(***************************************************************************)
EXTENDS Naturals, Sequences, SequencesExt

CONSTANTS
  MaxCrons   \* bound: crons in the source

VARIABLES
  stored,   \* the source
  list,     \* the crons of the tab: [id, on, text]
  pick,     \* cursor into list, 0 for None
  draft,    \* <<>> or <<cron>>
  pane,     \* focus: "list" or "editor"
  ask,      \* the modal: [kind, id]
  confirmed \* history: crons enabled by their dialog or by the fixture

cronVars == <<stored, list, pick, draft, pane, ask, confirmed>>

Texts == {"kept", "edited", "invalid"}
NoAsk == [kind |-> "none", id |-> 0]
Fixture == << [id |-> 11, on |-> TRUE, text |-> "kept"], [id |-> 12, on |-> FALSE, text |-> "kept"] >>

CronInit ==
  /\ stored = Fixture /\ list = Fixture /\ pick = 1 /\ draft = <<>> /\ pane = "list"
  /\ ask = NoAsk /\ confirmed = {11}

-----------------------------------------------------------------------------
(* The source *)

PositionIn(crons, id) == SelectInSeq(crons, LAMBDA c : c.id = id)
Upserted(crons, c) ==
  IF PositionIn(crons, c.id) # 0 THEN [crons EXCEPT ![PositionIn(crons, c.id)] = c] ELSE Append(crons, c)
\* delete retains the other crons: ids are unique (below), so it drops at most one.
Without(crons, id) ==
  IF PositionIn(crons, id) # 0 THEN RemoveAt(crons, PositionIn(crons, id)) ELSE crons
WithEnabled(crons, id, on) ==
  IF PositionIn(crons, id) # 0 THEN [crons EXCEPT ![PositionIn(crons, id)].on = on] ELSE crons

Selected == IF pick \in DOMAIN list THEN <<list[pick]>> ELSE <<>>

\* refresh_crons and set_crons: the cursor stays with its id, a draft is dropped.
Refresh(crons) ==
  LET same == IF Selected = <<>> THEN 0 ELSE PositionIn(crons, Selected[1].id) IN
    /\ stored' = crons /\ list' = crons /\ draft' = <<>>
    /\ pick' = IF same # 0 THEN same ELSE IF crons = <<>> THEN 0 ELSE 1

-----------------------------------------------------------------------------
(* Keys, no dialog open *)

Free == ask = NoAsk

\* move_cursor, move_top, move_bottom: not while a draft is open.
MovePick ==
  /\ Free /\ pane = "list" /\ draft = <<>> /\ pick' \in DOMAIN list
  /\ UNCHANGED <<stored, list, draft, pane, ask, confirmed>>

\* CronFocusEditor needs a selection; a tab switch or a closing pane also ends in the
\* list, with the draft kept.
SwitchPane ==
  /\ Free /\ (pane = "editor" \/ Selected # <<>>)
  /\ pane' = IF pane = "editor" THEN "list" ELSE "editor"
  /\ UNCHANGED <<stored, list, pick, draft, ask, confirmed>>

\* on_cron_new: disabled, and over any open draft.
NewCron ==
  /\ Free /\ pane = "list" /\ Len(stored) < MaxCrons
  /\ draft' = <<[id |-> Len(list) + 1, on |-> FALSE, text |-> "edited"]>> /\ pane' = "editor"
  /\ UNCHANGED <<stored, list, pick, ask, confirmed>>

\* field_input: the first keystroke copies the selected row.
EditField ==
  /\ Free /\ pane = "editor" /\ (draft # <<>> \/ Selected # <<>>)
  /\ \E t \in Texts \ {"kept"} :
       draft' = <<[(IF draft # <<>> THEN draft[1] ELSE Selected[1]) EXCEPT !.text = t]>>
  /\ UNCHANGED <<stored, list, pick, pane, ask, confirmed>>

\* on_cron_save, from either pane: an invalid schedule keeps the draft; otherwise commit_draft, upsert and
\* refresh_crons.
SaveDraft ==
  /\ Free /\ draft # <<>> /\ draft[1].text # "invalid"
  /\ LET c == draft[1]
         at == PositionIn(list, c.id)
         crons == Upserted(stored, c)
     IN /\ stored' = crons /\ list' = crons /\ draft' = <<>>
        /\ pick' = IF at = 0 THEN PositionIn(crons, c.id) ELSE pick
  /\ pane' = "list" /\ UNCHANGED <<ask, confirmed>>

CancelDraft ==
  /\ Free /\ pane = "editor" /\ draft' = <<>> /\ pane' = "list"
  /\ UNCHANGED <<stored, list, pick, ask, confirmed>>

\* Mutant: enabling is one-step, like disabling.
MutToggle ==
  /\ Free /\ pane = "list" /\ draft = <<>> /\ Selected # <<>>
  /\ Refresh(WithEnabled(stored, Selected[1].id, ~Selected[1].on))
  /\ UNCHANGED <<pane, ask, confirmed>>

\* on_cron_toggle: the flag of the row flips at once; enabling asks, disabling persists.
Toggle ==
  /\ Free /\ pane = "list" /\ draft = <<>> /\ Selected # <<>>
  /\ LET c == Selected[1] IN
       IF c.on THEN Refresh(WithEnabled(stored, c.id, FALSE)) /\ UNCHANGED ask
       ELSE /\ list' = [list EXCEPT ![pick].on = TRUE] /\ ask' = [kind |-> "enable", id |-> c.id]
            /\ UNCHANGED <<stored, pick, draft>>
  /\ UNCHANGED <<pane, confirmed>>

\* on_cron_delete; on_cron_dry_run and the overlays.
OpenAsk ==
  /\ Free /\ pane = "list" /\ Selected # <<>>
  /\ ask' \in {[kind |-> "delete", id |-> Selected[1].id], [kind |-> "overlay", id |-> 0]}
  /\ UNCHANGED <<stored, list, pick, draft, pane, confirmed>>

-----------------------------------------------------------------------------
(* Keys, a dialog open *)

ConfirmEnable ==
  /\ ask.kind = "enable" /\ ask' = NoAsk /\ confirmed' = confirmed \cup {ask.id}
  /\ Refresh(WithEnabled(stored, ask.id, TRUE)) /\ UNCHANGED pane

CancelEnable ==
  /\ ask.kind = "enable" /\ ask' = NoAsk
  /\ Refresh(WithEnabled(stored, ask.id, FALSE)) /\ UNCHANGED <<pane, confirmed>>

ConfirmDeleteCron ==
  /\ ask.kind = "delete" /\ ask' = NoAsk /\ confirmed' = confirmed \ {ask.id}
  /\ Refresh(Without(stored, ask.id)) /\ UNCHANGED pane

CloseAsk ==
  /\ ask.kind \in {"delete", "overlay"} /\ ask' = NoAsk
  /\ UNCHANGED <<stored, list, pick, draft, pane, confirmed>>

CronNext ==
  \/ MovePick \/ SwitchPane \/ NewCron \/ EditField \/ SaveDraft \/ CancelDraft \/ Toggle \/ OpenAsk
  \/ ConfirmEnable \/ CancelEnable \/ ConfirmDeleteCron \/ CloseAsk

CronSpec == CronInit /\ [][CronNext]_cronVars

-----------------------------------------------------------------------------
(* Properties *)

\* The list shows what the source has, except for the flag flipped while its dialog asks.
ListMatchesSource == ask.kind # "enable" => list = stored

\* A cron is enabled only through its dialog: no edit, save, cancelled dialog or new cron
\* under a reused id leaves one enabled that was not confirmed.
EnabledWasConfirmed == \A i \in DOMAIN stored : stored[i].on => stored[i].id \in confirmed

\* No two crons share an id, a new cron under a reused id included: delete and
\* set_enabled mean the one cron they were asked for.
IdsAreUnique == \A i, j \in DOMAIN stored : stored[i].id = stored[j].id => i = j

\* The tab shows what is stored, and stores as enabled only what was confirmed.
CronsTabIsTrue == ListMatchesSource /\ EnabledWasConfirmed /\ IdsAreUnique

=============================================================================
