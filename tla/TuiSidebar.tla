----------------------------- MODULE TuiSidebar -----------------------------
(***************************************************************************)
(* The Sessions tab of the terminal UI: the sidebar (la-tui/sidebar.rs),   *)
(* the handlers that act on the highlighted row (la-tui/app.rs) and the     *)
(* frame loop that refreshes, draws and reads one key (la-tui/runner.rs).   *)
(*                                                                          *)
(* One project and the Archived bucket are enough for groups to appear,     *)
(* vanish and exchange rows.  A list item is <<group, row>>, row 0 for the  *)
(* group's header.  The source's snapshot changes at any time.              *)
(***************************************************************************)
EXTENDS Naturals, Sequences, FiniteSets

CONSTANTS
  SideRows,    \* session ids, in list order
  MaxChanges   \* bound: snapshots after the first

ASSUME SideAssumption == IsFiniteSet(SideRows) /\ SideRows \subseteq Nat \ {0}

VARIABLES
  snap,       \* the source: [project, row], row: "gone", "open" or "archived"
  changed,    \* the generation has moved since the last frame
  held,       \* the snapshot in the sidebar
  expanded,   \* per group
  cursor,     \* index into the items, 0 for None
  dialog,     \* the modal: [kind, row, seen]
  at,         \* "frame": about to refresh and draw; "poll": waiting for a key
  screen,     \* the item highlighted on the terminal
  changes,
  acted       \* history: the last command sent to the source: [row, seen]

sideVars == <<snap, changed, held, expanded, cursor, dialog, at, screen, changes, acted>>

Groups == <<"project", "archived">>
NoItem == <<"none", 0>>
NoDialog == [kind |-> "none", row |-> 0, seen |-> 0]
Blank == [project |-> FALSE, row |-> [r \in SideRows |-> "gone"]]
Folds == [g \in {"project", "archived"} |-> g = "project"]

-----------------------------------------------------------------------------
(* The list *)

\* build_groups: a project is listed with or without rows, the bucket only with some.
RowsOf(s, g) ==
  LET rows == {r \in SideRows : s.row[r] = IF g = "project" THEN "open" ELSE "archived"}
  IN [i \in 1 .. Cardinality(rows) |-> CHOOSE r \in rows : Cardinality({q \in rows : q < r}) = i - 1]
Present(s, g) == RowsOf(s, g) # <<>> \/ (g = "project" /\ s.project)

\* rebuild
ItemsOf(s, folds) ==
  LET Part(g) == IF ~Present(s, g) THEN <<>>
                 ELSE <<<<g, 0>>>> \o (IF folds[g] THEN [i \in DOMAIN RowsOf(s, g) |-> <<g, RowsOf(s, g)[i]>>]
                                       ELSE <<>>)
  IN Part(Groups[1]) \o Part(Groups[2])

Items == ItemsOf(held, expanded)
IndexIn(items, item) == IF item \in {items[i] : i \in DOMAIN items}
                        THEN CHOOSE i \in DOMAIN items : items[i] = item ELSE 0
Selection == IF cursor \in DOMAIN Items THEN Items[cursor] ELSE NoItem

\* Mutant: the cursor keeps its index.
MutSetGroups(s) ==
  LET folds == [g \in DOMAIN expanded |-> IF Present(held, g) THEN expanded[g] ELSE Folds[g]]
      items == ItemsOf(s, folds)
  IN /\ held' = s /\ expanded' = folds
     /\ cursor' = IF cursor = 0 /\ items # <<>> THEN 1
                  ELSE IF cursor > Len(items) THEN Len(items) ELSE cursor

\* set_groups: folds are kept for the groups that were there, the selection by identity.
SetGroups(s) ==
  LET folds == [g \in DOMAIN expanded |-> IF Present(held, g) THEN expanded[g] ELSE Folds[g]]
      items == ItemsOf(s, folds)
      same == IndexIn(items, Selection)
  IN /\ held' = s /\ expanded' = folds
     /\ cursor' = IF same # 0 THEN same ELSE IF items = <<>> THEN 0 ELSE 1

SideInit ==
  /\ snap = Blank /\ held = Blank /\ changed = FALSE /\ expanded = Folds /\ cursor = 0
  /\ dialog = NoDialog /\ at = "frame" /\ screen = NoItem /\ changes = 0
  /\ acted = [row |-> 0, seen |-> 0]

-----------------------------------------------------------------------------
(* The frame loop *)

\* One turn of event_loop up to the poll; only this thread touches the sidebar.
Frame ==
  /\ at = "frame" /\ at' = "poll" /\ changed' = FALSE
  /\ IF changed THEN SetGroups(snap) ELSE UNCHANGED <<held, expanded, cursor>>
  /\ screen' = Selection'
  /\ UNCHANGED <<snap, dialog, changes, acted>>

\* Nothing within 250 ms.
PollTimeout == at = "poll" /\ at' = "frame" /\ UNCHANGED <<snap, changed, held, expanded, cursor, dialog, screen, changes, acted>>

Source(s) == snap' = s /\ changed' = TRUE /\ changes' = changes + 1

SourceMoves ==
  /\ changes < MaxChanges
  /\ \E s \in [project : BOOLEAN, row : [SideRows -> {"gone", "open", "archived"}]] :
       s # snap /\ Source(s)
  /\ UNCHANGED <<held, expanded, cursor, dialog, at, screen, acted>>

-----------------------------------------------------------------------------
(* Keys, no dialog open *)

Key == at = "poll" /\ at' = "frame" /\ UNCHANGED screen
SideKey == Key /\ dialog = NoDialog
Quiet == UNCHANGED <<snap, changed, changes, acted>>

\* move_down, move_up, move_top, move_bottom and select_index (a click).
Move ==
  /\ SideKey /\ Items # <<>> /\ cursor' \in DOMAIN Items
  /\ Quiet /\ UNCHANGED <<held, expanded, dialog>>

\* collapse, expand, and Enter on a header: the cursor goes to the header.  items[c] is
\* an unchecked index.
Fold(open) ==
  /\ SideKey /\ cursor # 0 /\ expanded[Items[cursor][1]] = ~open
  /\ expanded' = [expanded EXCEPT ![Items[cursor][1]] = open]
  /\ cursor' = IndexIn(ItemsOf(held, expanded'), <<Items[cursor][1], 0>>)
  /\ Quiet /\ UNCHANGED <<held, dialog>>

\* on_delete
OpenDelete ==
  /\ SideKey /\ Selection[2] # 0
  /\ dialog' = [kind |-> "delete", row |-> Selection[2], seen |-> screen[2]]
  /\ Quiet /\ UNCHANGED <<held, expanded, cursor>>

\* on_archive_or_restore: the row is posted and the sidebar reloaded from the cache,
\* which the source refreshes later.
ArchiveOrRestore ==
  /\ SideKey /\ Selection[2] # 0
  /\ acted' = [row |-> Selection[2], seen |-> screen[2]]
  /\ SetGroups(snap)
  /\ UNCHANGED <<snap, changed, changes, dialog>>

\* on_new_session (not in the Archived bucket), on_new_project, the overlays.
OpenDialog ==
  /\ SideKey
  /\ \E k \in {"session", "project", "overlay"} :
       /\ k = "session" => Selection[1] = "project"
       /\ dialog' = [kind |-> k, row |-> 0, seen |-> 0]
  /\ Quiet /\ UNCHANGED <<held, expanded, cursor>>

-----------------------------------------------------------------------------
(* Keys, a dialog open (handle_in_modal) *)

Cancel ==
  /\ Key /\ dialog # NoDialog /\ dialog' = NoDialog
  /\ Quiet /\ UNCHANGED <<held, expanded, cursor>>

ConfirmDelete ==
  /\ Key /\ dialog.kind = "delete" /\ dialog' = NoDialog
  /\ acted' = [row |-> dialog.row, seen |-> dialog.seen]
  /\ SetGroups(snap)
  /\ UNCHANGED <<snap, changed, changes>>

\* create_session: the cache has the session when it returns; a Validation error keeps
\* the dialog, a Backend error closes it.
ConfirmSession ==
  /\ Key /\ dialog.kind = "session"
  /\ \/ /\ changes < MaxChanges /\ dialog' = NoDialog
        /\ \E r \in SideRows :
             /\ snap.row[r] = "gone"
             /\ LET s == [project |-> TRUE, row |-> [snap.row EXCEPT ![r] = "open"]]
                IN Source(s) /\ SetGroups(s)
        /\ UNCHANGED acted
     \/ dialog' \in {dialog, NoDialog} /\ Quiet /\ UNCHANGED <<held, expanded, cursor>>

\* create_project, then select_project on the reloaded list.  Enter on a candidate of
\* the path completion only descends into it.
ConfirmProject ==
  /\ Key /\ dialog.kind = "project"
  /\ \/ /\ changes < MaxChanges /\ dialog' = NoDialog
        /\ LET s == [snap EXCEPT !.project = TRUE]
               folds == [g \in DOMAIN expanded |-> IF Present(held, g) THEN expanded[g] ELSE Folds[g]]
           IN /\ Source(s) /\ held' = s /\ expanded' = folds
              /\ cursor' = IndexIn(ItemsOf(s, folds), <<"project", 0>>)
        /\ UNCHANGED acted
     \/ dialog' \in {dialog, NoDialog} /\ Quiet /\ UNCHANGED <<held, expanded, cursor>>

SideNext ==
  \/ Frame \/ PollTimeout \/ SourceMoves
  \/ Move \/ Fold(TRUE) \/ Fold(FALSE) \/ OpenDelete \/ ArchiveOrRestore \/ OpenDialog
  \/ Cancel \/ ConfirmDelete \/ ConfirmSession \/ ConfirmProject

SideSpec == SideInit /\ [][SideNext]_sideVars

-----------------------------------------------------------------------------
(* Properties *)

\* A command is sent for the row that was highlighted on the terminal when its key was
\* pressed, whatever the daemon did to the list in between and while a dialog was open.
ActsOnHighlighted == acted.row = acted.seen

\* The cursor is never left pointing past the list or at nothing in a list that is not
\* empty: collapse and expand index the items with it unchecked.
CursorOnItem == IF Items = <<>> THEN cursor = 0 ELSE cursor \in DOMAIN Items

\* While no key is handled, the highlight stays on its item for as long as that item is
\* listed: a refresh never slides it onto a neighbour.
RefreshKeepsTarget ==
  [][at = "frame" /\ at' = "poll" /\ Selection \in {Items'[i] : i \in DOMAIN Items'}
     => Selection' = Selection]_sideVars

\* The row the user sees highlighted is the one that keys act on, through every refresh.
HighlightIsTheTarget == [](ActsOnHighlighted /\ CursorOnItem) /\ RefreshKeepsTarget

=============================================================================
