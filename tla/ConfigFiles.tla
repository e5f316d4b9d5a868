----------------------------- MODULE ConfigFiles -----------------------------
(***************************************************************************)
(* config.toml: which file the daemon's commands take (la-config/paths.rs), *)
(* what they make of it and of the command line and the environment         *)
(* (la-config/source.rs, la-daemon/config_cmd.rs, lad's derive_runtime), and *)
(* the terminal UI, which rewrites the [ui] table of one of these files     *)
(* while the user edits them (la-tui/ui_prefs.rs and the theme picker).      *)
(*                                                                          *)
(* A file is the few things that tell two configurations apart: whether it  *)
(* can be read, whether it parses, one setting of the daemon, whether its sections are acceptable,   *)
(* and the [ui] table.  The chain is that of a Linux host.                   *)
(***************************************************************************)
EXTENDS Naturals, Sequences

CONSTANTS
  MaxEdits     \* bound: edits by the user, with an editor or from another client

VARIABLES
  disk,     \* the file at each place
  host,     \* [xdg, own]: XDG_CONFIG_HOME is set, LAZYAGENTS_CONFIG_HOME is set
  ui,       \* the terminal UI: [at, theme, hints, catalog, original]
  doc,      \* the document a save has in memory
  temp,     \* config.toml.tmp
  typo,     \* history: the user left the UI's file unparsable, or unreadable
  stale,    \* history: the user has edited the file since the save under way read it
  blind,    \* history: the save under way could not read the file that was there
  chosen,   \* history: the theme the user last confirmed, or found at start
  edits

configVars == <<disk, host, ui, doc, temp, typo, stale, blind, chosen, edits>>

\* Files named by --config and LAZYAGENTS_CONFIG, and the places found without them.
Places == {"cli", "env", "xdg", "home", "own"}
Builtin == {"auto", "dark"}
Themes == Builtin \cup {"mine"}
NoFile == [text |-> "none"]
Malformed == [text |-> "malformed"]
\* Not UTF-8, or not permitted: read_to_string fails.
Unreadable == [text |-> "unreadable"]
Broken == {Malformed, Unreadable}
Toml(level, sane, theme, hints, custom) ==
  [text |-> "toml", level |-> level, sane |-> sane, theme |-> theme, hints |-> hints, custom |-> custom]
Empty == Toml("unset", TRUE, "unset", "unset", {})

\* What a user keeps in such a file; listen_tcp makes the last but one unacceptable.
Written ==
  {NoFile, Malformed, Unreadable, Empty, Toml("warn", TRUE, "mine", "rich", {"mine"}),
   Toml("warn", FALSE, "dark", "rich", {}), Toml("debug", TRUE, "gone", "unset", {})}
Named == {NoFile, Malformed, Toml("debug", TRUE, "unset", "unset", {})}

Or(a, b) == IF a = "unset" THEN b ELSE a

Closed == [at |-> "off", theme |-> "auto", hints |-> "rich", catalog |-> Builtin, original |-> "auto"]

\* default_config_path of the terminal UI.
UiPath == IF host.own THEN "own" ELSE IF host.xdg THEN "xdg" ELSE "home"

ConfigInit ==
  /\ host \in {[xdg |-> TRUE, own |-> FALSE], [xdg |-> FALSE, own |-> FALSE], [xdg |-> TRUE, own |-> TRUE]}
  /\ disk \in [Places -> Written \cup Named]
  /\ \A p \in Places :
       disk[p] \in (IF p = UiPath THEN Written ELSE IF p \in {"xdg", "own"} THEN {NoFile} ELSE Named)
  /\ ui = Closed
  /\ doc = Empty /\ temp = NoFile
  /\ typo = (disk[UiPath] \in Broken) /\ stale = FALSE /\ blind = FALSE /\ chosen = "auto" /\ edits = 0

-----------------------------------------------------------------------------
(* The daemon's commands, for a command line and an environment i: which of    *)
(* --config and LAZYAGENTS_CONFIG are given, and the log level of each.         *)

Levels == {<<"unset", "unset">>, <<"unset", "error">>, <<"trace", "error">>, <<"typo", "unset">>}
Invocations == [cli : BOOLEAN, env : BOOLEAN, levels : Levels]

\* build_chain, without the names the invocation gives.
Chain(i) == (IF i.env THEN <<"env">> ELSE <<>>) \o (IF host.xdg THEN <<"xdg">> ELSE <<>>) \o <<"home">>

\* resolve_with: the first that exists, "none" if there is none.
Existing(i) ==
  LET there == {k \in DOMAIN Chain(i) : disk[Chain(i)[k]] # NoFile}
  IN IF there = {} THEN "none" ELSE Chain(i)[CHOOSE k \in there : \A l \in there : k <= l]

\* default_write_target
WriteTarget == "home"

\* The file at a place, once "none" has been ruled out.
At(place) == IF place = "none" THEN NoFile ELSE disk[place]

\* validate_cli_env_enums
EnumsOk(i) == "typo" \notin {i.levels[1], i.levels[2]}

\* validate: the sections, and a theme that is built in or defined in the same file.
Valid(file) == file.sane /\ (Or(file.theme, "auto") \in Builtin \cup file.custom)

\* load_file and validate: no file is fine.
Loads(file) == file \notin Broken /\ (file.text = "toml" => Valid(file))

\* source::resolve, with where the value comes from.
Resolve(cli, env, file, default) ==
  IF cli # "unset" THEN <<cli, "cli">>
  ELSE IF env # "unset" THEN <<env, "env">>
  ELSE IF file # "unset" THEN <<file, "config_file">>
  ELSE <<default, "default">>

\* resolve_daemon_values, of the one value modelled.
DaemonValues(i, file) ==
  Resolve(i.levels[1], i.levels[2], IF file.text = "toml" THEN Or(file.level, "info") ELSE "unset", "info")

\* derive_runtime: the name given, whether it exists or not, then the chain.
StartPath(i) == IF i.cli THEN "cli" ELSE IF i.env THEN "env" ELSE Existing(i)

Failed == <<"failed", "failed">>

\* derive_runtime: what lad start, daemonize, doctor, backup and metrics run with.
Start(i) ==
  LET file == At(StartPath(i))
  IN IF EnumsOk(i) /\ Loads(file) THEN DaemonValues(i, file) ELSE Failed

\* config_cmd::show, which reads the environment's file through the chain.
ShowPath(i) == IF i.cli THEN "cli" ELSE Existing(i)

Show(i) ==
  LET file == At(ShowPath(i))
  IN IF Loads(file) /\ EnumsOk(i) THEN DaemonValues(i, file) ELSE Failed

\* run_config and config_cmd::check: a file that was named has to exist.
CheckPath(i) ==
  IF i.cli THEN "cli" ELSE IF i.env THEN "env"
  ELSE IF Existing(i) # "none" THEN Existing(i) ELSE WriteTarget

Check(i) ==
  LET file == disk[CheckPath(i)]
  IN IF file = NoFile THEN ~(i.cli \/ i.env) ELSE Loads(file)

-----------------------------------------------------------------------------
(* The terminal UI *)

\* parse_custom_theme keeps the entries that make a palette.
Catalog(file) == Builtin \cup (IF file.text = "toml" THEN file.custom ELSE {})

\* ui_prefs::load, with_custom: anything that cannot be read is the default.
Launch ==
  /\ ui.at = "off"
  /\ LET file == disk[UiPath]
         toml == file.text = "toml"
     IN /\ ui' = [at |-> "idle", catalog |-> Catalog(file), original |-> "auto",
                  theme |-> IF toml THEN Or(file.theme, "auto") ELSE "auto",
                  hints |-> IF toml THEN Or(file.hints, "rich") ELSE "rich"]
        /\ chosen' = ui'.theme
  /\ UNCHANGED <<disk, host, doc, temp, typo, stale, blind, edits>>

\* T opens the picker on the active theme.
OpenThemePicker ==
  /\ ui.at = "idle" /\ ui' = [ui EXCEPT !.at = "picker", !.original = ui.theme]
  /\ UNCHANGED <<disk, host, doc, temp, typo, stale, blind, chosen, edits>>

\* ThemePickerDraft::next, prev and preview_picker_theme, some number of times.
Preview(id) ==
  /\ ui.at = "picker" /\ id \in ui.catalog /\ ui' = [ui EXCEPT !.theme = id]
  /\ UNCHANGED <<disk, host, doc, temp, typo, stale, blind, chosen, edits>>

\* Enter: persist, and close.
ConfirmTheme ==
  /\ ui.at = "picker" /\ ui' = [ui EXCEPT !.at = "read", !.original = "auto"] /\ chosen' = ui.theme
  /\ UNCHANGED <<disk, host, doc, temp, typo, stale, blind, edits>>

\* Esc reverts the preview.
CancelTheme ==
  /\ ui.at = "picker" /\ ui' = [ui EXCEPT !.at = "idle", !.theme = ui.original, !.original = "auto"]
  /\ UNCHANGED <<disk, host, doc, temp, typo, stale, blind, chosen, edits>>

\* try_apply_ui_pref: H and C, in any modal but the picker, whose keys are its own.
ToggleHints ==
  /\ ui.at = "idle"
  /\ ui' = [ui EXCEPT !.at = "read", !.hints = IF @ = "rich" THEN "hidden" ELSE "rich"]
  /\ UNCHANGED <<disk, host, doc, temp, typo, stale, blind, chosen, edits>>

-----------------------------------------------------------------------------
(* ui_prefs::save, step by step *)

\* Mutant: the document is built from the preferences alone.
MutRebuilt(file) == Toml("unset", TRUE, ui.theme, ui.hints, {})

\* The [ui] table is rebuilt, its custom themes and the other sections are kept.
Rebuilt(file) ==
  LET base == IF file = NoFile THEN Empty ELSE file
  IN Toml(base.level, base.sane, ui.theme, ui.hints, base.custom)

\* read_to_string, unwrap_or_default: a file that cannot be read, be it for one moment,
\* is taken for an empty one; text that does not parse is refused.
SaveReads ==
  /\ ui.at = "read"
  /\ \E file \in {disk[UiPath], NoFile} \ {Unreadable} :
       IF file = Malformed
       THEN ui' = [ui EXCEPT !.at = "idle"] /\ UNCHANGED <<doc, stale, blind>>
       ELSE /\ ui' = [ui EXCEPT !.at = "write"] /\ doc' = Rebuilt(file)
            /\ stale' = FALSE /\ blind' = (file # disk[UiPath])
  /\ UNCHANGED <<disk, host, temp, typo, chosen, edits>>

\* fs::write truncates the temporary file ...
SaveOpens ==
  /\ ui.at = "write" /\ ui' = [ui EXCEPT !.at = "fill"] /\ temp' = Malformed
  /\ UNCHANGED <<disk, host, doc, typo, stale, blind, chosen, edits>>

\* ... and fills it.
SaveFills ==
  /\ ui.at = "fill" /\ ui' = [ui EXCEPT !.at = "rename"] /\ temp' = doc
  /\ UNCHANGED <<disk, host, doc, typo, stale, blind, chosen, edits>>

SaveRenames ==
  /\ ui.at = "rename" /\ ui' = [ui EXCEPT !.at = "idle"]
  /\ disk' = [disk EXCEPT ![UiPath] = temp] /\ temp' = NoFile /\ doc' = Empty
  /\ typo' = (typo /\ ~stale /\ ~blind) /\ stale' = FALSE /\ blind' = FALSE
  /\ UNCHANGED <<host, chosen, edits>>

\* A full disk, a read-only directory: persist_ui_prefs makes it a toast.  What is left of
\* the temporary file is truncated by the next save.
SaveFails ==
  /\ ui.at \in {"read", "write", "fill", "rename"} /\ ui' = [ui EXCEPT !.at = "idle"]
  /\ doc' = Empty /\ temp' = NoFile /\ stale' = FALSE /\ blind' = FALSE
  /\ UNCHANGED <<disk, host, typo, chosen, edits>>

-----------------------------------------------------------------------------
\* The UI is closed or killed, in the middle of a save perhaps.
Leave ==
  /\ ui.at # "off" /\ ui' = Closed /\ chosen' = "auto" /\ doc' = Empty /\ temp' = NoFile
  /\ stale' = FALSE /\ blind' = FALSE
  /\ UNCHANGED <<disk, host, typo, edits>>

\* The user changes a file, the UI's or one of the chain.
UserEdits(place, file) ==
  /\ edits < MaxEdits /\ edits' = edits + 1
  /\ place \in {UiPath, "home"} /\ file # disk[place]
  /\ disk' = [disk EXCEPT ![place] = file]
  /\ IF place = UiPath
     THEN typo' = (file \in Broken) /\ stale' = (ui.at \in {"write", "fill", "rename"})
     ELSE UNCHANGED <<typo, stale>>
  /\ UNCHANGED <<host, ui, doc, temp, blind, chosen>>

ConfigNext ==
  \/ Launch \/ OpenThemePicker \/ ConfirmTheme \/ CancelTheme \/ ToggleHints
  \/ \E id \in Themes : Preview(id)
  \/ SaveReads \/ SaveOpens \/ SaveFills \/ SaveRenames \/ SaveFails \/ Leave
  \/ \E place \in Places, file \in Written : UserEdits(place, file)

ConfigSpec == ConfigInit /\ [][ConfigNext]_configVars

-----------------------------------------------------------------------------
(* Properties *)

\* Whatever the files have become, a configuration that lad config check accepts is one
\* that lad start accepts, and one that it rejects is rejected, but for a named file that
\* is missing: check fails there and start takes the defaults.
CheckedConfigStarts ==
  \A i \in Invocations :
    EnumsOk(i) => (Check(i) <=> (Start(i) # Failed /\ ((i.cli \/ i.env) => disk[CheckPath(i)] # NoFile)))

\* lad config show tells the value lad start would use, and where it comes from, unless
\* LAZYAGENTS_CONFIG names a missing file: show then goes down the chain.
ShownIsUsed ==
  \A i \in Invocations : i.cli \/ ~i.env \/ disk["env"] # NoFile => Show(i) = Start(i)

\* The file of the UI is broken only if the user left it so, wherever a save was cut
\* off, and stays so until the user repairs it: a save refuses what does not parse.  Two
\* kinds of save replace it nonetheless: one that had read the file before the user broke
\* it, and one that could not read it and took it for an empty file, which replaces
\* unreadable text, and text of any kind after a read error that passes.
SaveKeepsText == typo <=> disk[UiPath] \in Broken

\* A save changes nothing of what the daemon's commands start with, unless the file was edited
\* under it, could not be read, was not there and now hides the next one of the chain, or
\* no longer defines the theme that the UI still shows.
SaveIsQuiet ==
  [][SaveRenames =>
       \/ stale
       \/ blind
       \/ disk[UiPath] = NoFile
       \/ ui.theme \notin Builtin \cup temp.custom
       \/ \A i \in Invocations : Start(i) # Failed => Start(i)' = Start(i)]_configVars

\* A theme that was only previewed is never written, nor kept once the picker is closed.
PreviewIsNotKept ==
  /\ ui.at \in {"idle", "read"} => ui.theme = chosen
  /\ ui.at \in {"write", "fill", "rename"} => doc.theme = chosen

\* The UI, the user and the daemon's commands share one file without surprising each other.
ConfigIsShared ==
  [](CheckedConfigStarts /\ ShownIsUsed /\ SaveKeepsText /\ PreviewIsNotKept) /\ SaveIsQuiet

=============================================================================
