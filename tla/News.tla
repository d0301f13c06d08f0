-------------------------------- MODULE News --------------------------------
(* The news file and NewsCalendar, whose watcher thread follows it by        *)
(* inotify and SIGHUP while others edit, replace and remove the file.  What  *)
(* is in the file is the number of an edit: RiskManager has the lookups.     *)
EXTENDS Integers

CONSTANTS
    MaxEdits,       \* bound: edits of the file
    MaxHups         \* bound: signals

ASSUME NewsAssumption == MaxEdits \in Nat /\ MaxHups \in Nat

VARIABLES
    file,           \* [inode, edit, valid, open]: the file at the path
    edits,          \* edits so far; each new file takes its number as inode
    watch,          \* the inode the kernel watches, or 0
    alarm,          \* inotify events wait to be read
    hup,            \* [flag, sent]: g_sighup_pending, signals so far
    watcher,        \* what the watcher thread does, or the main thread before
    loaded,         \* the edit whose events are loaded, or 0
    parsed,         \* the edit that the reload under way has read
    missed          \* nobody was told of the last edit

newsVars == <<file, edits, watch, alarm, hup, watcher, loaded, parsed, missed>>

Absent == [inode |-> 0, edit |-> 0, valid |-> FALSE, open |-> FALSE]

NewsInit ==
    /\ \E valid \in BOOLEAN : file = [inode |-> 1, edit |-> 1, valid |-> valid, open |-> FALSE]
    /\ edits = 1 /\ watch = 0 /\ alarm = FALSE /\ hup = [flag |-> FALSE, sent |-> 0]
    /\ watcher = "off" /\ loaded = 0 /\ parsed = 0 /\ missed = FALSE

----------------------------------------------------------------------------
(* The file.  Every change of the watched inode raises an event.            *)

Change(f) ==
    /\ file' = f
    /\ alarm' = (alarm \/ (watch # 0 /\ watch = file.inode))
    /\ missed' = (~alarm' /\ ~hup.flag /\ watcher \notin {"rearm", "reload"})
    /\ UNCHANGED <<hup, watcher, loaded, parsed>>

\* An editor opens the file in place, which empties it, and writes it; or
\* puts another file in its place; or removes it and makes a new one.
OpenInPlace_ ==
    /\ file # Absent /\ ~file.open
    /\ Change([file EXCEPT !.open = TRUE, !.valid = FALSE])
    /\ UNCHANGED <<edits, watch>>

WriteNews ==
    /\ edits < MaxEdits /\ file.open /\ edits' = edits + 1
    /\ \E valid \in BOOLEAN :
          Change([file EXCEPT !.edit = edits + 1, !.valid = valid, !.open = FALSE])
    /\ UNCHANGED watch

Replace ==
    /\ edits < MaxEdits /\ edits' = edits + 1
    /\ \E valid \in BOOLEAN, open \in BOOLEAN :
          Change([inode |-> edits + 1, edit |-> edits + 1, valid |-> valid /\ ~open, open |-> open])
    /\ watch' = IF watch = file.inode THEN 0 ELSE watch

Remove ==
    /\ file # Absent /\ Change(Absent)
    /\ watch' = IF watch = file.inode THEN 0 ELSE watch
    /\ UNCHANGED edits

Hangup ==
    /\ hup.sent < MaxHups /\ watcher \notin {"off", "arms", "never"}
    /\ hup' = [flag |-> TRUE, sent |-> hup.sent + 1]
    /\ missed' = FALSE
    /\ UNCHANGED <<file, edits, watch, alarm, watcher, loaded, parsed>>

----------------------------------------------------------------------------
(* NewsCalendar.                                                            *)

\* parse_ and swap_in_: a file that cannot be parsed leaves the events alone.
Parsed == IF file.valid THEN file.edit ELSE loaded

\* maybe_load_news_: load, which throws unless the file is whole, ...
LoadNews ==
    /\ watcher = "off" /\ file # Absent
    /\ loaded' = Parsed
    /\ watcher' = IF file.valid THEN "arms" ELSE "never"
    /\ missed' = FALSE
    /\ UNCHANGED <<file, edits, watch, alarm, hup, parsed>>

\* ... then start_watching, unless inotify fails.
StartWatching ==
    /\ watcher = "arms" /\ watcher' = "idle"
    /\ watch' \in {0, file.inode}
    /\ UNCHANGED <<file, edits, alarm, hup, loaded, parsed, missed>>

\* watch_loop_: a signal is taken before its reload, ...
TakeHangup ==
    /\ watcher = "idle" /\ hup.flag
    /\ hup' = [hup EXCEPT !.flag = FALSE]
    /\ watcher' = "reload"
    /\ UNCHANGED <<file, edits, watch, alarm, loaded, parsed, missed>>

\* ... and so are events; then the watch is put on what is now at the path.
TakeEvents ==
    /\ watcher = "idle" /\ ~hup.flag /\ alarm
    /\ alarm' = FALSE /\ watcher' = "rearm"
    /\ UNCHANGED <<file, edits, watch, hup, loaded, parsed, missed>>

Rearm ==
    /\ watcher = "rearm" /\ watcher' = "reload"
    /\ watch' = file.inode
    /\ UNCHANGED <<file, edits, alarm, hup, loaded, parsed, missed>>

\* reload: parse, then swap.
Reload ==
    /\ watcher = "reload" /\ watcher' = "swap"
    /\ parsed' = Parsed
    /\ UNCHANGED <<file, edits, watch, alarm, hup, loaded, missed>>

\* Mutant: the signal is put down after the reload.
SwapThenHangup ==
    /\ watcher = "swap" /\ watcher' = "idle"
    /\ loaded' = parsed
    /\ hup' = [hup EXCEPT !.flag = FALSE]
    /\ UNCHANGED <<file, edits, watch, alarm, parsed, missed>>

Swap ==
    /\ watcher = "swap" /\ watcher' = "idle"
    /\ loaded' = parsed
    /\ UNCHANGED <<file, edits, watch, alarm, hup, parsed, missed>>

NewsNext ==
    \/ OpenInPlace_ \/ WriteNews \/ Replace \/ Remove \/ Hangup
    \/ LoadNews \/ StartWatching \/ TakeHangup \/ TakeEvents \/ Rearm \/ Reload \/ Swap

NewsSpec == NewsInit /\ [][NewsNext]_newsVars

----------------------------------------------------------------------------

\* Once the watcher has come to rest, the calendar has the events of the file,
\* if they can be parsed: however it was edited, in place or by a new file,
\* also while the watch was moved.  Only an edit that no watch or signal
\* announced is missed.
CalendarFollows ==
    watcher = "idle" /\ ~alarm /\ ~hup.flag /\ ~missed /\ file.valid => loaded = file.edit
=============================================================================
