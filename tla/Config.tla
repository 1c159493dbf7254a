------------------------------- MODULE Config -------------------------------
(***************************************************************************)
(* The settings: a record in memory, a file, the requests that change and  *)
(* save them, and the monitor that loads the file again when its time is   *)
(* not the one it knows.  One setting of each sort stands for all: the     *)
(* port, a number with a range, the log level, the two buttons and a text. *)
(***************************************************************************)
EXTENDS Integers

CONSTANTS
  Buttons,      \* names cr_hotkey_button_value() knows
  DefaultA, DefaultB,
  NotAButton,
  Edits,        \* bound: the files another program may leave
  MaxTime       \* bound: seconds

ASSUME ConfigAssumption ==
  /\ {DefaultA, DefaultB} \subseteq Buttons /\ DefaultA # DefaultB
  /\ NotAButton \notin Buttons
  /\ MaxTime \in Nat

VARIABLES
  cfg,        \* g_cfg
  stored,     \* what the file says
  time,       \* [now, stored, known]: the clock, st_mtime and g_cfg_mtime
  loading,    \* the monitor: idle, found a change, has read and not yet asked the time
  outside,    \* history: the file was changed by another program and not read since
  unsaved     \* history: a change is in memory only

configVars == <<cfg, stored, time, loading, outside, unsaved>>

\* Values of a number: 0 and Default are in every range; Wide only in the
\* range config_load() checks; Bad in none.
Default == 1
Wide == 2
Bad == 3
Numbers == {0, Default, Wide, Bad}
Levels == {"debug", "info"}

\* The text of the theme is whatever a request says: the default or another line,
\* one with blanks around it, or two lines of which the second is a setting (there
\* is room for the port).
Themes == {"midnight", "plain", "spaced", "split"}

Settings ==
  [port : {0, 1}, number : Numbers, level : Levels, a : Buttons, b : Buttons, theme : Themes]
ConfigFiles ==
  [port : {0, 1}, number : Numbers, level : Levels,
   a : Buttons \cup {NotAButton}, b : Buttons \cup {NotAButton}, theme : Themes]

ASSUME EditsAssumption == Edits \subseteq ConfigFiles

Defaults == [port |-> 0, number |-> Default, level |-> "debug", a |-> DefaultA, b |-> DefaultB,
             theme |-> "midnight"]

\* A line of the file is read up to its end, without the blanks around its value.
Trimmed(t) == IF t \in {"spaced", "split"} THEN "plain" ELSE t

\* config_load(), line by line: an unknown button leaves the default, a level in
\* the file is passed over, and the theme is the last line unless it is two.
Read(f) ==
  [port |-> IF f.theme = "split" THEN 1 ELSE f.port, number |-> f.number, level |-> "debug",
   theme |-> Trimmed(f.theme),
   a |-> IF f.a \in Buttons THEN f.a ELSE DefaultA,
   b |-> IF f.b \in Buttons THEN f.b ELSE DefaultB]

\* Numbers out of range and equal buttons go back to defaults.
Checked(s) ==
  [s EXCEPT !.number = IF s.number = Bad THEN 0 ELSE s.number,
            !.a = IF s.a = s.b THEN DefaultA ELSE s.a,
            !.b = IF s.a = s.b THEN DefaultB ELSE s.b]

Loaded(f) == Checked(Read(f))

ConfigInit ==
  /\ stored = Defaults /\ cfg = Defaults
  /\ time = [now |-> 0, stored |-> 0, known |-> 0]
  /\ loading = "idle"
  /\ outside = FALSE /\ unsaved = FALSE

-----------------------------------------------------------------------------
\* config_save_locked(): the whole record, through a temporary file, or nothing.
\* The monitor's time is not told.
SaveLocked ==
  \/ /\ stored' = cfg' /\ time' = [time EXCEPT !.stored = time.now]
     /\ outside' = FALSE /\ unsaved' = FALSE
  \/ unsaved' = TRUE /\ UNCHANGED <<stored, time, outside>>

\* Requests wait for g_cfg_lock, which a load holds to its end.
Unlocked == loading # "read"

SetNumber(v) ==
  /\ Unlocked /\ cfg' = [cfg EXCEPT !.number = IF v \in {Wide, Bad} THEN Default ELSE v]
  /\ SaveLocked /\ UNCHANGED loading

SetLevel(l) ==
  /\ Unlocked /\ cfg' = [cfg EXCEPT !.level = l]
  /\ SaveLocked /\ UNCHANGED loading

\* Mutant of SetButton: the two buttons are not compared.
SetButtonAlone(v) ==
  /\ Unlocked /\ v \in Buttons
  /\ cfg' = [cfg EXCEPT !.a = v] \/ cfg' = [cfg EXCEPT !.b = v]
  /\ SaveLocked /\ UNCHANGED loading

\* An unknown button, or the other one, is refused.
SetButton(v) ==
  /\ Unlocked /\ v \in Buttons
  /\ \/ v # cfg.b /\ cfg' = [cfg EXCEPT !.a = v]
     \/ v # cfg.a /\ cfg' = [cfg EXCEPT !.b = v]
  /\ SaveLocked /\ UNCHANGED loading

\* Any text is kept as it is, and written as it is.
SetTheme(t) ==
  /\ Unlocked /\ cfg' = [cfg EXCEPT !.theme = t]
  /\ SaveLocked /\ UNCHANGED loading

\* A reset keeps the port.
Reset ==
  /\ Unlocked /\ cfg' = [Defaults EXCEPT !.port = cfg.port]
  /\ SaveLocked /\ UNCHANGED loading

\* The file is replaced from outside.
Edit ==
  /\ ~outside /\ stored' \in Edits
  /\ time' = [time EXCEPT !.stored = time.now] /\ outside' = TRUE
  /\ UNCHANGED <<cfg, loading, unsaved>>

ClockTicks ==
  /\ time.now < MaxTime /\ time' = [time EXCEPT !.now = @ + 1]
  /\ UNCHANGED <<cfg, stored, loading, outside, unsaved>>

\* config_check_reload(): the time of the file is not the one that is known.
FindChange ==
  /\ loading = "idle" /\ time.stored # time.known /\ loading' = "found"
  /\ UNCHANGED <<cfg, stored, time, outside, unsaved>>

\* config_load() takes the lock, reads, and asks for the file's time last.
Reload ==
  /\ loading = "found" /\ loading' = "read"
  /\ cfg' = Loaded(stored) /\ outside' = FALSE /\ unsaved' = FALSE
  /\ UNCHANGED <<stored, time>>

KnowTime ==
  /\ loading = "read" /\ loading' = "idle"
  /\ time' = [time EXCEPT !.known = time.stored]
  /\ UNCHANGED <<cfg, stored, outside, unsaved>>

\* The daemon starts: the file is loaded, or created if there is none.
DaemonStarts ==
  /\ loading' = "idle" /\ unsaved' = FALSE /\ outside' = FALSE
  /\ \/ cfg' = Loaded(stored) /\ time' = [time EXCEPT !.known = time.stored] /\ UNCHANGED stored
     \/ /\ cfg' = Defaults /\ stored' = Defaults
        /\ time' = [time EXCEPT !.stored = time.now, !.known = 0]

User ==
  \/ \E v \in Numbers : SetNumber(v)
  \/ \E l \in Levels : SetLevel(l)
  \/ \E t \in Themes : SetTheme(t)
  \/ \E v \in Buttons \cup {NotAButton} : SetButton(v)
  \/ Reset

ConfigNext == User \/ Edit \/ ClockTicks \/ FindChange \/ Reload \/ KnowTime \/ DaemonStarts

-----------------------------------------------------------------------------
\* The types of the settings, the file and the times.
ConfigTypeOK ==
  /\ cfg \in Settings /\ stored \in ConfigFiles
  /\ time \in [now : 0..MaxTime, stored : 0..MaxTime, known : 0..MaxTime]
  /\ loading \in {"idle", "found", "read"}

NoLevel(s) == [s EXCEPT !.level = "debug"]

\* What a request has set and saved is what the next load gives, so that the
\* reload that follows every save changes nothing, and the two buttons always
\* differ: the checks of the requests and of the file agree.  Excepted are the
\* level, which a load resets, and a theme that is not one trimmed line: its blanks
\* go, and with a theme of two lines another setting changes (cr_config.c:152).
SavedIsLoaded ==
  /\ ~outside /\ ~unsaved /\ cfg.theme # "split" =>
       NoLevel([cfg EXCEPT !.theme = Trimmed(cfg.theme)]) = NoLevel(Loaded(stored))
  /\ cfg.a # cfg.b
=============================================================================
