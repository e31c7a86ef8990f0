----------------------------- MODULE ConfigFile -----------------------------
(***************************************************************************)
(* The configuration file: what a start reads from it, in the old format   *)
(* of lines or as JSON, how old options are upgraded, and how it is saved. *)
(* A save truncates the file before it writes it, and the program or the   *)
(* system can end in between.                                              *)
(*                                                                         *)
(* One option stands for each kind of value and for each option with a     *)
(* rule of its own.                                                        *)
(***************************************************************************)
EXTENDS Naturals, Sequences, SequencesExt

CONSTANTS OldFiles,      \* the files another version, or a person, has left
          NewValues,     \* the records of options that the pages set
          HasMonitors,   \* the system can capture a monitor
          MaxSaves       \* bound on the saves

Version == 3

VARIABLES configFile,          \* the file: format, the options it has, their values
          phase,         \* where the program is
          memory,        \* the configuration of the running program
          written,       \* the configuration of the last save: NoConfig before
                         \* the first one, Lost when it was interrupted
          saves

configVars == <<configFile, phase, memory, written, saves>>

Options == {"version", "area", "organize", "in_folder", "startup", "fps", "hotkey", "tracks"}
Phases == {"ended", "starting", "running"}

\* The pages set every option, and none to what is only upgraded.
ASSUME ConfigAssumption ==
    /\ \A f \in OldFiles : f.format \in {"absent", "empty", "lines", "json"}
    /\ \A c \in NewValues : c = [o \in Options |-> c[o]] /\ c.startup # "turn_on_at_fullscreen"

\* A file holds some options; a value in "bad" is not of the option's kind.
File(format, values, has, bad) == [format |-> format, values |-> values, has |-> has, bad |-> bad]

\* Config::Config: the default area depends on what can be captured, which
\* main does not ask for.
Default(monitors) ==
    [version |-> Version, area |-> IF monitors THEN "focused_monitor" ELSE "screen",
     organize |-> "no", in_folder |-> FALSE, startup |-> "dont_turn_on_automatically",
     fps |-> 60, hotkey |-> "alt_f9", tracks |-> <<"default_output">>]

Empty == File("empty", Default(FALSE), {}, {})
NoConfig == [none |-> TRUE]
Lost == [lost |-> TRUE]

-----------------------------------------------------------------------------
\* parse_config_legacy_format: a bad number is 0 and a bad hotkey is none,
\* and the tracks are what the lines of the file add to an empty list.
LegacyRead(f, monitors) ==
    [o \in Options |->
        CASE o = "tracks"              -> IF o \in f.has \ f.bad THEN f.values.tracks ELSE <<>>
          [] o = "fps" /\ o \in f.bad    -> 0
          [] o = "hotkey" /\ o \in f.bad -> ""
          [] o \in f.has               -> f.values[o]
          [] OTHER                     -> Default(monitors)[o]]

\* parse_config_json: a bad value leaves the default.
JsonRead(f, monitors) ==
    [o \in Options |-> IF o \in f.has \ f.bad THEN f.values[o] ELSE Default(monitors)[o]]

\* Faulty variant: what was parsed of a broken file is used.
ReadConfigBroken(f, monitors) ==
    CASE f.format = "absent"            -> NoConfig
      [] f.format \in {"lines", "empty"} -> LegacyRead(f, monitors)
      [] OTHER                          -> JsonRead(f, monitors)

\* read_config: an empty file has the old format; a broken one is not read.
ReadConfig(f, monitors) ==
    CASE f.format \in {"absent", "broken"} -> NoConfig
      [] f.format \in {"lines", "empty"}   -> LegacyRead(f, monitors)
      [] f.format = "json"                 -> JsonRead(f, monitors)

\* upgrade_deprecated_config_options.
NeedsUpgrade(c) == c.startup = "turn_on_at_fullscreen" \/ c.version < Version
Upgraded(c) ==
    [c EXCEPT !.startup = IF @ = "turn_on_at_fullscreen" THEN "turn_on_at_game_launch" ELSE @,
              !.organize = IF c.version < Version /\ c.in_folder THEN "yes" ELSE @,
              !.version = IF NeedsUpgrade(c) THEN Version ELSE @]

\* What is in the file when a save of c ends: all of it, or, when the program
\* or the disk gave up, a part, nothing, or the file before it was opened.
SaveResults(c) ==
    {File("json", c, Options, {}), Empty, configFile} \cup
    {File("broken", c, has, {}) : has \in {{"version", "area"}, Options \ {"tracks"}}}

\* save_config, with the outcome of file_overwrite.
Save(c, phaseAfter) ==
    /\ memory' = [c EXCEPT !.version = Version]
    /\ configFile' \in SaveResults(memory')
    /\ written' = IF configFile' = File("json", memory', Options, {}) THEN memory'
                  ELSE IF configFile' = configFile THEN written ELSE Lost
    /\ phase' \in {phaseAfter, "ended"}

\* The configuration of a start: a file that is not read leaves c alone.
ReadInto(c, monitors, phaseAfter) ==
    LET read == ReadConfig(configFile, monitors)
    IN  IF read = NoConfig
          THEN memory' = c /\ phase' = phaseAfter /\ UNCHANGED <<configFile, written, saves>>
          ELSE IF NeedsUpgrade(read) THEN Save(Upgraded(read), phaseAfter) /\ UNCHANGED saves
          ELSE memory' = read /\ phase' = phaseAfter /\ UNCHANGED <<configFile, written, saves>>

-----------------------------------------------------------------------------
ConfigInit ==
    /\ configFile \in OldFiles /\ phase = "ended" /\ memory = Default(HasMonitors)
    /\ written = NoConfig /\ saves = 0

\* main reads the file for the language, before it knows the system.
ReadLanguage == phase = "ended" /\ ReadInto(memory, FALSE, "starting")

\* Overlay::Overlay.
ReadAtStart == phase = "starting" /\ ReadInto(Default(HasMonitors), HasMonitors, "running")

\* Overlay::reload_config, by a command.
ReloadConfig == phase = "running" /\ ReadInto(memory, HasMonitors, "running")

\* A page is left: save_config with the values of its controls.
ChangeAndSave ==
    /\ phase = "running" /\ saves < MaxSaves /\ saves' = saves + 1
    /\ \E c \in NewValues : Save([c EXCEPT !.version = memory.version], "running")

\* The program ends, or is killed, while it saves nothing.
End ==
    /\ phase \in {"starting", "running"} /\ phase' = "ended"
    /\ UNCHANGED <<configFile, memory, written, saves>>

ConfigNext == ReadLanguage \/ ReadAtStart \/ ReloadConfig \/ ChangeAndSave \/ End

ConfigSpec == ConfigInit /\ [][ConfigNext]_configVars

-----------------------------------------------------------------------------
\* A start reads the configuration of the last complete save, whatever old
\* file came before it; after a save that was interrupted it has the defaults
\* as a whole, with or without their audio track, and never a mixture of the
\* two (src/src/Config.cpp, read_config and save_config).
RestartIsWhole ==
    [][ReadAtStart =>
        CASE written = NoConfig -> TRUE
          [] written = Lost ->
                memory' \in {Default(HasMonitors), [Default(HasMonitors) EXCEPT !.tracks = <<>>]}
          [] OTHER -> memory' = written]_configVars
=============================================================================
