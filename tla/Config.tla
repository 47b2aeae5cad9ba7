------------------------------- MODULE Config -------------------------------
(***************************************************************************)
(* What searchd takes for its settings (internal/config/config.go): the    *)
(* defaults, overridden line by line by a file of the form                 *)
(*     section:                                                            *)
(*       name: value                                                       *)
(* and then by the environment, and validated.                             *)
(*                                                                         *)
(* A file is a sequence of lines.  A line that ends in its colon is a      *)
(* section, whatever it was meant to be, so a name without a value is one. *)
(* Comments and blank lines do nothing and are left out.  Values are what  *)
(* their texts stand for; one that does not parse as the number or the     *)
(* duration a setting wants is Junk to it, and keeps what was set before.  *)
(***************************************************************************)
EXTENDS Integers, Sequences, SequencesExt, FiniteSetsExt

CONSTANTS
    Names,      \* of sections and settings
    Values,     \* behind a colon or in the environment
    Default,    \* setting <<section, name>> -> its value in Default()
    Parsed,     \* the settings that are numbers or durations
    FromEnv,    \* those the environment can give
    Junk,       \* parsed setting -> values that do not parse
    Short,      \* keys of less than 24 characters
    Empty,      \* no value behind the colon
    Garbled,    \* a line without a colon
    Unset,      \* no such environment variable
    Refused     \* no configuration

Settings == DOMAIN Default
Limits == {<<"limits", "max_fields">>, <<"limits", "max_bulk_items">>,
           <<"limits", "search_concurrency">>}
Line == [name: Names, value: Values \cup {Empty}] \cup {Garbled}

ASSUME ConfigAssumption ==
    /\ Default \in [Settings -> Values]
    /\ Limits \subseteq Parsed /\ Parsed \subseteq Settings
    /\ FromEnv \subseteq Settings \ Parsed
    /\ Junk \in [Parsed -> SUBSET Values]
    /\ \A s \in Limits : Default[s] \in Int /\ Values \ Junk[s] \subseteq Int

(* Underscored names are the code with a plausible mistake in it; no       *)
(* specification uses them.  They measure what the properties notice.      *)

(* apply: unknown settings and unparsable values change nothing.           *)
Apply(config, setting, value) ==
    IF setting \notin Settings \/ (setting \in Parsed /\ value \in Junk[setting]) THEN config
    ELSE [config EXCEPT ![setting] = value]

ReadLine_SectionOnce(state, line) ==
    IF line = Garbled THEN [state EXCEPT !.ok = FALSE]
    ELSE IF line.value = Empty /\ state.section = "" THEN [state EXCEPT !.section = line.name]
    ELSE [state EXCEPT !.config = Apply(@, <<state.section, line.name>>, line.value)]

(* One turn of Load's loop; a garbled line ends it with an error.          *)
ReadLine(state, line) ==
    IF line = Garbled THEN [state EXCEPT !.ok = FALSE]
    ELSE IF line.value = Empty THEN [state EXCEPT !.section = line.name]
    ELSE [state EXCEPT !.config = Apply(@, <<state.section, line.name>>, line.value)]

ReadFile(file) ==
    LET after[n \in 0..Len(file)] ==
          IF n = 0 THEN [ok |-> TRUE, section |-> "", config |-> Default]
          ELSE ReadLine(after[n - 1], file[n])
    IN  after[Len(file)]

ApplyEnv(config, env) ==
    [s \in Settings |-> IF s \in FromEnv /\ env[s] # Unset THEN env[s] ELSE config[s]]

Validate_NoLimits(config) ==
    /\ config[<<"http", "address">>] # "" /\ config[<<"storage", "wal_path">>] # ""
    /\ config[<<"security", "cursor_signing_key">>] \notin Short

Validate(config) ==
    /\ config[<<"http", "address">>] # "" /\ config[<<"storage", "wal_path">>] # ""
    /\ config[<<"security", "cursor_signing_key">>] \notin Short
    /\ \A s \in Limits : config[s] >= 1

Load(file, env) ==
    LET read == ReadFile(file)
        config == ApplyEnv(read.config, env)
    IN  IF read.ok /\ Validate(config) THEN config ELSE Refused
-----------------------------------------------------------------------------
(* What a reader of the file expects: a setting is what the environment    *)
(* says, or the last line that names it in its section and can be read, or *)
(* the default.                                                            *)
Section(file, i) ==
    LET headers == {j \in 1..(i - 1) : file[j].value = Empty}
    IN  IF headers = {} THEN "" ELSE file[Max(headers)].name

Intended(file, env) ==
    [s \in Settings |->
       LET lines == {i \in DOMAIN file : /\ <<Section(file, i), file[i].name>> = s
                                         /\ file[i].value # Empty
                                         /\ s \in Parsed => file[i].value \notin Junk[s]}
       IN  IF s \in FromEnv /\ env[s] # Unset THEN env[s]
           ELSE IF lines = {} THEN Default[s] ELSE file[Max(lines)].value]
=============================================================================
