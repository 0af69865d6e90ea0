------------------------------ MODULE Settings ------------------------------
(***************************************************************************)
(* The configuration of the client and how it is kept: Config.save,         *)
(* load_or_default and with_overrides (core/config.py).  A configuration is *)
(* one value for every setting; a file is a mapping of settings to what     *)
(* stands there, which may be absent, of the wrong type or out of range.    *)
(* No live code saves: Application.save_config is there for whoever uses    *)
(* the application as a library (the window stores a saver and never calls  *)
(* it, ui/main_window.py:102), and the settings view of the Qt views is     *)
(* opened by the tests only.                                                *)
(***************************************************************************)
EXTENDS Integers, FiniteSets

CONSTANTS
  Sections, \* the names of Config's fields
  Values,   \* values in range, the same for every section
  Default,  \* the value a section has by default
  Built,    \* the sections from_mapping builds from the mapping
  MaxSaves  \* bound on the saves

SettingsAssumption == Default \in Values /\ Built \subseteq Sections /\ MaxSaves \in Nat

Invalid == "invalid"  \* of the wrong type, or out of range, or an unknown key
Absent == "absent"
Broken == [kind |-> "not JSON"]
NotText == [kind |-> "not UTF-8"]
NoFile == [kind |-> "none"]

VARIABLES
  config,   \* Application.config
  launched, \* whether Application.create returned
  file,     \* the configuration file
  temp,     \* the file next to it that save writes first
  saving,   \* whether save has written the temporary file and not renamed it
  begun,    \* saves so far
  kept,     \* history: the configurations a save was begun with
  first     \* history: the file before any save

setVars == <<config, launched, file, temp, saving, begun, kept, first>>

Configs == [Sections -> Values]
Mapping(m) == [kind |-> "mapping", of |-> m]
Defaults == [s \in Sections |-> Default]

-----------------------------------------------------------------------------
(* _build_section and its _pop helpers: a missing key takes the default, and *)
(* a bad one is refused.                                                    *)
Acceptable(m) == \A s \in Built : m[s] # Invalid
Section(m, s) == IF s \in Built /\ m[s] # Absent THEN m[s] ELSE Default

(* from_mapping: the sections it does not build keep their defaults.        *)
FromMapping(m) == [s \in Sections |-> Section(m, s)]

(* load_or_default: a problem means the defaults, but a file that is not    *)
(* text raises UnicodeDecodeError out of load, which it does not catch.     *)
Starts(f) == f # NotText
Loaded(f) == IF f.kind = "mapping" /\ Acceptable(f.of) THEN FromMapping(f.of) ELSE Defaults

(* with_overrides: merge the edits into the mapping of the whole.           *)
Merged(c, over) == [s \in Sections |-> IF over[s] = Absent THEN c[s] ELSE over[s]]

-----------------------------------------------------------------------------
NoEdits == [s \in Sections |-> Absent]

(* A file somebody wrote by hand, or none.                                  *)
Written ==
  {NoFile, Broken, NotText} \cup { Mapping(m) : m \in [Sections -> {Default, Invalid, Absent}] }

(* Loaded, or made by the caller.                                           *)
SettingsInit ==
  /\ file \in Written /\ temp = NoFile
  /\ \/ config = Loaded(file) /\ launched = Starts(file)
     \/ config \in Configs /\ launched = TRUE
  /\ saving = FALSE /\ begun = 0 /\ kept = {} /\ first = file

(* with_overrides, whose result the caller keeps.                           *)
Override(s, v) ==
  /\ launched
  /\ v \in Values /\ config' = FromMapping(Merged(config, [NoEdits EXCEPT ![s] = v]))
  /\ UNCHANGED <<launched, file, temp, saving, begun, kept, first>>

(* Faulty variant: written in place, so that a crash leaves half of it.     *)
SaveBeginInPlace ==
  /\ launched /\ ~saving /\ begun < MaxSaves
  /\ temp' = Mapping(config) /\ file' = Broken /\ saving' = TRUE /\ begun' = begun + 1
  /\ kept' = kept \cup {config}
  /\ UNCHANGED <<config, launched, first>>

(* save: the temporary file, then the rename.                               *)
SaveBegin ==
  /\ launched /\ ~saving /\ begun < MaxSaves
  /\ temp' = Mapping(config) /\ saving' = TRUE /\ begun' = begun + 1
  /\ kept' = kept \cup {config}
  /\ UNCHANGED <<config, launched, file, first>>

SaveEnd ==
  /\ saving /\ saving' = FALSE
  /\ file' = temp /\ temp' = NoFile
  /\ UNCHANGED <<config, launched, begun, kept, first>>

(* The client ends, between any two steps, and is started again; the        *)
(* temporary file may be torn, and nobody reads it.                         *)
Restart ==
  /\ config' = Loaded(file) /\ launched' = Starts(file) /\ saving' = FALSE
  /\ temp' \in {temp} \cup (IF saving THEN {Broken} ELSE {})
  /\ UNCHANGED <<file, begun, kept, first>>

SettingsNext ==
  \/ \E s \in Sections, v \in Values : Override(s, v)
  \/ SaveBegin \/ SaveEnd \/ Restart

SettingsSpec == SettingsInit /\ [][SettingsNext]_setVars

-----------------------------------------------------------------------------
(* Properties.                                                              *)

SettingsTypeOK ==
  /\ config \in Configs /\ {launched, saving} \subseteq BOOLEAN /\ begun \in 0 .. MaxSaves

(* A crash never costs the settings: whenever the client dies, the file is  *)
(* what it was before, or a configuration that a save was begun with        *)
(* (config.py:287, "atomically").                                           *)
SavedOrBefore ==
  file = first \/ \E c \in kept : file = Mapping(c)

(* "assert restored == config" (tests/core/test_config.py:88): what is      *)
(* saved is what is loaded.  False for a section that from_mapping leaves   *)
(* out, which is upload.                                                    *)
SavedIsLoaded == \A c \in kept : Loaded(Mapping(c)) = c

(* "A corrupt file never prevents launch" (config.py:14).  False for a file *)
(* that is not text.                                                        *)
CorruptStillLaunches == launched
=============================================================================
