------------------------------- MODULE Settings -------------------------------
(***************************************************************************)
(* CConfig (Common/Config), CConfigModule and CConfigReloadModule          *)
(* (ServerCore/Infra): a file edited by somebody else, the values taken    *)
(* from it, and the timer that looks whether its modification time has     *)
(* changed.  LoadFile reads the file and asks for its time in two steps.   *)
(***************************************************************************)
EXTENDS Integers

CONSTANTS
    ConfigKeys,   \* "section.name"
    KeysIn(_),    \* the keys that the n-th content of the file has
    MaxEdits      \* bound: contents the file has had

ASSUME SettingsAssumption == MaxEdits \in Nat /\ \A n \in 0..MaxEdits : KeysIn(n) \subseteq ConfigKeys

VARIABLES
    file,      \* content (a number), mtime, there
    config,    \* values (m_mapValues: the content a key came from, NoValue), path (m_strFilePath set), mtime
    loading,   \* at: "idle", "read", "stamp"; by: LoadFile or the reload; parsed: the content read
    reload,    \* running (the CConfigReloadModule); history: known, the content last loaded by
               \* the owner or announced by an event, and late, an event after Stop
    excused    \* history: why the values may differ from the file

configVars == <<file, config, loading, reload, excused>>

NoValue == -1
FromText == 0                    \* values given by Parse
Empty == [k \in ConfigKeys |-> NoValue]
ValuesOf(n) == [k \in ConfigKeys |-> IF k \in KeysIn(n) THEN n ELSE NoValue]

\* std::map::insert: a key that is there keeps its value.
Inserted(values, new) == [k \in ConfigKeys |-> IF values[k] # NoValue THEN values[k] ELSE new[k]]

FileMtime == IF file.there THEN file.mtime ELSE 0

-------------------------------------------------------------------------------
\* Parse of a text: its values stay in front of those of a file loaded later.
ConfigParse ==
    /\ loading.at = "idle" /\ ~reload.running
    /\ config' = [config EXCEPT !.values = Inserted(@, ValuesOf(FromText))]
    /\ excused' = excused \cup {"merged"}
    /\ UNCHANGED <<file, loading, reload>>

ConfigLoadFile ==
    /\ loading.at = "idle" /\ ~reload.running
    /\ loading' = [at |-> "read", by |-> "load", parsed |-> 0]
    /\ excused' = IF config.values = Empty THEN excused ELSE excused \cup {"merged"}
    /\ UNCHANGED <<file, config, reload>>

\* Mutant: the old values are not cleared.
ReloadIfChangedKeeps ==
    /\ loading.at = "idle" /\ reload.running /\ config.path
    /\ FileMtime # config.mtime
    /\ loading' = [at |-> "read", by |-> "reload", parsed |-> 0]
    /\ excused' = (excused \ {"merged"}) \cup {"emptied"}
    /\ UNCHANGED <<file, config, reload>>

\* The timer's CheckReload: the values go first, then the file is loaded.
ReloadIfChanged ==
    /\ loading.at = "idle" /\ reload.running /\ config.path
    /\ FileMtime # config.mtime
    /\ config' = [config EXCEPT !.values = Empty]
    /\ loading' = [at |-> "read", by |-> "reload", parsed |-> 0]
    /\ excused' = (excused \ {"merged"}) \cup {"emptied"}
    /\ UNCHANGED <<file, reload>>

\* ini_parse: a missing file fails, and so may one that is half written.
LoadFileReads ==
    /\ loading.at = "read"
    /\ \/ /\ file.there
          /\ config' = [config EXCEPT !.values = Inserted(@, ValuesOf(file.content)), !.path = TRUE]
          /\ loading' = [loading EXCEPT !.at = "stamp", !.parsed = file.content]
          /\ excused' = excused \ {"emptied", "sameStamp", "torn"}
       \/ /\ loading' = [loading EXCEPT !.at = "idle"]
          /\ UNCHANGED <<config, excused>>
    /\ UNCHANGED <<file, reload>>

\* FileMtime, and the event of a reload that succeeded.
LoadFileStamps ==
    /\ loading.at = "stamp"
    /\ config' = [config EXCEPT !.mtime = FileMtime]
    /\ loading' = [loading EXCEPT !.at = "idle"]
    /\ reload' = [reload EXCEPT !.known = loading.parsed,
                                !.late = @ \/ (loading.by = "reload" /\ ~reload.running)]
    /\ UNCHANGED <<file, excused>>

ConfigClear ==
    /\ loading.at = "idle" /\ ~reload.running /\ config.path
    /\ config' = [values |-> Empty, path |-> FALSE, mtime |-> 0]
    /\ excused' = {}
    /\ UNCHANGED <<file, loading, reload>>

\* CConfigReloadModule: the timer starts; Stop joins its thread, so it waits for a check.
ReloadModuleStart ==
    /\ ~reload.running /\ loading.at = "idle"
    /\ reload' = [reload EXCEPT !.running = TRUE]
    /\ UNCHANGED <<file, config, loading, excused>>

ReloadModuleStop ==
    /\ reload.running /\ loading.at = "idle"
    /\ reload' = [reload EXCEPT !.running = FALSE]
    /\ UNCHANGED <<file, config, loading, excused>>

(***************************************************************************)
(* The owner of the file: an edit in the same second keeps the time.       *)
(***************************************************************************)
EditFile ==
    /\ file.content < MaxEdits
    /\ \E t \in {file.mtime, file.mtime + 1} :
         /\ file' = [content |-> file.content + 1, mtime |-> t, there |-> TRUE]
         /\ excused' = excused \cup (IF t = file.mtime THEN {"sameStamp"} ELSE {})
                               \cup (IF loading.at = "stamp" THEN {"torn"} ELSE {})
    /\ UNCHANGED <<config, loading, reload>>

\* Moved away, and moved back with its content and its time.
MoveFile ==
    /\ file' = [file EXCEPT !.there = ~@]
    /\ UNCHANGED <<config, loading, reload, excused>>

-------------------------------------------------------------------------------
ConfigInit ==
    /\ file = [content |-> 1, mtime |-> 1, there |-> TRUE]
    /\ config = [values |-> Empty, path |-> FALSE, mtime |-> 0]
    /\ loading = [at |-> "idle", by |-> "load", parsed |-> 0]
    /\ reload = [running |-> FALSE, known |-> 0, late |-> FALSE]
    /\ excused = {}

ConfigNext ==
    \/ ConfigParse \/ ConfigLoadFile \/ ReloadIfChanged \/ LoadFileReads \/ LoadFileStamps
    \/ ConfigClear \/ ReloadModuleStart \/ ReloadModuleStop \/ EditFile \/ MoveFile

ConfigSpec == ConfigInit /\ [][ConfigNext]_configVars

(***************************************************************************)
(* Properties.                                                             *)
(***************************************************************************)

\* Unless a file or a text was loaded over values that were there (the values that
\* were there stay then), the values come from one content of the file: a reload
\* never leaves a key of an older content beside those of a newer one, whatever
\* edits fall between its steps.
OneContent ==
    "merged" \notin excused => \A j, k \in ConfigKeys : NoValue \in {config.values[j], config.values[k]}
                                 \/ config.values[j] = config.values[k]

\* When the recorded time is that of the file, a check finds nothing to do: the
\* values are then those of the file, unless it was edited twice in a second or
\* between the read and the look at its time, or it came back with its old time
\* after a reload had found it gone (the values stay empty then).
QuietMeansFresh ==
    loading.at = "idle" /\ config.path /\ file.there /\ FileMtime = config.mtime /\ excused = {}
      => config.values = ValuesOf(file.content)

\* Between loads the values are those the owner loaded, or the last event announced,
\* or none at all; no event comes after Stop.
EventFollowsReload ==
    /\ ~reload.late
    /\ loading.at = "idle" /\ config.path /\ "merged" \notin excused
         => config.values \in {ValuesOf(reload.known), Empty}

\* What Config.h says of LoadFile: loads are merged, and a later one overrides an
\* earlier one.
LaterLoadOverrides ==
    loading.at = "stamp" => \A k \in KeysIn(loading.parsed) : config.values[k] = loading.parsed

\* The invariant of the configuration.
ConfigInv == OneContent /\ QuietMeansFresh /\ EventFollowsReload
=============================================================================
