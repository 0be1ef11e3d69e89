---------------------------- MODULE ServicesProofs ----------------------------
(***************************************************************************)
(* Proofs about the services that share no state: the configuration        *)
(* (module Settings) and the logger (module LogFile), for every number of  *)
(* edits and of lines, any keys, threads, limits and backups; the          *)
(* reference count (module RefObject), for any threads; the dispatcher,    *)
(* for any types and publishers, and the file store, for any tenants,      *)
(* codes and sizes.                                                        *)
(***************************************************************************)
EXTENDS Settings, LogFile, RefObject, EventDispatcher, FileStore, FiniteSetTheorems, SequenceTheorems, TLAPS

(***************************************************************************)
(* The configuration.                                                      *)
(***************************************************************************)

\* Every variable keeps its type, and no time is recorded that the file has not had.
ConfigTypes ==
    /\ file \in [content : Nat, mtime : Nat, there : BOOLEAN]
    /\ config \in [values : [ConfigKeys -> Nat \cup {NoValue}], path : BOOLEAN, mtime : Nat]
    /\ loading \in [at : {"idle", "read", "stamp"}, by : {"load", "reload"}, parsed : Nat]
    /\ reload \in [running : BOOLEAN, known : Nat, late : BOOLEAN]
    /\ config.mtime <= file.mtime

\* Where the values come from, unless a file was loaded over others: there are
\* none before the file is read, they are those just read before its time is
\* asked for, and those of the last load, or none, between loads.
ValuesInv ==
    "merged" \notin excused =>
      /\ loading.at = "read" => config.values = Empty
      /\ loading.at = "stamp" => config.values = ValuesOf(loading.parsed)
      /\ loading.at = "idle" => config.values \in {ValuesOf(reload.known), Empty}

\* What is known of the file: what was just read is its content if no edit fell
\* before the look at its time; later, what was loaded last is, or its time is a
\* newer one.
FreshInv ==
    /\ loading.at = "stamp" /\ "torn" \notin excused => loading.parsed = file.content
    /\ loading.at # "stamp" /\ config.path /\ "merged" \notin excused /\ "emptied" \notin excused
         => config.values = ValuesOf(reload.known)
    /\ loading.at # "stamp" /\ config.path /\ excused = {}
         => reload.known = file.content \/ config.mtime < file.mtime

\* A reload is under way only while its module runs, so no event came after Stop.
ReloadInv ==
    /\ ~reload.late
    /\ loading.at # "idle" /\ loading.by = "reload" => reload.running

\* The inductive invariant of the configuration.
ConfigIInv == ConfigTypes /\ ValuesInv /\ FreshInv /\ ReloadInv

-------------------------------------------------------------------------------
\* A content inserted into an empty configuration gives its values.
LEMMA InsertIntoEmpty == \A n : Inserted(Empty, ValuesOf(n)) = ValuesOf(n)
BY DEF Inserted, Empty, ValuesOf

\* The values are of one content: a key has its number or no value.
LEMMA OneValue ==
    /\ \A n, k : k \in ConfigKeys => ValuesOf(n)[k] \in {n, NoValue} /\ Empty[k] = NoValue
    /\ \A n \in Nat : ValuesOf(n) \in [ConfigKeys -> Nat \cup {NoValue}]
    /\ Empty \in [ConfigKeys -> Nat \cup {NoValue}]
    /\ \A v, w \in [ConfigKeys -> Nat \cup {NoValue}] :
         Inserted(v, w) \in [ConfigKeys -> Nat \cup {NoValue}]
BY DEF Inserted, ValuesOf, Empty

\* The initial state.
LEMMA ConfigInitHolds == ConfigInit => ConfigIInv
<1> SUFFICES ASSUME ConfigInit PROVE ConfigIInv
  OBVIOUS
<1>1. ConfigTypes
  BY OneValue DEF ConfigInit, ConfigTypes
<1>2. ValuesInv /\ FreshInv /\ ReloadInv
  BY DEF ConfigInit, ValuesInv, FreshInv, ReloadInv
<1> QED BY <1>1, <1>2 DEF ConfigIInv

\* Parse, LoadFile and Clear, called by the owner while no reload runs.
LEMMA OwnerKeeps ==
    ASSUME ConfigIInv, ConfigParse \/ ConfigLoadFile \/ ConfigClear
    PROVE  ConfigIInv'
<1>1. CASE ConfigParse
  <2>1. ConfigTypes'
    <3>1. ValuesOf(FromText) \in [ConfigKeys -> Nat \cup {NoValue}]
      BY OneValue DEF FromText
    <3>2. Inserted(config.values, ValuesOf(FromText)) \in [ConfigKeys -> Nat \cup {NoValue}]
      BY <3>1, OneValue DEF ConfigIInv, ConfigTypes
    <3> QED BY <1>1, <3>2 DEF ConfigParse, ConfigIInv, ConfigTypes
  <2>2. ValuesInv' /\ FreshInv' /\ ReloadInv'
    BY <1>1 DEF ConfigParse, ConfigIInv, ConfigTypes, ValuesInv, FreshInv, ReloadInv
  <2> QED BY <2>1, <2>2 DEF ConfigIInv
<1>2. CASE ConfigLoadFile
  <2>1. ConfigTypes'
    BY <1>2 DEF ConfigLoadFile, ConfigIInv, ConfigTypes
  <2>2. ValuesInv' /\ FreshInv' /\ ReloadInv'
    BY <1>2 DEF ConfigLoadFile, ConfigIInv, ValuesInv, FreshInv, ReloadInv
  <2> QED BY <2>1, <2>2 DEF ConfigIInv
<1>3. CASE ConfigClear
  <2>1. ConfigTypes'
    BY <1>3, OneValue DEF ConfigClear, ConfigIInv, ConfigTypes
  <2>2. ValuesInv' /\ FreshInv' /\ ReloadInv'
    BY <1>3 DEF ConfigClear, ConfigIInv, ValuesInv, FreshInv, ReloadInv
  <2> QED BY <2>1, <2>2 DEF ConfigIInv
<1> QED BY <1>1, <1>2, <1>3

\* CheckReload finds another time and empties the values.
LEMMA ReloadKeeps == ASSUME ConfigIInv, ReloadIfChanged PROVE ConfigIInv'
<1>1. ConfigTypes'
  BY OneValue DEF ReloadIfChanged, ConfigIInv, ConfigTypes
<1>2. config'.values = Empty /\ loading'.at = "read" /\ "emptied" \in excused' /\ reload' = reload
  BY DEF ReloadIfChanged, ConfigIInv, ConfigTypes
<1>3. ValuesInv' /\ FreshInv'
  BY <1>2 DEF ValuesInv, FreshInv
<1>4. ReloadInv'
  BY DEF ReloadIfChanged, ConfigIInv, ReloadInv
<1> QED BY <1>1, <1>3, <1>4 DEF ConfigIInv

\* The file is read, or it cannot be.
LEMMA ReadKeeps == ASSUME ConfigIInv, LoadFileReads PROVE ConfigIInv'
<1>1. loading.at = "read" /\ UNCHANGED <<file, reload>>
  BY DEF LoadFileReads
<1>2. CASE /\ config' = [config EXCEPT !.values = Inserted(@, ValuesOf(file.content)), !.path = TRUE]
           /\ loading' = [loading EXCEPT !.at = "stamp", !.parsed = file.content]
           /\ excused' = excused \ {"emptied", "sameStamp", "torn"}
  <2> DEFINE new == Inserted(config.values, ValuesOf(file.content))
  <2>1. new \in [ConfigKeys -> Nat \cup {NoValue}]
    BY OneValue DEF ConfigIInv, ConfigTypes
  <2>2. config.values = Empty => new = ValuesOf(file.content)
    BY InsertIntoEmpty
  <2>3. config' = [config EXCEPT !.values = new, !.path = TRUE]
    BY <1>2
  <2> HIDE DEF new
  <2>4. /\ config' \in [values : [ConfigKeys -> Nat \cup {NoValue}], path : BOOLEAN, mtime : Nat]
        /\ config'.mtime = config.mtime /\ config'.values = new
    BY <2>1, <2>3 DEF ConfigIInv, ConfigTypes
  <2>5. /\ loading' \in [at : {"idle", "read", "stamp"}, by : {"load", "reload"}, parsed : Nat]
        /\ loading'.at = "stamp" /\ loading'.by = loading.by /\ loading'.parsed = file.content
    BY <1>2 DEF ConfigIInv, ConfigTypes
  <2>6. ConfigTypes'
    BY <1>1, <2>4, <2>5 DEF ConfigIInv, ConfigTypes
  <2>7. ValuesInv'
    BY <1>1, <1>2, <2>2, <2>4, <2>5 DEF ConfigIInv, ValuesInv
  <2>8. FreshInv' /\ ReloadInv'
    BY <1>1, <2>5 DEF ConfigIInv, FreshInv, ReloadInv
  <2> QED BY <2>6, <2>7, <2>8 DEF ConfigIInv
<1>3. CASE loading' = [loading EXCEPT !.at = "idle"] /\ UNCHANGED <<config, excused>>
  <2>1. /\ loading' \in [at : {"idle", "read", "stamp"}, by : {"load", "reload"}, parsed : Nat]
        /\ loading'.at = "idle"
    BY <1>3 DEF ConfigIInv, ConfigTypes
  <2>2. ConfigTypes'
    BY <1>1, <1>3, <2>1 DEF ConfigIInv, ConfigTypes
  <2>3. ValuesInv' /\ FreshInv' /\ ReloadInv'
    BY <1>1, <1>3, <2>1 DEF ConfigIInv, ValuesInv, FreshInv, ReloadInv
  <2> QED BY <2>2, <2>3 DEF ConfigIInv
<1> QED BY <1>2, <1>3 DEF LoadFileReads

\* The time of the file is taken and the load announced.
LEMMA StampKeeps == ASSUME ConfigIInv, LoadFileStamps PROVE ConfigIInv'
<1>1. loading.at = "stamp" /\ UNCHANGED <<file, excused>>
  BY DEF LoadFileStamps
<1>2. FileMtime \in Nat /\ FileMtime <= file.mtime
  BY DEF FileMtime, ConfigIInv, ConfigTypes
<1>3. /\ config' \in [values : [ConfigKeys -> Nat \cup {NoValue}], path : BOOLEAN, mtime : Nat]
      /\ config'.mtime = FileMtime /\ config'.values = config.values /\ config'.path = config.path
  BY <1>2 DEF LoadFileStamps, ConfigIInv, ConfigTypes
<1>4. /\ loading' \in [at : {"idle", "read", "stamp"}, by : {"load", "reload"}, parsed : Nat]
      /\ loading'.at = "idle"
  BY DEF LoadFileStamps, ConfigIInv, ConfigTypes
<1>5. ~(loading.by = "reload" /\ ~reload.running)
  BY <1>1 DEF ConfigIInv, ReloadInv
<1>6. /\ reload' \in [running : BOOLEAN, known : Nat, late : BOOLEAN]
      /\ reload'.known = loading.parsed /\ ~reload'.late
  BY <1>5 DEF LoadFileStamps, ConfigIInv, ConfigTypes, ReloadInv
<1>7. ConfigTypes'
  BY <1>1, <1>2, <1>3, <1>4, <1>6 DEF ConfigIInv, ConfigTypes
<1>8. ValuesInv' /\ ReloadInv'
  BY <1>1, <1>3, <1>4, <1>6 DEF ConfigIInv, ValuesInv, ReloadInv
<1>9. FreshInv'
  BY <1>1, <1>3, <1>4, <1>6 DEF ConfigIInv, ValuesInv, FreshInv
<1> QED BY <1>7, <1>8, <1>9 DEF ConfigIInv

\* The reload module starts or stops; the owner of the file edits or moves it.
LEMMA OutsideKeeps ==
    ASSUME ConfigIInv, ReloadModuleStart \/ ReloadModuleStop \/ EditFile \/ MoveFile
    PROVE  ConfigIInv'
<1>1. CASE ReloadModuleStart \/ ReloadModuleStop
  <2>1. /\ loading.at = "idle" /\ UNCHANGED <<file, config, loading, excused>>
        /\ reload' \in [running : BOOLEAN, known : Nat, late : BOOLEAN]
        /\ reload'.known = reload.known /\ reload'.late = reload.late
    BY <1>1 DEF ReloadModuleStart, ReloadModuleStop, ConfigIInv, ConfigTypes
  <2>2. ConfigTypes'
    BY <2>1 DEF ConfigIInv, ConfigTypes
  <2>3. ValuesInv' /\ FreshInv' /\ ReloadInv'
    BY <2>1 DEF ConfigIInv, ValuesInv, FreshInv, ReloadInv
  <2> QED BY <2>2, <2>3 DEF ConfigIInv
<1>2. CASE EditFile
  <2>1. PICK t \in {file.mtime, file.mtime + 1} :
          /\ file' = [content |-> file.content + 1, mtime |-> t, there |-> TRUE]
          /\ excused' = excused \cup (IF t = file.mtime THEN {"sameStamp"} ELSE {})
                                \cup (IF loading.at = "stamp" THEN {"torn"} ELSE {})
    BY <1>2 DEF EditFile
  <2>2. UNCHANGED <<config, loading, reload>>
    BY <1>2 DEF EditFile
  <2>3. ConfigTypes'
    BY <2>1, <2>2 DEF ConfigIInv, ConfigTypes
  <2>4. excused \subseteq excused'
    BY <2>1
  <2>5. /\ loading.at = "stamp" => "torn" \in excused'
        /\ t = file.mtime => "sameStamp" \in excused'
        /\ "merged" \in excused' => "merged" \in excused
        /\ "emptied" \in excused' => "emptied" \in excused
        /\ excused' = {} => excused = {}
    BY <2>1
  <2>6. excused' = {} => config.mtime < file'.mtime
    BY <2>1, <2>5 DEF ConfigIInv, ConfigTypes
  <2>7. ValuesInv' /\ ReloadInv'
    BY <2>2, <2>4, <2>5 DEF ConfigIInv, ValuesInv, ReloadInv
  <2>8. FreshInv'
    BY <2>2, <2>4, <2>5, <2>6 DEF ConfigIInv, FreshInv
  <2> QED BY <2>3, <2>7, <2>8 DEF ConfigIInv
<1>3. CASE MoveFile
  <2>1. /\ file' \in [content : Nat, mtime : Nat, there : BOOLEAN]
        /\ file'.content = file.content /\ file'.mtime = file.mtime
        /\ UNCHANGED <<config, loading, reload, excused>>
    BY <1>3 DEF MoveFile, ConfigIInv, ConfigTypes
  <2>2. ConfigTypes'
    BY <2>1 DEF ConfigIInv, ConfigTypes
  <2>3. ValuesInv' /\ FreshInv' /\ ReloadInv'
    BY <2>1 DEF ConfigIInv, ValuesInv, FreshInv, ReloadInv
  <2> QED BY <2>2, <2>3 DEF ConfigIInv
<1> QED BY <1>1, <1>2, <1>3

\* Every step preserves the inductive invariant.
LEMMA ConfigNextKeeps == ConfigIInv /\ [ConfigNext]_configVars => ConfigIInv'
<1> SUFFICES ASSUME ConfigIInv, [ConfigNext]_configVars PROVE ConfigIInv'
  OBVIOUS
<1>1. CASE UNCHANGED configVars
  BY <1>1 DEF configVars, ConfigIInv, ConfigTypes, ValuesInv, FreshInv, ReloadInv
<1> QED BY <1>1, OwnerKeeps, ReloadKeeps, ReadKeeps, StampKeeps, OutsideKeeps DEF ConfigNext

\* The inductive invariant says all that is promised of the values.
LEMMA ConfigInvFollows == ConfigIInv => ConfigInv
<1> SUFFICES ASSUME ConfigIInv PROVE ConfigInv
  OBVIOUS
<1>1. OneContent
  <2> SUFFICES ASSUME "merged" \notin excused, NEW j \in ConfigKeys, NEW k \in ConfigKeys
               PROVE  NoValue \in {config.values[j], config.values[k]}
                      \/ config.values[j] = config.values[k]
    BY DEF OneContent
  <2>1. \/ config.values = Empty \/ config.values = ValuesOf(loading.parsed)
        \/ config.values = ValuesOf(reload.known)
    BY DEF ConfigIInv, ConfigTypes, ValuesInv
  <2> QED BY <2>1, OneValue
<1>2. QuietMeansFresh
  BY DEF ConfigIInv, ConfigTypes, FreshInv, QuietMeansFresh, FileMtime
<1>3. EventFollowsReload
  BY DEF ConfigIInv, ValuesInv, ReloadInv, EventFollowsReload
<1> QED BY <1>1, <1>2, <1>3 DEF ConfigInv

\* The values of CConfig always come from one content of the file, are those of the
\* file whenever a check finds nothing to do, and change between loads only with an
\* event, none of which comes after CConfigReloadModule::Stop.
THEOREM ConfigInvHolds == ConfigSpec => []ConfigInv
BY ConfigInitHolds, ConfigNextKeeps, ConfigInvFollows, PTL DEF ConfigSpec

(***************************************************************************)
(* The logger.                                                             *)
(***************************************************************************)
FileNumbers == 0 .. kMaxBackupCount

\* Line n is in one of the files.
Holds(files, n) == \E i \in FileNumbers : \E j \in 1 .. Len(files[i]) : files[i][j] = n

\* The file and its backups after n lines: every line in them was written, older
\* lines stand before newer ones, no line is missing between two, the last one is
\* there, and the backups fill up from the first.
FilesInv(files, n) ==
    /\ files \in [FileNumbers -> Seq(Nat)]
    /\ \A i \in FileNumbers : \A j \in 1 .. Len(files[i]) : 1 <= files[i][j] /\ files[i][j] <= n
    /\ \A h, i \in FileNumbers : \A j \in 1 .. Len(files[h]), k \in 1 .. Len(files[i]) :
         h > i \/ (h = i /\ j < k) => files[h][j] < files[i][k]
    /\ \A i \in FileNumbers : \A j \in 1 .. Len(files[i]) :
         files[i][j] < n => Holds(files, files[i][j] + 1)
    /\ n > 0 => Holds(files, n)
    /\ n > 0 /\ ~Holds(files, 1) => \A i \in 1 .. kMaxBackupCount : files[i] # <<>>
    /\ \A i, k \in 1 .. kMaxBackupCount : k < i /\ files[i] # <<>> => files[k] # <<>>

\* While the level is kOff nobody starts: the lines written and those under way
\* are no more than there were when it was set.
QuietInv ==
    /\ IsFiniteSet(logging)
    /\ IF logger.off
       THEN /\ quietAt \in Nat \X Nat
            /\ lines + Cardinality(logging) <= quietAt[1] + quietAt[2]
       ELSE quietAt = <<>>

\* The inductive invariant of the logger.
LogIInv ==
    /\ logger \in [open : BOOLEAN, limit : Nat, off : BOOLEAN] /\ lines \in Nat
    /\ FilesInv(disk, lines)
    /\ QuietInv

-------------------------------------------------------------------------------
\* There is a backup.
LEMMA BackupFacts ==
    /\ kMaxBackupCount \in Nat /\ kMaxBackupCount >= 1 /\ 0 \in FileNumbers
    /\ \A i : i \in FileNumbers <=> i = 0 \/ i \in 1 .. kMaxBackupCount
    /\ \A i \in 1 .. kMaxBackupCount : i \in Nat /\ i - 1 \in FileNumbers /\ i \in FileNumbers
BY LogAssumption DEF FileNumbers

\* Rotation of a file that is not empty: only the oldest backup is lost.
LEMMA RotateKeeps ==
    ASSUME NEW files, NEW n \in Nat, FilesInv(files, n), files[0] # <<>>
    PROVE  FilesInv(Rotate(files), n)
<1> DEFINE new == Rotate(files)
<1>1. files \in [FileNumbers -> Seq(Nat)] /\ DOMAIN files = FileNumbers
  BY DEF FilesInv
<1>2. /\ new \in [FileNumbers -> Seq(Nat)] /\ new[0] = <<>> /\ Len(new[0]) = 0
      /\ \A i \in 1 .. kMaxBackupCount : new[i] = files[i - 1]
  BY <1>1, BackupFacts, SMTT(30) DEF Rotate
<1> HIDE DEF new
<1>3. \A i \in FileNumbers : \A j \in 1 .. Len(new[i]) :
        i \in 1 .. kMaxBackupCount /\ i - 1 \in FileNumbers /\ new[i] = files[i - 1]
  <2> TAKE i \in FileNumbers
  <2> TAKE j \in 1 .. Len(new[i])
  <2>1. i # 0
    <3>1. 1 .. 0 = {}
      OBVIOUS
    <3> QED BY <1>2, <3>1
  <2>2. i \in 1 .. kMaxBackupCount
    BY <2>1, BackupFacts
  <2> QED BY <1>2, <2>2, BackupFacts
<1>4. \A i \in FileNumbers : \A j \in 1 .. Len(files[i]) : i # kMaxBackupCount => Holds(new, files[i][j])
  <2> SUFFICES ASSUME NEW i \in FileNumbers, NEW j \in 1 .. Len(files[i]), i # kMaxBackupCount
               PROVE  Holds(new, files[i][j])
    OBVIOUS
  <2>1. i + 1 \in 1 .. kMaxBackupCount /\ i + 1 \in FileNumbers /\ (i + 1) - 1 = i
    BY BackupFacts DEF FileNumbers
  <2>2. new[i + 1] = files[i]
    BY <1>2, <2>1
  <2> QED BY <2>1, <2>2 DEF Holds
<1>5. \A m : Holds(new, m) => Holds(files, m)
  BY <1>3 DEF Holds
<1>6. \A m : Holds(files, m) /\ ~Holds(new, m) =>
        \E j \in 1 .. Len(files[kMaxBackupCount]) : files[kMaxBackupCount][j] = m
  BY <1>4 DEF Holds
<1>7. 1 \in 1 .. Len(files[0])
  <2>1. files[0] \in Seq(Nat)
    BY <1>1, BackupFacts
  <2>2. Len(files[0]) \in Nat /\ Len(files[0]) # 0
    BY <2>1
  <2> QED BY <2>2
<1>8. \A j \in 1 .. Len(files[kMaxBackupCount]) : files[kMaxBackupCount][j] < n
  <2> TAKE j \in 1 .. Len(files[kMaxBackupCount])
  <2>1. kMaxBackupCount \in FileNumbers /\ kMaxBackupCount > 0
    BY BackupFacts DEF FileNumbers
  <2>2. files[kMaxBackupCount][j] < files[0][1] /\ files[0][1] <= n
    BY <1>7, <2>1, BackupFacts DEF FilesInv
  <2>3. files[kMaxBackupCount] \in Seq(Nat) /\ files[0] \in Seq(Nat)
    BY <1>1, <2>1, BackupFacts
  <2>4. files[kMaxBackupCount][j] \in Nat /\ files[0][1] \in Nat
    BY <1>7, <2>3, SMTT(30)
  <2> QED BY <2>2, <2>4
<1>9. \A i \in FileNumbers : \A j \in 1 .. Len(new[i]) : 1 <= new[i][j] /\ new[i][j] <= n
  BY <1>3 DEF FilesInv
<1>10. ASSUME NEW h \in FileNumbers, NEW i \in FileNumbers, NEW j \in 1 .. Len(new[h]),
              NEW k \in 1 .. Len(new[i]), h > i \/ (h = i /\ j < k)
       PROVE  new[h][j] < new[i][k]
  <2>1. h \in Nat /\ i \in Nat
    BY BackupFacts DEF FileNumbers
  <2>2. h - 1 > i - 1 \/ (h - 1 = i - 1 /\ j < k)
    BY <1>10, <2>1
  <2>3. /\ h - 1 \in FileNumbers /\ new[h] = files[h - 1]
        /\ i - 1 \in FileNumbers /\ new[i] = files[i - 1]
    BY <1>3
  <2> QED BY <2>2, <2>3 DEF FilesInv
<1>11. ASSUME NEW i \in FileNumbers, NEW j \in 1 .. Len(new[i]), new[i][j] < n
       PROVE  Holds(new, new[i][j] + 1)
  <2> DEFINE m == new[i][j]
  <2>1. i - 1 \in FileNumbers /\ new[i] = files[i - 1] /\ j \in 1 .. Len(files[i - 1]) /\ i \in Nat
        /\ i <= kMaxBackupCount
    BY <1>3, BackupFacts DEF FileNumbers
  <2>2. Holds(files, m + 1)
    BY <1>11, <2>1 DEF FilesInv
  <2>3. m \in Nat
    BY <1>2
  <2>4. ASSUME NEW l \in 1 .. Len(files[kMaxBackupCount]), files[kMaxBackupCount][l] = m + 1
        PROVE  FALSE
    <3>1. kMaxBackupCount \in FileNumbers /\ kMaxBackupCount > i - 1
      BY <2>1, BackupFacts DEF FileNumbers
    <3>2. files[kMaxBackupCount][l] < files[i - 1][j]
      BY <2>1, <3>1 DEF FilesInv
    <3> QED BY <2>1, <2>3, <2>4, <3>2
  <2> QED BY <1>6, <2>2, <2>4
<1>12. n > 0 => Holds(new, n)
  BY <1>6, <1>8 DEF FilesInv
<1>13. ASSUME n > 0, ~Holds(new, 1)
       PROVE  \A i \in 1 .. kMaxBackupCount : new[i] # <<>>
  <2>1. \A k \in 1 .. kMaxBackupCount : k < kMaxBackupCount => files[k] # <<>>
    <3>1. CASE ~Holds(files, 1)
      BY <1>13, <3>1 DEF FilesInv
    <3>2. CASE Holds(files, 1)
      <4>1. PICK j \in 1 .. Len(files[kMaxBackupCount]) : files[kMaxBackupCount][j] = 1
        BY <1>6, <1>13, <3>2
      <4>2. files[kMaxBackupCount] # <<>> /\ kMaxBackupCount \in 1 .. kMaxBackupCount
        BY <4>1, BackupFacts
      <4> QED BY <4>2 DEF FilesInv
    <3> QED BY <3>1, <3>2
  <2> TAKE i \in 1 .. kMaxBackupCount
  <2>2. i = 1 \/ (i - 1 \in 1 .. kMaxBackupCount /\ i - 1 < kMaxBackupCount)
    BY BackupFacts
  <2> QED BY <1>2, <2>1, <2>2
<1>14. ASSUME NEW i \in 1 .. kMaxBackupCount, NEW k \in 1 .. kMaxBackupCount, k < i, new[i] # <<>>
       PROVE  new[k] # <<>>
  <2>1. k = 1 \/ (k - 1 \in 1 .. kMaxBackupCount /\ i - 1 \in 1 .. kMaxBackupCount /\ k - 1 < i - 1)
    BY <1>14, BackupFacts
  <2>2. new[i] = files[i - 1] /\ new[k] = files[k - 1]
    BY <1>2
  <2>3. CASE k = 1
    BY <2>2, <2>3
  <2>4. CASE k - 1 \in 1 .. kMaxBackupCount /\ i - 1 \in 1 .. kMaxBackupCount /\ k - 1 < i - 1
    <3> DEFINE a == k - 1
               b == i - 1
    <3>1. a \in 1 .. kMaxBackupCount /\ b \in 1 .. kMaxBackupCount /\ a < b /\ files[b] # <<>>
      BY <1>14, <2>2, <2>4
    <3> HIDE DEF a, b
    <3>2. files[a] # <<>>
      BY <3>1 DEF FilesInv
    <3> QED BY <2>2, <3>2 DEF a
  <2> QED BY <2>1, <2>3, <2>4
<1> QED BY <1>2, <1>9, <1>10, <1>11, <1>12, <1>13, <1>14 DEF FilesInv, new

\* The next line goes to the end of the current file.
LEMMA LineKeeps ==
    ASSUME NEW files, NEW n \in Nat, FilesInv(files, n)
    PROVE  FilesInv([files EXCEPT ![0] = Append(@, n + 1)], n + 1)
<1> DEFINE new == [files EXCEPT ![0] = Append(@, n + 1)]
<1>1. files \in [FileNumbers -> Seq(Nat)] /\ files[0] \in Seq(Nat) /\ Len(files[0]) \in Nat
  BY BackupFacts DEF FilesInv
<1>2. /\ new \in [FileNumbers -> Seq(Nat)]
      /\ new[0] = Append(files[0], n + 1)
      /\ \A i \in FileNumbers : i # 0 => new[i] = files[i]
  BY <1>1, BackupFacts
<1> HIDE DEF new
<1>3. /\ Len(new[0]) = Len(files[0]) + 1
      /\ \A j \in 1 .. Len(files[0]) : new[0][j] = files[0][j]
      /\ new[0][Len(files[0]) + 1] = n + 1
  BY <1>1, <1>2
<1>4. \A i \in FileNumbers : \A j \in 1 .. Len(files[i]) :
        j \in 1 .. Len(new[i]) /\ new[i][j] = files[i][j]
  <2>1. \A j \in 1 .. Len(files[0]) : j \in 1 .. Len(new[0])
    BY <1>1, <1>3
  <2> QED BY <1>2, <1>3, <2>1
<1>5. \A i \in FileNumbers : \A j \in 1 .. Len(new[i]) :
        \/ j \in 1 .. Len(files[i]) /\ new[i][j] = files[i][j]
        \/ i = 0 /\ j = Len(files[0]) + 1 /\ new[i][j] = n + 1
  <2>1. \A j \in 1 .. Len(new[0]) : j \in 1 .. Len(files[0]) \/ j = Len(files[0]) + 1
    BY <1>1, <1>3
  <2> QED BY <1>2, <1>3, <2>1
<1>6. \A m : Holds(files, m) => Holds(new, m)
  BY <1>4 DEF Holds
<1>7. Holds(new, n + 1)
  <2>1. Len(files[0]) + 1 \in 1 .. Len(new[0])
    BY <1>1, <1>3
  <2> QED BY <1>3, <2>1, BackupFacts DEF Holds
<1>8. \A i \in FileNumbers : \A j \in 1 .. Len(files[i]) :
        files[i][j] \in Nat /\ 1 <= files[i][j] /\ files[i][j] <= n
  <2> TAKE i \in FileNumbers
  <2>1. files[i] \in Seq(Nat)
    BY <1>1
  <2> QED BY <2>1 DEF FilesInv
<1>9. \A i \in FileNumbers : \A j \in 1 .. Len(new[i]) : 1 <= new[i][j] /\ new[i][j] <= n + 1
  BY <1>5, <1>8
<1>10. ASSUME NEW h \in FileNumbers, NEW i \in FileNumbers, NEW j \in 1 .. Len(new[h]),
              NEW k \in 1 .. Len(new[i]), h > i \/ (h = i /\ j < k)
       PROVE  new[h][j] < new[i][k]
  <2>0. h \in Nat /\ i \in Nat
    BY BackupFacts DEF FileNumbers
  <2>1. j \in 1 .. Len(files[h]) /\ new[h][j] = files[h][j]
    <3>1. CASE h > i
      BY <1>5, <2>0, <3>1
    <3>2. CASE h = i /\ j < k
      BY <1>1, <1>3, <1>5, <3>2, SMTT(30)
    <3> QED BY <1>10, <3>1, <3>2
  <2>2. CASE k \in 1 .. Len(files[i]) /\ new[i][k] = files[i][k]
    BY <1>10, <2>1, <2>2 DEF FilesInv
  <2>3. CASE new[i][k] = n + 1
    BY <1>8, <2>1, <2>3
  <2> QED BY <1>5, <2>2, <2>3
<1>11. ASSUME NEW i \in FileNumbers, NEW j \in 1 .. Len(new[i]), new[i][j] < n + 1
       PROVE  Holds(new, new[i][j] + 1)
  <2>1. j \in 1 .. Len(files[i]) /\ new[i][j] = files[i][j]
    BY <1>5, <1>11
  <2>2. CASE new[i][j] = n
    BY <1>7, <2>2
  <2>3. CASE new[i][j] < n
    BY <1>6, <2>1, <2>3 DEF FilesInv
  <2> QED BY <1>8, <1>11, <2>1, <2>2, <2>3
<1>12. n + 1 > 0 /\ ~Holds(new, 1) => \A i \in 1 .. kMaxBackupCount : new[i] # <<>>
  <2>1. n = 0 \/ n > 0
    OBVIOUS
  <2>2. n = 0 => Holds(new, 1)
    BY <1>7
  <2>3. n > 0 /\ ~Holds(files, 1) => \A i \in 1 .. kMaxBackupCount : files[i] # <<>>
    BY DEF FilesInv
  <2>4. \A i \in 1 .. kMaxBackupCount : i \in FileNumbers /\ i # 0
    BY BackupFacts
  <2> QED BY <1>2, <1>6, <2>1, <2>2, <2>3, <2>4
<1>13. \A i, k \in 1 .. kMaxBackupCount : k < i /\ new[i] # <<>> => new[k] # <<>>
  <2>1. \A i \in 1 .. kMaxBackupCount : i \in FileNumbers /\ i # 0
    BY BackupFacts
  <2>2. \A i \in 1 .. kMaxBackupCount : new[i] = files[i]
    BY <1>2, <2>1
  <2> QED BY <2>2 DEF FilesInv
<1> QED BY <1>2, <1>7, <1>9, <1>10, <1>11, <1>12, <1>13 DEF FilesInv, new

\* The initial state.
LEMMA LogInitHolds == LogInit => LogIInv
<1> SUFFICES ASSUME LogInit PROVE LogIInv
  OBVIOUS
<1>1. /\ disk \in [FileNumbers -> Seq(Nat)] /\ \A i \in FileNumbers : disk[i] = <<>> /\ Len(disk[i]) = 0
  BY DEF LogInit, FileNumbers
<1>2. \A i \in FileNumbers : 1 .. Len(disk[i]) = {}
  BY <1>1
<1>3. FilesInv(disk, 0)
  BY <1>1, <1>2, BackupFacts DEF FilesInv
<1>4. QuietInv
  BY FS_EmptySet DEF LogInit, QuietInv
<1> QED BY <1>3, <1>4 DEF LogInit, LogIInv

\* A thread passes the test of the level, which is not kOff.
LEMMA LogKeeps == ASSUME LogIInv, NEW t \in LogThreads, Log(t) PROVE LogIInv'
<1>1. IsFiniteSet(logging')
  BY FS_AddElement DEF Log, LogIInv, QuietInv
<1>2. QuietInv'
  BY <1>1 DEF Log, LogIInv, QuietInv
<1> QED BY <1>2 DEF Log, LogIInv

\* A thread writes its line, or loses it to a file that is not open.
LEMMA WriteKeeps == ASSUME LogIInv, NEW t \in LogThreads, LogWrites(t) PROVE LogIInv'
<1> DEFINE files == RotateIfNeeded(disk)
<1>1. FilesInv(files, lines)
  <2>0. logger.limit \in Nat /\ Len(disk[0]) \in Nat /\ lines \in Nat /\ FilesInv(disk, lines)
    <3>1. disk[0] \in Seq(Nat)
      BY BackupFacts DEF LogIInv, FilesInv
    <3> QED BY <3>1 DEF LogIInv
  <2>1. CASE logger.limit > 0 /\ Len(disk[0]) >= logger.limit
    <3>1. disk[0] # <<>>
      <4>1. Len(disk[0]) # 0
        BY <2>0, <2>1
      <4> QED BY <4>1
    <3>2. files = Rotate(disk)
      BY <2>1 DEF RotateIfNeeded
    <3> QED BY <2>0, <3>1, <3>2, RotateKeeps
  <2>2. CASE ~(logger.limit > 0 /\ Len(disk[0]) >= logger.limit)
    BY <2>0, <2>2 DEF RotateIfNeeded
  <2> QED BY <2>1, <2>2
<1>2. /\ IsFiniteSet(logging') /\ Cardinality(logging') = Cardinality(logging) - 1
      /\ Cardinality(logging) \in Nat /\ Cardinality(logging') \in Nat
  <2>1. IsFiniteSet(logging) /\ t \in logging /\ logging' = logging \ {t}
    BY DEF LogWrites, LogIInv, QuietInv
  <2> QED BY <2>1, FS_RemoveElement, FS_CardinalityType
<1>3. quietAt' = quietAt
  BY DEF LogWrites
<1> HIDE DEF files
<1>4. CASE UNCHANGED <<logger, disk, lines>>
  <2>1. QuietInv'
    BY <1>2, <1>3, <1>4 DEF LogIInv, QuietInv
  <2> QED BY <1>4, <2>1 DEF LogIInv
<1>5. CASE /\ disk' = [files EXCEPT ![0] = Append(@, lines + 1)] /\ lines' = lines + 1
           /\ UNCHANGED logger
  <2>1. QuietInv'
    BY <1>2, <1>3, <1>5 DEF LogIInv, QuietInv
  <2>2. lines \in Nat
    BY DEF LogIInv
  <2>3. FilesInv(disk', lines')
    BY <1>1, <1>5, <2>2, LineKeeps
  <2>4. FilesInv(disk, lines)'
    BY <2>3 DEF FilesInv, Holds
  <2> QED BY <1>5, <2>1, <2>4 DEF LogIInv
<1>6. CASE disk' = files /\ logger' = [logger EXCEPT !.open = FALSE] /\ UNCHANGED lines
  <2>1. logger' \in [open : BOOLEAN, limit : Nat, off : BOOLEAN] /\ logger'.off = logger.off
    BY <1>6 DEF LogIInv
  <2>2. QuietInv'
    BY <1>2, <1>3, <1>6, <2>1 DEF LogIInv, QuietInv
  <2> QED BY <1>1, <1>6, <2>1, <2>2 DEF LogIInv
<1> QED BY <1>4, <1>5, <1>6 DEF LogWrites, files

\* OpenFile, SetMaxFileSize and SetLevel.
LEMMA SettingKeeps ==
    ASSUME LogIInv, \/ OpenFile \/ \E n \in FileLimits : SetMaxFileSize(n)
                    \/ \E off \in BOOLEAN : SetLevel(off)
    PROVE  LogIInv'
<1>0. Cardinality(logging) \in Nat
  BY FS_CardinalityType DEF LogIInv, QuietInv
<1>1. CASE OpenFile \/ \E n \in FileLimits : SetMaxFileSize(n)
  <2>1. /\ logger' \in [open : BOOLEAN, limit : Nat, off : BOOLEAN] /\ logger'.off = logger.off
        /\ UNCHANGED <<disk, lines, logging, quietAt>>
    BY <1>1, LogAssumption DEF OpenFile, SetMaxFileSize, LogIInv
  <2>2. QuietInv'
    BY <2>1 DEF LogIInv, QuietInv
  <2> QED BY <2>1, <2>2 DEF LogIInv
<1>2. ASSUME NEW off \in BOOLEAN, SetLevel(off) PROVE LogIInv'
  <2>1. /\ logger' \in [open : BOOLEAN, limit : Nat, off : BOOLEAN] /\ logger'.off = off
        /\ UNCHANGED <<disk, lines, logging>>
    BY <1>2 DEF SetLevel, LogIInv
  <2>2. QuietInv'
    BY <1>0, <1>2, <2>1 DEF SetLevel, LogIInv, QuietInv
  <2> QED BY <2>1, <2>2 DEF LogIInv
<1> QED BY <1>1, <1>2

\* Every step preserves the inductive invariant.
LEMMA LogNextKeeps == LogIInv /\ [LogNext]_logVars => LogIInv'
<1> SUFFICES ASSUME LogIInv, [LogNext]_logVars PROVE LogIInv'
  OBVIOUS
<1>1. CASE UNCHANGED logVars
  BY <1>1 DEF logVars, LogIInv, FilesInv, Holds, QuietInv
<1> QED BY <1>1, LogKeeps, WriteKeeps, SettingKeeps DEF LogNext

\* The inductive invariant says all that is promised of the files.
LEMMA LogInvFollows == LogIInv => LogInv
<1> SUFFICES ASSUME LogIInv PROVE LogInv
  OBVIOUS
<1>1. /\ DOMAIN disk = FileNumbers /\ \A i \in FileNumbers : DOMAIN disk[i] = 1 .. Len(disk[i])
  BY DEF LogIInv, FilesInv
<1>2. \A n : n \in OnDisk <=> Holds(disk, n)
  BY <1>1 DEF OnDisk, Holds
<1>3. LogComplete
  <2>1. \A h, i \in DOMAIN disk : \A j \in DOMAIN disk[h], k \in DOMAIN disk[i] :
          h > i \/ (h = i /\ j < k) => disk[h][j] < disk[i][k]
    BY <1>1 DEF LogIInv, FilesInv
  <2>2. ASSUME NEW n \in OnDisk, n < lines PROVE n + 1 \in OnDisk
    <3>1. PICK i \in FileNumbers : \E j \in 1 .. Len(disk[i]) : disk[i][j] = n
      BY <1>2 DEF Holds
    <3>2. Holds(disk, n + 1)
      BY <2>2, <3>1 DEF LogIInv, FilesInv
    <3> QED BY <1>2, <3>2
  <2>3. lines > 0 => lines \in OnDisk
    BY <1>2 DEF LogIInv, FilesInv
  <2>4. lines > 0 /\ 1 \notin OnDisk => \A i \in 1 .. kMaxBackupCount : disk[i] # <<>>
    BY <1>2 DEF LogIInv, FilesInv
  <2> QED BY <2>1, <2>2, <2>3, <2>4 DEF LogComplete
<1>4. QuietAfterOff
  <2>1. Cardinality(logging) \in Nat
    BY FS_CardinalityType DEF LogIInv, QuietInv
  <2>2. quietAt # <<>> => quietAt \in Nat \X Nat /\ lines + Cardinality(logging) <= quietAt[1] + quietAt[2]
    BY DEF LogIInv, QuietInv
  <2> QED BY <2>1, <2>2 DEF QuietAfterOff, LogIInv
<1> QED BY <1>3, <1>4 DEF LogInv

\* CLogger loses no line but off the end of a full set of backups and keeps their
\* order through rotations and failed reopenings, whatever limits are set and for any
\* number of backups; after SetLevel(kOff) only the lines under way are written.
THEOREM LogInvHolds == LogSpec => []LogInv
BY LogInitHolds, LogNextKeeps, LogInvFollows, PTL DEF LogSpec

(***************************************************************************)
(* The reference count.                                                    *)
(***************************************************************************)

Places == {"idle", "adopting", "dying", "deleting", "locking", "upgrading"}

\* The inductive invariant of the reference count.
RefIInv == RefInv /\ IsFiniteSet(Pointers)

PointersOf(st) == UNION {{t} \X (1..st[t]) : t \in Holders}
At(d, where) == {t \in Holders : d[t] = where}

\* What a pointer is.
LEMMA PointerIs ==
    ASSUME NEW st, NEW x
    PROVE  x \in PointersOf(st) <=> \E t \in Holders : \E k \in 1..st[t] : x = <<t, k>>
BY DEF PointersOf

\* A thread with one pointer more.
LEMMA OnePointerMore ==
    ASSUME NEW st \in [Holders -> Nat], NEW t \in Holders, NEW st2, st2 = [st EXCEPT ![t] = @ + 1],
           IsFiniteSet(PointersOf(st))
    PROVE  /\ st2 \in [Holders -> Nat] /\ IsFiniteSet(PointersOf(st2))
           /\ Cardinality(PointersOf(st2)) = Cardinality(PointersOf(st)) + 1
<1>1. st2 \in [Holders -> Nat] /\ st2[t] = st[t] + 1 /\ \A u \in Holders : u # t => st2[u] = st[u]
  OBVIOUS
<1>2. \A k : k \in 1..st2[t] <=> k \in 1..st[t] \/ k = st[t] + 1
  BY <1>1
<1>3. <<t, st[t] + 1>> \notin PointersOf(st)
  <2> SUFFICES ASSUME NEW u \in Holders, NEW k \in 1..st[u], <<t, st[t] + 1>> = <<u, k>> PROVE FALSE
    BY PointerIs
  <2>1. u = t /\ k = st[t] + 1
    OBVIOUS
  <2> QED BY <2>1
<1>4. PointersOf(st2) = PointersOf(st) \cup {<<t, st[t] + 1>>}
  <2>1. ASSUME NEW x, x \in PointersOf(st2) PROVE x \in PointersOf(st) \cup {<<t, st[t] + 1>>}
    <3>0. \E u \in Holders : \E k \in 1..st2[u] : x = <<u, k>>
      <4>1. PICK f : f = st2
        OBVIOUS
      <4>2. x \in PointersOf(f)
        BY <2>1, <4>1
      <4>3. \E u \in Holders : \E k \in 1..f[u] : x = <<u, k>>
        BY <4>2, PointerIs
      <4> QED BY <4>1, <4>3
    <3>1. PICK u \in Holders : \E k \in 1..st2[u] : x = <<u, k>>
      BY <3>0
    <3>2. PICK k \in 1..st2[u] : x = <<u, k>>
      BY <3>1
    <3> QED BY <1>1, <1>2, <3>2, PointerIs
  <2>2. ASSUME NEW x, x \in PointersOf(st) PROVE x \in PointersOf(st2)
    <3>1. PICK u \in Holders : \E k \in 1..st[u] : x = <<u, k>>
      BY <2>2, PointerIs
    <3>2. PICK k \in 1..st[u] : x = <<u, k>>
      BY <3>1
    <3>3. k \in 1..st2[u]
      BY <1>1, <1>2
    <3> QED BY <1>1, <3>2, <3>3, PointerIs
  <2>3. <<t, st[t] + 1>> \in PointersOf(st2)
    BY <1>1, <1>2, PointerIs
  <2> QED BY <2>1, <2>2, <2>3
<1>5. PICK S, e : S = PointersOf(st) /\ e = <<t, st[t] + 1>>
  OBVIOUS
<1>6. IsFiniteSet(S \cup {e}) /\ Cardinality(S \cup {e}) = Cardinality(S) + 1
  BY <1>3, <1>5, FS_AddElement
<1> QED BY <1>1, <1>4, <1>5, <1>6

\* A thread with one pointer less.
LEMMA OnePointerLess ==
    ASSUME NEW st \in [Holders -> Nat], NEW t \in Holders, NEW st2, st2 = [st EXCEPT ![t] = @ - 1],
           IsFiniteSet(PointersOf(st)), st[t] > 0
    PROVE  /\ st2 \in [Holders -> Nat] /\ IsFiniteSet(PointersOf(st2))
           /\ Cardinality(PointersOf(st2)) = Cardinality(PointersOf(st)) - 1
           /\ Cardinality(PointersOf(st)) \in Nat /\ Cardinality(PointersOf(st)) >= 1
<1>1. st2 \in [Holders -> Nat] /\ st2[t] = st[t] - 1 /\ \A u \in Holders : u # t => st2[u] = st[u]
  OBVIOUS
<1>2. \A k : k \in 1..st2[t] <=> k \in 1..st[t] /\ k # st[t]
  BY <1>1
<1>3. <<t, st[t]>> \in PointersOf(st)
  <2>1. st[t] \in 1..st[t]
    OBVIOUS
  <2> QED BY <2>1, PointerIs
<1>4. PointersOf(st2) = PointersOf(st) \ {<<t, st[t]>>}
  <2>1. ASSUME NEW x, x \in PointersOf(st2) PROVE x \in PointersOf(st) /\ x # <<t, st[t]>>
    <3>0. \E u \in Holders : \E k \in 1..st2[u] : x = <<u, k>>
      <4>1. PICK f : f = st2
        OBVIOUS
      <4>2. x \in PointersOf(f)
        BY <2>1, <4>1
      <4>3. \E u \in Holders : \E k \in 1..f[u] : x = <<u, k>>
        BY <4>2, PointerIs
      <4> QED BY <4>1, <4>3
    <3>1. PICK u \in Holders : \E k \in 1..st2[u] : x = <<u, k>>
      BY <3>0
    <3>2. PICK k \in 1..st2[u] : x = <<u, k>>
      BY <3>1
    <3>3. k \in 1..st[u] /\ (u = t => k # st[t])
      BY <1>1, <1>2
    <3>4. x \in PointersOf(st)
      BY <3>2, <3>3, PointerIs
    <3>5. x # <<t, st[t]>>
      BY <3>2, <3>3
    <3> QED BY <3>4, <3>5
  <2>2. ASSUME NEW x, x \in PointersOf(st), x # <<t, st[t]>> PROVE x \in PointersOf(st2)
    <3>1. PICK u \in Holders : \E k \in 1..st[u] : x = <<u, k>>
      BY <2>2, PointerIs
    <3>2. PICK k \in 1..st[u] : x = <<u, k>>
      BY <3>1
    <3>3. k \in 1..st2[u]
      BY <1>1, <1>2, <2>2, <3>2
    <3> QED BY <1>1, <3>2, <3>3, PointerIs
  <2> QED BY <2>1, <2>2
<1>5. Cardinality(PointersOf(st)) \in Nat /\ IsFiniteSet(PointersOf(st2))
      /\ Cardinality(PointersOf(st2)) = Cardinality(PointersOf(st)) - 1
      /\ Cardinality(PointersOf(st2)) \in Nat
  <2>1. PICK S, e : S = PointersOf(st) /\ e = <<t, st[t]>>
    OBVIOUS
  <2>2. IsFiniteSet(S \ {e}) /\ Cardinality(S \ {e}) = Cardinality(S) - 1
    BY <1>3, <2>1, FS_RemoveElement
  <2>3. Cardinality(S) \in Nat /\ Cardinality(S \ {e}) \in Nat
    BY <2>1, <2>2, FS_CardinalityType
  <2> QED BY <1>4, <2>1, <2>2, <2>3
<1> QED BY <1>1, <1>5

\* The change of a place x when thread t goes to w.
Moved(d, d2, t, w, x) ==
    /\ At(d2, x) = IF x = w THEN At(d, x) \cup {t} ELSE At(d, x) \ {t}
    /\ d[t] # x /\ w = x => Cardinality(At(d2, x)) = Cardinality(At(d, x)) + 1
    /\ d[t] = x /\ w # x => /\ Cardinality(At(d2, x)) = Cardinality(At(d, x)) - 1
                            /\ Cardinality(At(d, x)) >= 1
    /\ d[t] # x /\ w # x => At(d2, x) = At(d, x)

\* A thread goes somewhere else.
LEMMA OneGoes ==
    ASSUME NEW d \in [Holders -> Places], NEW t \in Holders, NEW w \in Places, NEW d2,
           d2 = [d EXCEPT ![t] = w], NEW x \in Places
    PROVE  /\ d2 \in [Holders -> Places] /\ Cardinality(At(d, x)) \in Nat
           /\ Moved(d, d2, t, w, x)
<1>1. IsFiniteSet(At(d, x))
  BY RefAssumption, FS_Subset DEF At
<1>2. d2 \in [Holders -> Places] /\ d2[t] = w /\ \A u \in Holders : u # t => d2[u] = d[u]
  OBVIOUS
<1>3. At(d2, x) = IF x = w THEN At(d, x) \cup {t} ELSE At(d, x) \ {t}
  BY <1>2 DEF At
<1>4. t \in At(d, x) <=> d[t] = x
  BY DEF At
<1>5. /\ Cardinality(At(d, x)) \in Nat
      /\ Cardinality(At(d, x) \cup {t}) = IF t \in At(d, x) THEN Cardinality(At(d, x)) ELSE Cardinality(At(d, x)) + 1
      /\ Cardinality(At(d, x) \ {t}) = IF t \in At(d, x) THEN Cardinality(At(d, x)) - 1 ELSE Cardinality(At(d, x))
      /\ Cardinality(At(d, x) \ {t}) \in Nat
  <2>1. PICK S : S = At(d, x)
    OBVIOUS
  <2>2. /\ IsFiniteSet(S \ {t})
        /\ Cardinality(S \cup {t}) = IF t \in S THEN Cardinality(S) ELSE Cardinality(S) + 1
        /\ Cardinality(S \ {t}) = IF t \in S THEN Cardinality(S) - 1 ELSE Cardinality(S)
    BY <1>1, <2>1, FS_AddElement, FS_RemoveElement
  <2>3. Cardinality(S) \in Nat /\ Cardinality(S \ {t}) \in Nat
    BY <1>1, <2>1, <2>2, FS_CardinalityType
  <2> QED BY <2>1, <2>2, <2>3
<1>6. CASE w = x
  BY <1>2, <1>3, <1>4, <1>5, <1>6 DEF Moved
<1>7. CASE w # x
  <2>1. d[t] # x => At(d, x) \ {t} = At(d, x)
    BY <1>4
  <2>2. At(d2, x) = At(d, x) \ {t}
    BY <1>3, <1>7
  <2>3. CASE d[t] = x
    <3>1. Cardinality(At(d2, x)) = Cardinality(At(d, x)) - 1 /\ Cardinality(At(d2, x)) \in Nat
      BY <1>4, <1>5, <2>2, <2>3
    <3> QED BY <1>2, <1>3, <1>5, <1>7, <2>3, <3>1 DEF Moved
  <2>4. CASE d[t] # x
    BY <1>2, <1>3, <1>5, <1>7, <2>1, <2>2, <2>4 DEF Moved
  <2> QED BY <2>3, <2>4
<1> QED BY <1>6, <1>7

\* The types, and what is counted is finite.
LEMMA RefFacts ==
    ASSUME RefIInv
    PROVE  /\ obj \in [count : Nat, alive : BOOLEAN, mutex : BOOLEAN, freed : BOOLEAN]
           /\ strong \in [Holders -> Nat] /\ doing \in [Holders -> Places] /\ revived \in BOOLEAN
           /\ Pointers = PointersOf(strong) /\ Pointers' = PointersOf(strong')
           /\ \A x : In(x) = At(doing, x) /\ In(x)' = At(doing', x)
           /\ Cardinality(Pointers) \in Nat /\ Cardinality(In("adopting")) \in Nat
           /\ Cardinality(In("upgrading")) \in Nat
           /\ IsFiniteSet(Deleting) /\ Cardinality(Deleting) \in Nat
<1>1. /\ obj \in [count : Nat, alive : BOOLEAN, mutex : BOOLEAN, freed : BOOLEAN]
      /\ strong \in [Holders -> Nat] /\ doing \in [Holders -> Places] /\ revived \in BOOLEAN
  BY DEF RefIInv, RefInv, RefTypeOK, Places
<1>2. /\ Pointers = PointersOf(strong) /\ Pointers' = PointersOf(strong')
      /\ \A x : In(x) = At(doing, x) /\ In(x)' = At(doing', x)
  BY DEF Pointers, PointersOf, In, At
<1>3. ASSUME NEW S \in SUBSET Holders PROVE IsFiniteSet(S) /\ Cardinality(S) \in Nat
  BY RefAssumption, FS_Subset, FS_CardinalityType
<1>4. In("adopting") \in SUBSET Holders /\ In("upgrading") \in SUBSET Holders /\ Deleting \in SUBSET Holders
  BY DEF In, Deleting
<1>5. Cardinality(Pointers) \in Nat
  BY FS_CardinalityType DEF RefIInv
<1> QED BY <1>1, <1>2, <1>3, <1>4, <1>5

\* A thread gets or loses a pointer.
LEMMA StrongChanges ==
    ASSUME RefIInv, NEW t \in Holders
    PROVE  /\ strong' = [strong EXCEPT ![t] = @ + 1] =>
                /\ strong' \in [Holders -> Nat] /\ IsFiniteSet(Pointers')
                /\ Cardinality(Pointers') = Cardinality(Pointers) + 1
           /\ strong[t] > 0 => Cardinality(Pointers) >= 1
           /\ strong[t] > 0 /\ strong' = [strong EXCEPT ![t] = @ - 1] =>
                /\ strong' \in [Holders -> Nat] /\ IsFiniteSet(Pointers')
                /\ Cardinality(Pointers') = Cardinality(Pointers) - 1
<1>1. PICK st, st2 : st = strong /\ st2 = strong'
  OBVIOUS
<1>2. st \in [Holders -> Nat] /\ Pointers = PointersOf(st) /\ Pointers' = PointersOf(st2) /\ IsFiniteSet(PointersOf(st))
  BY <1>1, RefFacts DEF RefIInv
<1>3. st2 = [st EXCEPT ![t] = @ + 1] =>
        /\ st2 \in [Holders -> Nat] /\ IsFiniteSet(PointersOf(st2))
        /\ Cardinality(PointersOf(st2)) = Cardinality(PointersOf(st)) + 1
  BY <1>2, OnePointerMore
<1>4. st[t] > 0 => Cardinality(PointersOf(st)) >= 1
  <2>1. PICK st3 : st3 = [st EXCEPT ![t] = @ - 1]
    OBVIOUS
  <2> QED BY <1>2, <2>1, OnePointerLess
<1>5. st[t] > 0 /\ st2 = [st EXCEPT ![t] = @ - 1] =>
        /\ st2 \in [Holders -> Nat] /\ IsFiniteSet(PointersOf(st2))
        /\ Cardinality(PointersOf(st2)) = Cardinality(PointersOf(st)) - 1
  BY <1>2, OnePointerLess
<1>6. \A e : strong' = e <=> st2 = e
  BY <1>1
<1> QED BY <1>1, <1>2, <1>3, <1>4, <1>5, <1>6

\* A thread goes on to w.
LEMMA DoingChanges ==
    ASSUME RefIInv, NEW t \in Holders, NEW w \in Places, Goes(t, w)
    PROVE  /\ doing' \in [Holders -> Places]
           /\ \A x \in {"adopting", "upgrading"} :
                /\ doing[t] # x /\ w = x => Cardinality(In(x)') = Cardinality(In(x)) + 1
                /\ doing[t] = x /\ w # x => /\ Cardinality(In(x)') = Cardinality(In(x)) - 1
                                            /\ Cardinality(In(x)) >= 1
                /\ doing[t] # x /\ w # x => In(x)' = In(x)
           /\ Deleting' = IF w \in {"dying", "deleting"} THEN Deleting \cup {t} ELSE Deleting \ {t}
           /\ t \in Deleting <=> doing[t] \in {"dying", "deleting"}
<1>1. PICK d, d2 : d = doing /\ d2 = doing'
  OBVIOUS
<1>2. d \in [Holders -> Places] /\ d2 = [d EXCEPT ![t] = w] /\ \A x : In(x) = At(d, x) /\ In(x)' = At(d2, x)
  BY <1>1, RefFacts DEF Goes
<1>3. ASSUME NEW x \in Places
      PROVE  /\ d2 \in [Holders -> Places]
             /\ Moved(d, d2, t, w, x)
  BY <1>2, OneGoes
<1>4. doing' \in [Holders -> Places]
  BY <1>1, <1>3 DEF Places
<1>5. ASSUME NEW x \in {"adopting", "upgrading"}
      PROVE  /\ doing[t] # x /\ w = x => Cardinality(In(x)') = Cardinality(In(x)) + 1
             /\ doing[t] = x /\ w # x => /\ Cardinality(In(x)') = Cardinality(In(x)) - 1
                                         /\ Cardinality(In(x)) >= 1
             /\ doing[t] # x /\ w # x => In(x)' = In(x)
  <2>1. x \in Places
    BY DEF Places
  <2> QED BY <1>1, <1>2, <1>3, <2>1 DEF Moved
<1>6. Deleting' = IF w \in {"dying", "deleting"} THEN Deleting \cup {t} ELSE Deleting \ {t}
  <2>1. \A u \in Holders : doing'[u] = IF u = t THEN w ELSE doing[u]
    BY <1>1, <1>2
  <2> QED BY <2>1 DEF Deleting, In
<1>7. t \in Deleting <=> doing[t] \in {"dying", "deleting"}
  BY DEF Deleting, In
<1> QED BY <1>4, <1>5, <1>6, <1>7

\* A counted object that was not revived is whole, and a counted reference
\* keeps it so.
LEMMA Counted ==
    ASSUME RefIInv
    PROVE  /\ \A t \in Holders : strong[t] > 0 \/ doing[t] = "adopting" => obj.count > 0
           /\ ~revived /\ obj.count > 0 => ~obj.freed /\ obj.alive /\ Deleting = {}
<1>1. ASSUME NEW t \in Holders, strong[t] > 0 PROVE obj.count > 0
  BY <1>1, StrongChanges, RefFacts DEF RefIInv, RefInv, CountExact
<1>2. ASSUME NEW t \in Holders, doing[t] = "adopting" PROVE obj.count > 0
  <2>1. t \in In("adopting")
    BY <1>2 DEF In
  <2>2. In("adopting") # {} /\ IsFiniteSet(In("adopting"))
    BY <2>1, RefAssumption, FS_Subset DEF In
  <2>3. Cardinality(In("adopting")) # 0
    BY <2>2, FS_EmptySet
  <2> QED BY <2>3, RefFacts DEF RefIInv, RefInv, CountExact
<1>3. ~revived /\ obj.count > 0 => ~obj.freed /\ obj.alive /\ Deleting = {}
  BY RefFacts DEF RefIInv, RefInv, FreedExactly
<1> QED BY <1>1, <1>2, <1>3

\* What has to be shown of a step.
LEMMA RefStep ==
    ASSUME obj' \in [count : Nat, alive : BOOLEAN, mutex : BOOLEAN, freed : BOOLEAN],
           strong' \in [Holders -> Nat], doing' \in [Holders -> Places], revived' \in BOOLEAN,
           IsFiniteSet(Pointers'), CountExact', FreedExactly'
    PROVE  RefIInv'
BY DEF RefIInv, RefInv, RefTypeOK, Places

\* Nobody goes anywhere, nobody gets or loses a pointer.
LEMMA RefUnchanged ==
    /\ UNCHANGED doing => Deleting' = Deleting /\ \A x : In(x)' = In(x)
    /\ UNCHANGED strong => Pointers' = Pointers
BY DEF Deleting, In, Pointers

\* A reference more, while one is held: a copy, or the first half of Reset().
LEMMA TakeStep ==
    ASSUME RefIInv, NEW t \in Holders, CopyPointer(t) \/ ResetPointer(t)
    PROVE  RefIInv'
<1>1. /\ strong[t] > 0 /\ doing[t] = "idle" /\ obj' = [obj EXCEPT !.count = @ + 1] /\ UNCHANGED revived
      /\ \/ strong' = [strong EXCEPT ![t] = @ + 1] /\ UNCHANGED doing
         \/ UNCHANGED strong /\ Goes(t, "adopting")
  BY DEF CopyPointer, ResetPointer, Free, Usable
<1>2. obj.count > 0 /\ (~revived => ~obj.freed /\ obj.alive /\ Deleting = {})
  BY <1>1, Counted
<1>3. /\ obj' \in [count : Nat, alive : BOOLEAN, mutex : BOOLEAN, freed : BOOLEAN]
      /\ obj'.count = obj.count + 1 /\ obj'.mutex = obj.mutex /\ obj'.alive = obj.alive /\ obj'.freed = obj.freed
  BY <1>1, RefFacts
<1>4. /\ strong' \in [Holders -> Nat] /\ doing' \in [Holders -> Places] /\ IsFiniteSet(Pointers')
      /\ Cardinality(Pointers') + Cardinality(In("adopting")') = Cardinality(Pointers) + Cardinality(In("adopting")) + 1
      /\ In("upgrading")' = In("upgrading") /\ (Deleting = {} => Deleting' = {})
  <2>1. CASE strong' = [strong EXCEPT ![t] = @ + 1] /\ UNCHANGED doing
    <3>1. /\ strong' \in [Holders -> Nat] /\ IsFiniteSet(Pointers')
          /\ Cardinality(Pointers') = Cardinality(Pointers) + 1
      BY <2>1, StrongChanges
    <3>2. Deleting' = Deleting /\ In("adopting")' = In("adopting") /\ In("upgrading")' = In("upgrading")
      BY <2>1, RefUnchanged
    <3> QED BY <2>1, <3>1, <3>2, RefFacts
  <2>2. CASE UNCHANGED strong /\ Goes(t, "adopting")
    <3>1. "adopting" \in Places
      BY DEF Places
    <3>2. /\ doing' \in [Holders -> Places] /\ Cardinality(In("adopting")') = Cardinality(In("adopting")) + 1
          /\ In("upgrading")' = In("upgrading") /\ Deleting' = Deleting \ {t}
      BY <1>1, <2>2, <3>1, DoingChanges
    <3> QED BY <2>2, <3>2, RefFacts, RefUnchanged DEF RefIInv
  <2> QED BY <1>1, <2>1, <2>2
<1>5. CountExact'
  BY <1>3, <1>4, RefFacts DEF CountExact, RefIInv, RefInv
<1>6. FreedExactly'
  <2>1. obj'.count # 0
    BY <1>3, RefFacts
  <2> SUFFICES ASSUME ~revived PROVE Deleting' = {} /\ ~obj'.freed /\ obj'.alive
    BY <1>1, <2>1, FS_EmptySet DEF FreedExactly
  <2> QED BY <1>2, <1>3, <1>4
<1> QED BY <1>1, <1>3, <1>4, <1>5, <1>6, RefFacts, RefStep

\* A pointer changes hands.
LEMMA MoveStep ==
    ASSUME RefIInv, NEW t \in Holders, NEW u \in Holders, MovePointer(t, u)
    PROVE  RefIInv'
<1>1. /\ t # u /\ strong[t] > 0 /\ strong' = [strong EXCEPT ![t] = @ - 1, ![u] = @ + 1]
      /\ UNCHANGED <<obj, doing, revived>>
  BY DEF MovePointer
<1>2. PICK st : st = strong
  OBVIOUS
<1>3. st \in [Holders -> Nat] /\ IsFiniteSet(PointersOf(st)) /\ st[t] > 0
  BY <1>1, <1>2, RefFacts DEF RefIInv
<1>4. PICK st1 : /\ st1 = [st EXCEPT ![t] = @ - 1]
                 /\ st1 \in [Holders -> Nat] /\ IsFiniteSet(PointersOf(st1))
                 /\ Cardinality(PointersOf(st1)) = Cardinality(PointersOf(st)) - 1
                 /\ Cardinality(PointersOf(st)) \in Nat
  <2>1. PICK f : f = [st EXCEPT ![t] = @ - 1]
    OBVIOUS
  <2>2. /\ f \in [Holders -> Nat] /\ IsFiniteSet(PointersOf(f))
        /\ Cardinality(PointersOf(f)) = Cardinality(PointersOf(st)) - 1
        /\ Cardinality(PointersOf(st)) \in Nat
    BY <1>3, <2>1, OnePointerLess
  <2> QED BY <2>1, <2>2
<1>5. PICK st2 : /\ st2 = [st1 EXCEPT ![u] = @ + 1]
                 /\ st2 \in [Holders -> Nat] /\ IsFiniteSet(PointersOf(st2))
                 /\ Cardinality(PointersOf(st2)) = Cardinality(PointersOf(st1)) + 1
  <2>1. PICK f : f = [st1 EXCEPT ![u] = @ + 1]
    OBVIOUS
  <2>2. st1 \in [Holders -> Nat] /\ IsFiniteSet(PointersOf(st1))
    BY <1>4
  <2>3. f = [st1 EXCEPT ![u] = @ + 1] =>
          /\ f \in [Holders -> Nat] /\ IsFiniteSet(PointersOf(f))
          /\ Cardinality(PointersOf(f)) = Cardinality(PointersOf(st1)) + 1
    BY <2>2, OnePointerMore
  <2> QED BY <2>1, <2>3
<1>6. strong' = st2
  BY <1>1, <1>2, <1>4, <1>5
<1>7. IsFiniteSet(Pointers') /\ Cardinality(Pointers') = Cardinality(Pointers) /\ strong' \in [Holders -> Nat]
  BY <1>2, <1>4, <1>5, <1>6, RefFacts
<1>8. CountExact' /\ FreedExactly'
  BY <1>1, <1>7, RefUnchanged DEF CountExact, FreedExactly, RefIInv, RefInv
<1> QED BY <1>1, <1>7, <1>8, RefFacts, RefStep

\* A reference less: Release(), or the one inside Reset().
LEMMA DropStep ==
    ASSUME RefIInv, NEW t \in Holders, Release(t) \/ ResetReleasesOld(t)
    PROVE  RefIInv'
<1> DEFINE w == IF obj.count = 1 THEN "dying" ELSE "idle"
<1>1. /\ obj' = [obj EXCEPT !.count = @ - 1] /\ UNCHANGED revived /\ Goes(t, w)
      /\ \/ strong[t] > 0 /\ doing[t] = "idle" /\ strong' = [strong EXCEPT ![t] = @ - 1]
         \/ UNCHANGED strong /\ doing[t] = "adopting"
  BY DEF Release, ResetReleasesOld, Free, Usable
<1>2. obj.count > 0 /\ (~revived => ~obj.freed /\ obj.alive /\ Deleting = {})
  BY <1>1, Counted
<1>3. /\ obj' \in [count : Nat, alive : BOOLEAN, mutex : BOOLEAN, freed : BOOLEAN]
      /\ obj'.count = obj.count - 1 /\ obj'.mutex = obj.mutex /\ obj'.alive = obj.alive /\ obj'.freed = obj.freed
  BY <1>1, <1>2, RefFacts
<1>4. PICK v : v = w
  OBVIOUS
<1>5. v \in Places /\ v \notin {"adopting", "upgrading"} /\ Goes(t, v)
  BY <1>1, <1>4 DEF Places
<1>6. /\ doing' \in [Holders -> Places]
      /\ doing[t] = "adopting" => Cardinality(In("adopting")') = Cardinality(In("adopting")) - 1
      /\ doing[t] # "adopting" => In("adopting")' = In("adopting")
      /\ doing[t] # "upgrading" => In("upgrading")' = In("upgrading")
      /\ Deleting' = IF v \in {"dying", "deleting"} THEN Deleting \cup {t} ELSE Deleting \ {t}
  BY <1>5, DoingChanges
<1>7. /\ strong' \in [Holders -> Nat] /\ IsFiniteSet(Pointers')
      /\ Cardinality(Pointers') + Cardinality(In("adopting")') = Cardinality(Pointers) + Cardinality(In("adopting")) - 1
      /\ In("upgrading")' = In("upgrading")
  <2>1. CASE strong[t] > 0 /\ doing[t] = "idle" /\ strong' = [strong EXCEPT ![t] = @ - 1]
    <3>1. /\ strong' \in [Holders -> Nat] /\ IsFiniteSet(Pointers')
          /\ Cardinality(Pointers') = Cardinality(Pointers) - 1
      BY <2>1, StrongChanges
    <3>2. In("adopting")' = In("adopting") /\ In("upgrading")' = In("upgrading")
      BY <1>6, <2>1
    <3> QED BY <3>1, <3>2, RefFacts
  <2>2. CASE UNCHANGED strong /\ doing[t] = "adopting"
    BY <1>6, <2>2, RefFacts, RefUnchanged DEF RefIInv
  <2> QED BY <1>1, <2>1, <2>2
<1>8. CountExact'
  BY <1>3, <1>7, RefFacts DEF CountExact, RefIInv, RefInv
<1>9. FreedExactly'
  <2> SUFFICES ASSUME ~revived
               PROVE  /\ obj'.freed \/ ~obj'.alive \/ Deleting' # {} <=> obj'.count = 0
                      /\ Cardinality(Deleting') <= 1
                      /\ obj'.freed => Deleting' = {}
    BY <1>1 DEF FreedExactly
  <2>1. ~obj'.freed /\ obj'.alive
    BY <1>2, <1>3
  <2>2. CASE obj.count = 1
    <3>1. Deleting' = Deleting \cup {t} /\ Deleting = {}
      BY <1>2, <1>4, <1>6, <2>2
    <3>2. Deleting' = {t} /\ obj'.count = 0
      BY <1>3, <2>2, <3>1
    <3>3. Cardinality({t}) = 1 /\ {t} # {}
      BY FS_Singleton
    <3> QED BY <2>1, <3>2, <3>3
  <2>3. CASE obj.count # 1
    <3>1. Deleting' = {} /\ obj'.count # 0
      BY <1>2, <1>3, <1>4, <1>6, <2>3, RefFacts
    <3> QED BY <2>1, <3>1, FS_EmptySet
  <2> QED BY <2>2, <2>3
<1> QED BY <1>1, <1>3, <1>6, <1>7, <1>8, <1>9, RefFacts, RefStep

\* The object is marked dead, then deleted.
LEMMA DieStep ==
    ASSUME RefIInv, NEW t \in Holders, ReleaseMarksDead(t) \/ ReleaseDeletes(t)
    PROVE  RefIInv'
<1>1. /\ UNCHANGED <<strong, revived>>
      /\ \/ doing[t] = "dying" /\ Goes(t, "deleting") /\ obj' = [obj EXCEPT !.alive = FALSE]
         \/ doing[t] = "deleting" /\ Goes(t, "idle") /\ obj' = [obj EXCEPT !.alive = FALSE, !.freed = TRUE]
  BY DEF ReleaseMarksDead, ReleaseDeletes
<1>2. /\ obj' \in [count : Nat, alive : BOOLEAN, mutex : BOOLEAN, freed : BOOLEAN]
      /\ obj'.count = obj.count /\ obj'.mutex = obj.mutex /\ ~obj'.alive
      /\ obj'.freed <=> obj.freed \/ doing[t] = "deleting"
  <2>1. CASE doing[t] = "dying" /\ obj' = [obj EXCEPT !.alive = FALSE]
    BY <2>1, RefFacts
  <2>2. CASE doing[t] = "deleting" /\ obj' = [obj EXCEPT !.alive = FALSE, !.freed = TRUE]
    BY <2>2, RefFacts
  <2> QED BY <1>1, <2>1, <2>2
<1>3. /\ doing' \in [Holders -> Places] /\ t \in Deleting
      /\ In("adopting")' = In("adopting") /\ In("upgrading")' = In("upgrading")
      /\ Deleting' = IF doing[t] = "dying" THEN Deleting \cup {t} ELSE Deleting \ {t}
  <2>1. "deleting" \in Places /\ "idle" \in Places
    BY DEF Places
  <2> QED BY <1>1, <2>1, DoingChanges
<1>4. CountExact' /\ Pointers' = Pointers
  BY <1>1, <1>2, <1>3, RefUnchanged DEF CountExact, RefIInv, RefInv
<1>5. FreedExactly'
  <2> SUFFICES ASSUME ~revived
               PROVE  /\ obj'.count = 0 /\ Cardinality(Deleting') <= 1
                      /\ obj'.freed => Deleting' = {}
    BY <1>1, <1>2 DEF FreedExactly
  <2>1. obj.count = 0 /\ Cardinality(Deleting) <= 1 /\ ~obj.freed
    BY <1>3 DEF FreedExactly, RefIInv, RefInv
  <2>2. CASE doing[t] = "dying"
    <3>1. Deleting' = Deleting
      BY <1>3, <2>2
    <3> QED BY <1>2, <2>1, <2>2, <3>1
  <2>3. CASE doing[t] # "dying"
    <3>1. PICK S : S = Deleting
      OBVIOUS
    <3>2. IsFiniteSet(S) /\ t \in S /\ Cardinality(S) \in Nat /\ Cardinality(S) <= 1
      BY <1>3, <2>1, <3>1, RefFacts
    <3>3. Cardinality(S \ {t}) = Cardinality(S) - 1 /\ IsFiniteSet(S \ {t}) /\ Cardinality(S \ {t}) \in Nat
      BY <3>2, FS_RemoveElement, FS_CardinalityType
    <3>4. Cardinality(S \ {t}) = 0
      BY <3>2, <3>3
    <3>5. S \ {t} = {}
      BY <3>3, <3>4, FS_EmptySet
    <3> QED BY <1>2, <1>3, <2>1, <2>3, <3>1, <3>4, <3>5
  <2> QED BY <2>2, <2>3
<1> QED BY <1>1, <1>2, <1>3, <1>4, <1>5, RefFacts, RefStep DEF RefIInv

\* An upgrade begins, finds the object alive and takes the mutex, or gives up.
LEMMA LockStep ==
    ASSUME RefIInv, NEW t \in Holders, WeakLock(t) \/ WeakLockTests(t)
    PROVE  RefIInv'
<1> DEFINE w == IF doing[t] = "idle" THEN "locking" ELSE IF obj.alive THEN "upgrading" ELSE "idle"
<1>1. /\ UNCHANGED <<strong, revived>> /\ Goes(t, w)
      /\ \/ doing[t] = "idle" /\ UNCHANGED obj
         \/ doing[t] = "locking" /\ ~obj.mutex /\ obj' = [obj EXCEPT !.mutex = obj.alive]
  BY DEF WeakLock, WeakLockTests, Free
<1>2. /\ obj' \in [count : Nat, alive : BOOLEAN, mutex : BOOLEAN, freed : BOOLEAN]
      /\ obj'.count = obj.count /\ obj'.alive = obj.alive /\ obj'.freed = obj.freed
  BY <1>1, RefFacts
<1>3. PICK v : v = w
  OBVIOUS
<1>4. v \in Places /\ v \notin {"adopting", "dying", "deleting"} /\ Goes(t, v)
  BY <1>1, <1>3 DEF Places
<1>5. /\ doing' \in [Holders -> Places] /\ In("adopting")' = In("adopting") /\ Deleting' = Deleting \ {t}
      /\ t \notin Deleting
      /\ v = "upgrading" => Cardinality(In("upgrading")') = Cardinality(In("upgrading")) + 1
      /\ v # "upgrading" => In("upgrading")' = In("upgrading")
  BY <1>1, <1>4, DoingChanges
<1>6. Cardinality(In("upgrading")') = IF obj'.mutex THEN 1 ELSE 0
  <2>1. Cardinality(In("upgrading")) = IF obj.mutex THEN 1 ELSE 0
    BY DEF CountExact, RefIInv, RefInv
  <2>2. CASE doing[t] = "idle"
    BY <1>1, <1>3, <1>5, <2>1, <2>2
  <2>3. CASE doing[t] = "locking"
    <3>1. obj'.mutex = obj.alive
      BY <1>1, <2>3, RefFacts
    <3> QED BY <1>1, <1>3, <1>5, <2>1, <2>3, <3>1
  <2> QED BY <1>1, <2>2, <2>3
<1>7. CountExact' /\ Pointers' = Pointers
  BY <1>1, <1>2, <1>5, <1>6, RefUnchanged DEF CountExact, RefIInv, RefInv
<1>8. FreedExactly'
  <2>1. Deleting' = Deleting
    BY <1>5
  <2> QED BY <1>1, <1>2, <2>1 DEF FreedExactly, RefIInv, RefInv
<1> QED BY <1>1, <1>2, <1>5, <1>7, <1>8, RefFacts, RefStep DEF RefIInv

\* The upgrade takes its reference, from zero or not.
LEMMA UpgradeStep ==
    ASSUME RefIInv, NEW t \in Holders, WeakLockAddRef(t)
    PROVE  RefIInv'
<1>1. /\ doing[t] = "upgrading" /\ Goes(t, "idle") /\ obj' = [obj EXCEPT !.count = @ + 1, !.mutex = FALSE]
      /\ strong' = [strong EXCEPT ![t] = @ + 1] /\ revived' = (revived \/ obj.count = 0)
  BY DEF WeakLockAddRef
<1>2. /\ obj' \in [count : Nat, alive : BOOLEAN, mutex : BOOLEAN, freed : BOOLEAN]
      /\ obj'.count = obj.count + 1 /\ ~obj'.mutex /\ obj'.alive = obj.alive /\ obj'.freed = obj.freed
  <2>1. obj \in [count : Nat, alive : BOOLEAN, mutex : BOOLEAN, freed : BOOLEAN]
    BY RefFacts
  <2>2. obj' = [obj EXCEPT !.count = obj.count + 1, !.mutex = FALSE]
    BY <1>1
  <2>3. obj.count + 1 \in Nat /\ FALSE \in BOOLEAN
    BY <2>1
  <2>4. PICK n : n = obj.count + 1
    OBVIOUS
  <2>5. obj' = [obj EXCEPT !.count = n, !.mutex = FALSE] /\ n \in Nat
    BY <2>2, <2>3, <2>4
  <2>6. /\ obj' \in [count : Nat, alive : BOOLEAN, mutex : BOOLEAN, freed : BOOLEAN]
        /\ obj'.count = n /\ ~obj'.mutex /\ obj'.alive = obj.alive /\ obj'.freed = obj.freed
    BY <2>1, <2>5
  <2> QED BY <2>4, <2>6
<1>3. /\ doing' \in [Holders -> Places] /\ In("adopting")' = In("adopting") /\ Deleting' = Deleting \ {t}
      /\ Cardinality(In("upgrading")') = Cardinality(In("upgrading")) - 1 /\ Cardinality(In("upgrading")) >= 1
  <2>1. "idle" \in Places
    BY DEF Places
  <2> QED BY <1>1, <2>1, DoingChanges
<1>4. strong' \in [Holders -> Nat] /\ IsFiniteSet(Pointers') /\ Cardinality(Pointers') = Cardinality(Pointers) + 1
  BY <1>1, StrongChanges
<1>5. CountExact'
  <2>1. Cardinality(In("upgrading")) = 1
    BY <1>3 DEF CountExact, RefIInv, RefInv
  <2> QED BY <1>2, <1>3, <1>4, <2>1, RefFacts DEF CountExact, RefIInv, RefInv
<1>6. FreedExactly'
  <2> SUFFICES ASSUME ~revived' PROVE Deleting' = {} /\ ~obj'.freed /\ obj'.alive /\ obj'.count # 0
    BY FS_EmptySet DEF FreedExactly
  <2>1. ~revived /\ obj.count # 0 /\ obj.count \in Nat
    <3>1. ~(revived \/ obj.count = 0)
      BY <1>1
    <3> QED BY <3>1, RefFacts
  <2>2. obj.count > 0
    BY <2>1
  <2>3. ~obj.freed /\ obj.alive /\ Deleting = {}
    BY <2>1, <2>2, Counted
  <2> QED BY <1>2, <1>3, <2>1, <2>3
<1>7. revived' \in BOOLEAN
  BY <1>1
<1> QED BY <1>2, <1>3, <1>4, <1>5, <1>6, <1>7, RefStep

\* A new object, held by its creator.
LEMMA RefInitIInv == RefInit => RefIInv
<1> SUFFICES ASSUME RefInit PROVE RefIInv
  OBVIOUS
<1>1. RefTypeOK
  BY RefAssumption DEF RefInit, RefTypeOK
<1>2. Pointers = {<<Creator, 1>>}
  BY RefAssumption DEF RefInit, Pointers
<1>3. \A x : x # "idle" => In(x) = {}
  BY DEF RefInit, In
<1>4. Deleting = {} /\ In("adopting") = {} /\ In("upgrading") = {}
  BY <1>3 DEF Deleting
<1>5. IsFiniteSet(Pointers) /\ Cardinality(Pointers) = 1 /\ Cardinality({}) = 0
  BY <1>2, FS_Singleton, FS_EmptySet
<1>6. CountExact /\ FreedExactly
  BY <1>4, <1>5 DEF RefInit, CountExact, FreedExactly
<1> QED BY <1>1, <1>5, <1>6 DEF RefIInv, RefInv

\* Every step preserves the invariant.
LEMMA RefNextIInv == RefIInv /\ [RefNext]_refVars => RefIInv'
<1> SUFFICES ASSUME RefIInv, [RefNext]_refVars PROVE RefIInv'
  OBVIOUS
<1>1. ASSUME NEW t \in Holders, CopyPointer(t) \/ ResetPointer(t) \/ Release(t) \/ WeakLock(t) \/ RefSteps(t)
      PROVE  RefIInv'
  BY <1>1, TakeStep, DropStep, DieStep, LockStep, UpgradeStep DEF RefSteps
<1>2. ASSUME NEW t \in Holders, NEW u \in Holders, MovePointer(t, u) PROVE RefIInv'
  BY <1>2, MoveStep
<1>3. CASE UNCHANGED refVars
  BY <1>3, RefUnchanged DEF refVars, RefIInv, RefInv, RefTypeOK, CountExact, FreedExactly
<1> QED BY <1>1, <1>2, <1>3 DEF RefNext

\* For any threads that copy, move, reset, release and upgrade: m_nRefCount is the
\* number of strong pointers, and unless a Lock() took the count up from zero the
\* object is freed once, when the last pointer is gone and not before.
THEOREM RefInvHolds == RefSpec => []RefInv
<1>1. RefIInv => RefInv
  BY DEF RefIInv
<1> QED BY <1>1, RefInitIInv, RefNextIInv, PTL DEF RefSpec

\* The one way to a dangling pointer is the one the weak_ptr run shows: while no
\* Lock() has taken the count up from zero, who holds a strong pointer holds an object.
THEOREM DanglesOnlyIfRevived == RefSpec => [](~revived => LockNeverDangles)
<1>1. ASSUME RefIInv, ~revived PROVE LockNeverDangles
  BY <1>1, Counted, RefFacts DEF LockNeverDangles
<1> QED BY <1>1, RefInitIInv, RefNextIInv, PTL DEF RefSpec

(***************************************************************************)
(* The event dispatcher.                                                   *)
(***************************************************************************)

\* A sequence of numbers that goes up.
Rises(s) == \A j, k \in DOMAIN s : j < k => s[j] < s[k]

\* A sequence that goes up is its numbers in order.
LEMMA RisingIsInOrder ==
    ASSUME NEW s \in Seq(Nat), Rises(s)
    PROVE  IsFiniteSet(Range(s)) /\ s = InOrder(Range(s))
<1> DEFINE S == Range(s)  n == Len(s)  Upto(m) == {j \in S : j <= m}
<1>1. n \in Nat /\ DOMAIN s = 1 .. n /\ s \in [1 .. n -> S] /\ \A k \in 1 .. n : s[k] \in Nat
  BY DEF Range
<1>2. \A j, k \in 1 .. n : j # k => s[j] # s[k]
  BY <1>1 DEF Rises
<1>3. \A i \in S : \E k \in 1 .. n : s[k] = i
  BY <1>1 DEF Range
<1>4. s \in Bijection(1 .. n, S)
  BY <1>1, <1>2, <1>3 DEF Bijection, Injection, Surjection, IsInjective
<1>5. Cardinality(S) = n
  BY <1>1, <1>4, FS_CountingElements DEF ExistsBijection
<1>6. IsFiniteSet(S)
  BY <1>1, <1>4, FS_NatBijection DEF ExistsBijection
<1> HIDE DEF S
<1>7. ASSUME NEW k \in 1 .. n PROVE Cardinality(Upto(s[k])) = k
  <2> DEFINE T == Upto(s[k])  f == [i \in 1 .. k |-> s[i]]
  <2>1. \A i \in 1 .. n : i <= k <=> s[i] <= s[k]
    BY <1>1, SMTT(40) DEF Rises
  <2>2. f \in [1 .. k -> T]
    BY <1>1, <2>1
  <2>3. \A i, j \in 1 .. k : i # j => f[i] # f[j]
    BY <1>1, <1>2
  <2>4. ASSUME NEW j \in T PROVE \E i \in 1 .. k : f[i] = j
    <3>1. PICK i \in 1 .. n : s[i] = j
      BY <1>3
    <3>2. i <= k
      BY <2>1, <3>1
    <3> QED BY <1>1, <3>1, <3>2
  <2>5. f \in Bijection(1 .. k, T)
    <3> HIDE DEF f, T
    <3> QED BY <2>2, <2>3, <2>4 DEF Bijection, Injection, Surjection, IsInjective
  <2> HIDE DEF f, T
  <2>6. Cardinality(T) = k
    BY <1>1, <2>5, FS_CountingElements DEF ExistsBijection
  <2> QED BY <2>6 DEF T
<1>8. ASSUME NEW k \in 1 .. n PROVE s[k] = CHOOSE m \in S : Cardinality(Upto(m)) = k
  <2>1. s[k] \in S /\ Cardinality(Upto(s[k])) = k
    BY <1>1, <1>7
  <2>2. ASSUME NEW m \in S, Cardinality(Upto(m)) = k PROVE m = s[k]
    <3>1. PICK i \in 1 .. n : s[i] = m
      BY <1>3
    <3>2. Cardinality(Upto(m)) = i
      BY <1>7, <3>1
    <3> QED BY <2>2, <3>1, <3>2
  <2> HIDE DEF Upto
  <2> QED BY <2>1, <2>2
<1>9. InOrder(S) = [k \in 1 .. n |-> CHOOSE m \in S : Cardinality(Upto(m)) = k]
  BY <1>5 DEF InOrder
<1>10. s = [k \in 1 .. n |-> s[k]]
  BY <1>1
<1> HIDE DEF Upto
<1>11. s = InOrder(S)
  BY <1>8, <1>9, <1>10
<1> QED BY <1>6, <1>11 DEF S

\* A filter that keeps every position keeps the sequence.
LEMMA KeepsAll ==
    ASSUME NEW s \in Seq(Nat), NEW S, S = DOMAIN s
    PROVE  Selected(s, InOrder(S)) = s
<1> DEFINE t == [k \in 1 .. Len(s) |-> k]
<1>1. t \in Seq(Nat) /\ DOMAIN t = 1 .. Len(s) /\ Range(t) = S /\ DOMAIN s = 1 .. Len(s)
  <2>1. Len(s) \in Nat /\ DOMAIN s = 1 .. Len(s)
    OBVIOUS
  <2>2. t \in Seq(Nat) /\ DOMAIN t = 1 .. Len(s)
    BY <2>1
  <2>3. Range(t) = 1 .. Len(s)
    BY <2>1 DEF Range
  <2> QED BY <2>1, <2>2, <2>3
<1>2. Rises(t)
  BY <1>1 DEF Rises
<1>3. t = InOrder(S)
  BY <1>1, <1>2, RisingIsInOrder
<1>4. Selected(s, t) = s
  BY <1>1 DEF Selected
<1> HIDE DEF t
<1> QED BY <1>3, <1>4

\* What is appended to a rising sequence is its last number.
LEMMA RisesAppended ==
    ASSUME NEW s \in Seq(Nat), Rises(s), NEW n \in Nat, \A i \in Range(s) : i < n
    PROVE  Append(s, n) \in Seq(Nat) /\ Rises(Append(s, n)) /\ Range(Append(s, n)) = Range(s) \cup {n}
<1>1. /\ Append(s, n) \in Seq(Nat) /\ DOMAIN s = 1 .. Len(s) /\ Len(s) \in Nat
      /\ DOMAIN Append(s, n) = 1 .. Len(s) + 1
      /\ \A k \in 1 .. Len(s) : Append(s, n)[k] = s[k] /\ s[k] \in Nat /\ s[k] < n
      /\ Append(s, n)[Len(s) + 1] = n
  BY DEF Range
<1>2. Rises(Append(s, n))
  BY <1>1 DEF Rises
<1>3. Range(Append(s, n)) = Range(s) \cup {n}
  BY <1>1 DEF Range
<1> QED BY <1>1, <1>2, <1>3

\* A number that is taken out of a rising sequence is in it no more.
LEMMA RisesRemoved ==
    ASSUME NEW s \in Seq(Nat), Rises(s), NEW n \in Range(s)
    PROVE  /\ RemoveFirst(s, n) \in Seq(Nat) /\ Rises(RemoveFirst(s, n))
           /\ Range(RemoveFirst(s, n)) = Range(s) \ {n}
<1>1. PICK p \in 1 .. Len(s) : s[p] = n
  BY DEF Range
<1>2. DOMAIN s = 1 .. Len(s) /\ Len(s) \in Nat /\ \A k \in 1 .. Len(s) : s[k] \in Nat /\ (s[k] = n <=> k = p)
  BY <1>1 DEF Rises
<1>3. {i \in 1 .. Len(s) : s[i] = n} = {p}
  BY <1>2
<1>4. SelectInSeq(s, LAMBDA v : v = n) = p
  <2>1. Min({p}) = p
    BY <1>1 DEF Min
  <2> QED BY <1>3, <2>1 DEF SelectInSeq
<1> DEFINE r == [k \in 1 .. Len(s) - 1 |-> IF k < p THEN s[k] ELSE s[k + 1]]
<1>5. RemoveFirst(s, n) = RemoveAt(s, p)
  BY <1>1, <1>4 DEF RemoveFirst
<1>6. RemoveAt(s, p) = r
  <2> DEFINE a == SubSeq(s, 1, p - 1)  b == SubSeq(s, p + 1, Len(s))
  <2>1. Len(s) \in Nat /\ p \in Nat /\ p >= 1 /\ p <= Len(s)
    BY <1>1
  <2>2. a \in Seq(Nat) /\ Len(a) = p - 1 /\ \A k \in 1 .. p - 1 : a[k] = s[k]
    BY <2>1
  <2>3. b \in Seq(Nat) /\ Len(b) = Len(s) - p
    BY <2>1
  <2>4. \A k \in 1 .. Len(s) - p : b[k] = s[k + p]
    BY <2>1
  <2> HIDE DEF a, b
  <2>5. PICK c : c = a \o b
    OBVIOUS
  <2>6. c \in Seq(Nat) /\ Len(c) = Len(s) - 1
    <3>1. a \in Seq(Nat) /\ b \in Seq(Nat)
      BY <2>2, <2>3
    <3>2. c \in Seq(Nat) /\ Len(c) = Len(a) + Len(b)
      BY <3>1, <2>5
    <3> QED BY <2>1, <2>2, <2>3, <3>2
  <2>7. \A k \in 1 .. Len(s) - 1 : c[k] = IF k < p THEN a[k] ELSE b[k - (p - 1)]
    <3>1. a \in Seq(Nat) /\ b \in Seq(Nat)
      BY <2>2, <2>3
    <3>2. \A k \in 1 .. Len(a) + Len(b) : c[k] = IF k <= Len(a) THEN a[k] ELSE b[k - Len(a)]
      BY <3>1, <2>5
    <3>3. Len(a) + Len(b) = Len(s) - 1 /\ Len(a) = p - 1 /\ Len(s) \in Nat /\ p \in Nat
      BY <2>1, <2>2, <2>3
    <3> QED BY <3>2, <3>3, SMTT(40)
  <2>8. \A k \in 1 .. Len(s) - 1 : c[k] = r[k]
    BY <1>1, <1>2, <2>2, <2>4, <2>7
  <2>9. c = r
    BY <2>6, <2>8, SMTT(40)
  <2> QED BY <2>5, <2>9 DEF RemoveAt, a, b
<1>7. r \in Seq(Nat) /\ DOMAIN r = 1 .. Len(s) - 1
  BY <1>1, <1>2
<1>8. Rises(r)
  <2>1. \A j, k \in 1 .. Len(s) : j < k => s[j] < s[k]
    BY <1>2 DEF Rises
  <2>2. ASSUME NEW j \in 1 .. Len(s) - 1, NEW k \in 1 .. Len(s) - 1, j < k PROVE r[j] < r[k]
    BY <1>1, <1>2, <2>1, <2>2
  <2> HIDE DEF r
  <2> QED BY <1>7, <2>2 DEF Rises
<1>9. Range(r) = Range(s) \ {n}
  <2>1. ASSUME NEW x \in Range(r) PROVE x \in Range(s) \ {n}
    BY <1>1, <1>2, <2>1 DEF Range
  <2>2. ASSUME NEW x \in Range(s) \ {n} PROVE x \in Range(r)
    <3>1. PICK k \in 1 .. Len(s) : s[k] = x /\ k # p
      BY <1>1 DEF Range
    <3>2. CASE k < p
      <4>1. k \in DOMAIN r /\ r[k] = x
        BY <1>1, <1>2, <3>1, <3>2
      <4> QED BY <4>1 DEF Range
    <3>3. CASE k > p
      <4>1. k - 1 \in DOMAIN r /\ r[k - 1] = x
        BY <1>1, <1>2, <3>1, <3>3
      <4> QED BY <4>1 DEF Range
    <3> QED BY <3>1, <3>2, <3>3, <1>1
  <2> QED BY <2>1, <2>2
<1> HIDE DEF r
<1> QED BY <1>5, <1>6, <1>7, <1>8, <1>9

\* What the two maps are, whatever the type: each id is below the next one, and
\* listed, counting up, under its type and no other.
TableAt(table) ==
    /\ table \in [nextId : Nat, typeOf : UNION {[D -> EventTypes] : D \in SUBSET Nat}, byType : [EventTypes -> Seq(Nat)]]
    /\ \A i \in DOMAIN table.typeOf : i < table.nextId
    /\ \A type \in EventTypes :
         /\ Rises(table.byType[type])
         /\ \A i : i \in Range(table.byType[type]) <=> i \in DOMAIN table.typeOf /\ table.typeOf[i] = type

\* The parts of a table.
LEMMA TableParts ==
    ASSUME NEW table, TableAt(table)
    PROVE  /\ table = [nextId |-> table.nextId, typeOf |-> table.typeOf, byType |-> table.byType]
           /\ table.nextId \in Nat /\ table.byType \in [EventTypes -> Seq(Nat)]
           /\ DOMAIN table.typeOf \in SUBSET Nat /\ table.typeOf \in [DOMAIN table.typeOf -> EventTypes]
<1>1. PICK D \in SUBSET Nat : table.typeOf \in [D -> EventTypes]
  BY DEF TableAt
<1>2. DOMAIN table.typeOf = D
  BY <1>1
<1> QED BY <1>1, <1>2 DEF TableAt

\* What a publication takes from the two maps is what the first alone says.
LEMMA TableTargets ==
    ASSUME NEW table, TableAt(table), NEW type \in EventTypes
    PROVE  /\ Targets(table, type) = table.byType[type] /\ Subscribers(table, type) = table.byType[type]
           /\ table.byType[type] \in Seq(Nat) /\ \A i \in Range(table.byType[type]) : Known(table, i)
<1>1. PICK s \in Seq(Nat) : s = table.byType[type]
  BY TableParts
<1>2. Rises(s) /\ \A i : i \in Range(s) <=> i \in DOMAIN table.typeOf /\ table.typeOf[i] = type
  BY <1>1 DEF TableAt
<1>3. Subscribers(table, type) = s
  <2>1. Range(s) = {i \in DOMAIN table.typeOf : table.typeOf[i] = type}
    BY <1>2
  <2> QED BY <1>2, <2>1, RisingIsInOrder DEF Subscribers
<1>4. \A i \in Range(s) : Known(table, i)
  BY <1>2 DEF Known
<1>5. {k \in DOMAIN s : Known(table, s[k])} = DOMAIN s
  BY <1>4 DEF Range
<1>6. Targets(table, type) = Selected(s, InOrder({k \in DOMAIN s : Known(table, s[k])}))
  BY <1>1 DEF Targets
<1>7. Targets(table, type) = s
  BY <1>5, <1>6, KeepsAll
<1> QED BY <1>1, <1>3, <1>4, <1>7

\* Subscribe keeps the two maps in step.
LEMMA TableAdded ==
    ASSUME NEW table, TableAt(table), NEW type \in EventTypes
    PROVE  TableAt(Added(table, type)) /\ \A i : Known(table, i) => Known(Added(table, type), i)
<1>1. PICK n, o, b : n = table.nextId /\ o = table.typeOf /\ b = table.byType
  OBVIOUS
<1>2. n \in Nat /\ b \in [EventTypes -> Seq(Nat)] /\ DOMAIN o \in SUBSET Nat /\ o \in [DOMAIN o -> EventTypes]
  BY <1>1, TableParts
<1>3. /\ \A i \in DOMAIN o : i < n
      /\ \A t \in EventTypes : /\ Rises(b[t])
                               /\ \A i : i \in Range(b[t]) <=> i \in DOMAIN o /\ o[i] = t
  BY <1>1 DEF TableAt
<1> DEFINE o2 == [i \in DOMAIN o \cup {n} |-> IF i = n THEN type ELSE o[i]]
           b2 == [b EXCEPT ![type] = Append(b[type], n)]
<1>4. Added(table, type) = [nextId |-> n + 1, typeOf |-> o2, byType |-> b2]
  BY <1>1 DEF Added
<1>5. /\ o2 \in [DOMAIN o \cup {n} -> EventTypes] /\ DOMAIN o2 = DOMAIN o \cup {n}
      /\ \A i \in DOMAIN o : o2[i] = o[i] /\ i # n
      /\ o2[n] = type
  BY <1>2, <1>3
<1>6. /\ Append(b[type], n) \in Seq(Nat) /\ Rises(Append(b[type], n))
      /\ Range(Append(b[type], n)) = Range(b[type]) \cup {n}
  <2>1. b[type] \in Seq(Nat) /\ Rises(b[type]) /\ \A i \in Range(b[type]) : i < n
    BY <1>2, <1>3
  <2> QED BY <2>1, <1>2, RisesAppended
<1>7. b2 \in [EventTypes -> Seq(Nat)] /\ b2[type] = Append(b[type], n) /\ \A t \in EventTypes \ {type} : b2[t] = b[t]
  BY <1>2, <1>6
<1> HIDE DEF o2, b2
<1>8. ASSUME NEW t \in EventTypes
      PROVE  Rises(b2[t]) /\ \A i : i \in Range(b2[t]) <=> i \in DOMAIN o2 /\ o2[i] = t
  <2>1. CASE t = type
    BY <1>3, <1>5, <1>6, <1>7, <2>1
  <2>2. CASE t # type
    BY <1>3, <1>5, <1>7, <2>2
  <2> QED BY <2>1, <2>2
<1>9. \A i \in DOMAIN o2 : i < n + 1
  BY <1>2, <1>3, <1>5
<1>10. o2 \in UNION {[D -> EventTypes] : D \in SUBSET Nat}
  BY <1>2, <1>5
<1>11. TableAt([nextId |-> n + 1, typeOf |-> o2, byType |-> b2])
  BY <1>2, <1>7, <1>8, <1>9, <1>10 DEF TableAt
<1> QED BY <1>1, <1>4, <1>5, <1>11 DEF Known

\* Unsubscribe keeps the two maps in step.
LEMMA TableRemoved ==
    ASSUME NEW table, TableAt(table), NEW id, Known(table, id)
    PROVE  TableAt(Removed(table, id)) /\ \A i : Known(table, i) /\ i # id => Known(Removed(table, id), i)
<1>1. PICK n, o, b : n = table.nextId /\ o = table.typeOf /\ b = table.byType
  OBVIOUS
<1>2. /\ n \in Nat /\ b \in [EventTypes -> Seq(Nat)] /\ DOMAIN o \in SUBSET Nat /\ o \in [DOMAIN o -> EventTypes]
      /\ table = [nextId |-> n, typeOf |-> o, byType |-> b]
  BY <1>1, TableParts
<1>3. /\ \A i \in DOMAIN o : i < n
      /\ \A t \in EventTypes : /\ Rises(b[t])
                               /\ \A i : i \in Range(b[t]) <=> i \in DOMAIN o /\ o[i] = t
  BY <1>1 DEF TableAt
<1>4. id \in DOMAIN o
  BY <1>1 DEF Known
<1>5. PICK type \in EventTypes : type = o[id]
  BY <1>2, <1>4
<1> DEFINE o2 == Restrict(o, DOMAIN o \ {id})
           b2 == [b EXCEPT ![type] = RemoveFirst(b[type], id)]
<1>6. Removed(table, id) = [nextId |-> n, typeOf |-> o2, byType |-> b2]
  <2>1. table.typeOf = o /\ table.byType = b /\ table.nextId = n /\ table.typeOf[id] = type
    BY <1>1, <1>5
  <2> QED BY <2>1 DEF Removed
<1>7. /\ o2 \in [DOMAIN o \ {id} -> EventTypes] /\ DOMAIN o2 = DOMAIN o \ {id}
      /\ \A i \in DOMAIN o \ {id} : o2[i] = o[i]
  BY <1>2 DEF Restrict
<1>8. /\ RemoveFirst(b[type], id) \in Seq(Nat) /\ Rises(RemoveFirst(b[type], id))
      /\ Range(RemoveFirst(b[type], id)) = Range(b[type]) \ {id}
  <2>1. b[type] \in Seq(Nat) /\ Rises(b[type]) /\ id \in Range(b[type])
    BY <1>2, <1>3, <1>4, <1>5
  <2> QED BY <2>1, RisesRemoved
<1>9. b2 \in [EventTypes -> Seq(Nat)] /\ b2[type] = RemoveFirst(b[type], id) /\ \A t \in EventTypes \ {type} : b2[t] = b[t]
  BY <1>2, <1>8
<1> HIDE DEF o2, b2
<1>10. ASSUME NEW t \in EventTypes
       PROVE  Rises(b2[t]) /\ \A i : i \in Range(b2[t]) <=> i \in DOMAIN o2 /\ o2[i] = t
  <2>1. CASE t = type
    BY <1>3, <1>7, <1>8, <1>9, <2>1
  <2>2. CASE t # type
    BY <1>3, <1>5, <1>7, <1>9, <2>2
  <2> QED BY <2>1, <2>2
<1>11. \A i \in DOMAIN o2 : i < n
  BY <1>3, <1>7
<1>12. o2 \in UNION {[D -> EventTypes] : D \in SUBSET Nat}
  BY <1>2, <1>7
<1>13. TableAt([nextId |-> n, typeOf |-> o2, byType |-> b2])
  BY <1>2, <1>9, <1>10, <1>11, <1>12 DEF TableAt
<1> QED BY <1>1, <1>6, <1>7, <1>13 DEF Known

\* A publication: its targets are those of its beginning, those called first, and
\* each one that is left is known or was taken out since.
PublishAt(p, table, gone) ==
    /\ p \in [on : BOOLEAN, left : Seq(Nat), got : Seq(Nat), want : Seq(Nat)]
    /\ p.got \o p.left = p.want
    /\ \A id \in Range(p.left) : Known(table, id) \/ id \in gone

\* The inductive invariant of the dispatcher: without the order and the contents
\* of each list, neither map says what removing an id leaves in the other.
DispatchIInv ==
    /\ TableAt(subs)
    /\ publishing = [t \in Publishers \cup {AsyncWorker} |-> publishing[t]]
    /\ \A t \in DOMAIN publishing : PublishAt(publishing[t], subs, missed)
    /\ asyncQueue \in Seq(EventTypes)

\* The invariant holds in the beginning.
LEMMA DispatcherInitHolds == DispatcherInit => DispatchIInv
<1> SUFFICES ASSUME DispatcherInit PROVE DispatchIInv
  OBVIOUS
<1>1. TableAt(subs)
  <2> DEFINE b == [t \in EventTypes |-> <<>>]
  <2>1. subs = [nextId |-> 1, typeOf |-> <<>>, byType |-> b]
    BY DEF DispatcherInit, EmptyTable
  <2>2. b \in [EventTypes -> Seq(Nat)] /\ \A t \in EventTypes : b[t] = <<>>
    OBVIOUS
  <2>3. DOMAIN <<>> = {} /\ <<>> \in [{} -> EventTypes] /\ <<>> \in UNION {[D -> EventTypes] : D \in SUBSET Nat}
    <3>1. <<>> \in [{} -> EventTypes] /\ {} \in SUBSET Nat /\ DOMAIN <<>> = {}
      OBVIOUS
    <3> QED BY <3>1
  <2>4. Rises(<<>>) /\ Range(<<>>) = {}
    BY <2>3 DEF Rises, Range
  <2> HIDE DEF b
  <2> QED BY <2>1, <2>2, <2>3, <2>4 DEF TableAt
<1>2. PublishAt(NotPublishing, subs, missed)
  BY DEF PublishAt, NotPublishing, Range
<1> QED BY <1>1, <1>2 DEF DispatchIInv, DispatcherInit

\* A publication begins with the targets of the moment.
LEMMA BeginKeeps ==
    ASSUME DispatchIInv, NEW t \in DOMAIN publishing, NEW type \in EventTypes, BeginPublish(t, type),
           UNCHANGED <<subs, missed>>
    PROVE  /\ publishing' = [u \in Publishers \cup {AsyncWorker} |-> publishing'[u]]
           /\ \A u \in DOMAIN publishing' : PublishAt(publishing'[u], subs', missed')
<1>1. PICK s \in Seq(Nat) : /\ s = Targets(subs, type) /\ s = Subscribers(subs, type)
                            /\ \A i \in Range(s) : Known(subs, i)
  BY TableTargets DEF DispatchIInv
<1>2. PICK p : p = [on |-> TRUE, left |-> s, got |-> <<>>, want |-> s]
  OBVIOUS
<1>3. publishing' = [publishing EXCEPT ![t] = p]
  BY <1>1, <1>2 DEF BeginPublish
<1>4. PublishAt(p, subs, missed)
  <2>1. p.on = TRUE /\ p.left = s /\ p.got = <<>> /\ p.want = s
    BY <1>2
  <2>2. p \in [on : BOOLEAN, left : Seq(Nat), got : Seq(Nat), want : Seq(Nat)]
    BY <1>2
  <2>3. <<>> \o s = s
    OBVIOUS
  <2> QED BY <1>1, <2>1, <2>2, <2>3 DEF PublishAt
<1> QED BY <1>3, <1>4 DEF DispatchIInv

\* The next target is called.
LEMMA CallKeeps ==
    ASSUME DispatchIInv, NEW t \in DOMAIN publishing, CallHandler(t)
    PROVE  DispatchIInv'
<1>1. PICK p : p = publishing[t]
  OBVIOUS
<1>2. PICK l, g : l = p.left /\ g = p.got
  OBVIOUS
<1>3. /\ p \in [on : BOOLEAN, left : Seq(Nat), got : Seq(Nat), want : Seq(Nat)]
      /\ l \in Seq(Nat) /\ l # <<>> /\ g \in Seq(Nat)
      /\ g \o l = p.want /\ \A i \in Range(l) : Known(subs, i) \/ i \in missed
  <2>1. PublishAt(p, subs, missed) /\ p.left # <<>>
    BY <1>1 DEF DispatchIInv, CallHandler
  <2> QED BY <1>2, <2>1 DEF PublishAt
<1>4. PICK a, b : a = Tail(l) /\ b = Append(g, Head(l))
  OBVIOUS
<1>5. PICK q : q = [p EXCEPT !.left = a, !.got = b]
  OBVIOUS
<1>6. publishing' = [publishing EXCEPT ![t] = q]
  BY <1>1, <1>2, <1>4, <1>5 DEF CallHandler
<1>7. a \in Seq(Nat) /\ b \in Seq(Nat) /\ Head(l) \in Nat /\ \A i \in Range(a) : i \in Range(l)
  <2>1. l \in Seq(Nat) /\ l # <<>> /\ g \in Seq(Nat)
    BY <1>3
  <2>2. a \in Seq(Nat) /\ Head(l) \in Nat
    BY <2>1, <1>4
  <2>3. b \in Seq(Nat)
    BY <2>1, <2>2, <1>4
  <2>4. Len(a) = Len(l) - 1 /\ \A k \in 1 .. Len(a) : a[k] = l[k + 1]
    BY <2>1, <1>4
  <2>5. \A i \in Range(a) : i \in Range(l)
    <3> SUFFICES ASSUME NEW i \in Range(a) PROVE i \in Range(l)
      OBVIOUS
    <3>1. PICK k \in 1 .. Len(a) : i = l[k + 1]
      BY <2>2, <2>4 DEF Range
    <3>2. k + 1 \in 1 .. Len(l)
      BY <2>1, <2>4
    <3> QED BY <2>1, <3>1, <3>2 DEF Range
  <2> QED BY <2>2, <2>3, <2>5
<1>8. b \o a = g \o l
  <2>1. PICK h \in Nat : h = Head(l)
    BY <1>7
  <2>2. <<h>> \o a = l
    BY <1>3, <1>4, <2>1
  <2>3. b = g \o <<h>> /\ <<h>> \in Seq(Nat)
    BY <1>3, <1>4, <2>1, AppendIsConcat, SMTT(40)
  <2>4. (g \o <<h>>) \o a = g \o (<<h>> \o a)
    <3>1. g \in Seq(Nat) /\ a \in Seq(Nat) /\ <<h>> \in Seq(Nat)
      BY <1>3, <1>7, <2>3
    <3> QED BY <3>1, ConcatAssociative
  <2> QED BY <2>2, <2>3, <2>4
<1>9. PublishAt(q, subs, missed)
  <2>1. q \in [on : BOOLEAN, left : Seq(Nat), got : Seq(Nat), want : Seq(Nat)]
    BY <1>3, <1>5, <1>7
  <2>2. q.left = a /\ q.got = b /\ q.want = p.want
    BY <1>3, <1>5
  <2> QED BY <1>3, <1>7, <1>8, <2>1, <2>2 DEF PublishAt
<1>10. UNCHANGED <<subs, asyncQueue, missed>>
  BY DEF CallHandler
<1> QED BY <1>6, <1>9, <1>10 DEF DispatchIInv

\* A change of the table leaves what is published known, or taken out.
LEMMA TableKeeps ==
    ASSUME DispatchIInv, NEW id, TableAt(subs'), UNCHANGED <<publishing, asyncQueue>>, missed \subseteq missed',
           \A i : Known(subs, i) /\ i # id => Known(subs', i),
           (\E t \in DOMAIN publishing : id \in Range(publishing[t].left)) => Known(subs', id) \/ id \in missed'
    PROVE  DispatchIInv'
<1>1. ASSUME NEW t \in DOMAIN publishing PROVE PublishAt(publishing[t], subs', missed')
  <2>1. PublishAt(publishing[t], subs, missed)
    BY DEF DispatchIInv
  <2>2. ASSUME NEW i \in Range(publishing[t].left) PROVE Known(subs', i) \/ i \in missed'
    BY <2>1, <2>2 DEF PublishAt
  <2> QED BY <2>1, <2>2 DEF PublishAt
<1> QED BY <1>1 DEF DispatchIInv

\* Every step keeps the invariant.
LEMMA DispatcherNextKeeps == DispatchIInv /\ [DispatcherNext]_dispatcherVars => DispatchIInv'
<1> SUFFICES ASSUME DispatchIInv, [DispatcherNext]_dispatcherVars PROVE DispatchIInv'
  OBVIOUS
<1>1. ASSUME NEW type \in EventTypes, Subscribe(type) PROVE DispatchIInv'
  <2>1. TableAt(subs)
    BY DEF DispatchIInv
  <2>2. PICK table : table = Added(subs, type)
    OBVIOUS
  <2>3. TableAt(table) /\ \A i : Known(subs, i) => Known(table, i)
    BY <2>1, <2>2, TableAdded
  <2>4. subs' = table /\ UNCHANGED <<publishing, asyncQueue, missed>>
    BY <1>1, <2>2 DEF Subscribe
  <2>5. ASSUME NEW t \in DOMAIN publishing PROVE PublishAt(publishing[t], table, missed)
    BY <2>3 DEF DispatchIInv, PublishAt
  <2> QED BY <2>3, <2>4, <2>5 DEF DispatchIInv
<1>2. ASSUME NEW id \in 1 .. subs.nextId, Unsubscribe(id) PROVE DispatchIInv'
  <2>1. TableAt(subs)
    BY DEF DispatchIInv
  <2>2. CASE Known(subs, id)
    <3>1. TableAt(Removed(subs, id)) /\ \A i : Known(subs, i) /\ i # id => Known(Removed(subs, id), i)
      BY <2>1, <2>2, TableRemoved
    <3>2. subs' = Removed(subs, id)
      BY <1>2, <2>2 DEF Unsubscribe
    <3>3. /\ missed \subseteq missed' /\ UNCHANGED <<publishing, asyncQueue>>
          /\ (\E t \in DOMAIN publishing : id \in Range(publishing[t].left)) => id \in missed'
      BY <1>2, <2>2 DEF Unsubscribe
    <3> QED BY <3>1, <3>2, <3>3, TableKeeps
  <2>3. CASE ~Known(subs, id)
    <3>1. UNCHANGED <<subs, publishing, asyncQueue, missed>>
      BY <1>2, <2>3 DEF Unsubscribe
    <3> QED BY <3>1 DEF DispatchIInv
  <2> QED BY <2>2, <2>3
<1>3. ASSUME NEW t \in Publishers, NEW type \in EventTypes, Publish(t, type) PROVE DispatchIInv'
  <2>1. t \in DOMAIN publishing
    BY DEF DispatchIInv
  <2>2. BeginPublish(t, type) /\ UNCHANGED <<subs, asyncQueue, missed>>
    BY <1>3 DEF Publish
  <2> QED BY <2>1, <2>2, BeginKeeps DEF DispatchIInv
<1>4. ASSUME NEW t \in Publishers, NEW type \in EventTypes, PublishAsync(t, type) PROVE DispatchIInv'
  <2>1. t \in DOMAIN publishing /\ UNCHANGED <<subs, missed>>
    BY <1>4 DEF DispatchIInv, PublishAsync
  <2>2. CASE executor = "none"
    <3>1. BeginPublish(t, type) /\ UNCHANGED asyncQueue
      BY <1>4, <2>2 DEF PublishAsync
    <3> QED BY <2>1, <3>1, BeginKeeps DEF DispatchIInv
  <2>3. CASE executor # "none"
    <3>1. UNCHANGED publishing /\ asyncQueue' = IF executor = "up" THEN Append(asyncQueue, type) ELSE asyncQueue
      BY <1>4, <2>3 DEF PublishAsync
    <3>2. asyncQueue' \in Seq(EventTypes)
      BY <3>1 DEF DispatchIInv
    <3> QED BY <2>1, <3>1, <3>2 DEF DispatchIInv
  <2> QED BY <2>2, <2>3
<1>5. ASSUME NEW t \in DOMAIN publishing, CallHandler(t) PROVE DispatchIInv'
  BY <1>5, CallKeeps
<1>6. ASSUME NEW t \in DOMAIN publishing, PublishReturns(t) PROVE DispatchIInv'
  <2>1. PublishAt(NotPublishing, subs, missed)
    BY DEF PublishAt, NotPublishing, Range
  <2>2. publishing' = [publishing EXCEPT ![t] = NotPublishing] /\ UNCHANGED <<subs, asyncQueue, missed>>
    BY <1>6 DEF PublishReturns
  <2> QED BY <2>1, <2>2 DEF DispatchIInv
<1>7. ASSUME AsyncPublish PROVE DispatchIInv'
  <2>1. PICK type : type = Head(asyncQueue)
    OBVIOUS
  <2>2. /\ type \in EventTypes /\ Tail(asyncQueue) \in Seq(EventTypes) /\ AsyncWorker \in DOMAIN publishing
    BY <1>7, <2>1 DEF DispatchIInv, AsyncPublish
  <2>3. BeginPublish(AsyncWorker, type) /\ asyncQueue' = Tail(asyncQueue) /\ UNCHANGED <<subs, missed>>
    BY <1>7, <2>1 DEF AsyncPublish
  <2> QED BY <2>2, <2>3, BeginKeeps DEF DispatchIInv
<1>8. ASSUME DispatcherExecutorStops \/ UNCHANGED dispatcherVars PROVE DispatchIInv'
  <2>1. UNCHANGED <<subs, publishing, asyncQueue, missed>>
    BY <1>8 DEF DispatcherExecutorStops, dispatcherVars
  <2> QED BY <2>1 DEF DispatchIInv
<1> QED BY <1>1, <1>2, <1>3, <1>4, <1>5, <1>6, <1>7, <1>8 DEF DispatcherNext

\* The invariant says what the property does.
LEMMA DispatchInvFollows == DispatchIInv => DispatchInv
<1> SUFFICES ASSUME DispatchIInv PROVE DispatchInv
  OBVIOUS
<1>1. MapsAgree
  BY TableTargets DEF MapsAgree, DispatchIInv
<1>2. PublishExact
  BY DEF PublishExact, DispatchIInv, PublishAt
<1> QED BY <1>1, <1>2 DEF DispatchInv

\* For any event types, publishers and number of calls: the two maps of the
\* dispatcher agree, and every Publish calls exactly the handlers subscribed when it
\* began, once each and in order, whatever is changed meanwhile.
THEOREM DispatchInvHolds == DispatcherSpec => []DispatchInv
<1>1. DispatcherInit => DispatchIInv
  BY DispatcherInitHolds
<1>2. DispatchIInv /\ [DispatcherNext]_dispatcherVars => DispatchIInv'
  BY DispatcherNextKeeps
<1>3. DispatchIInv => DispatchInv
  BY DispatchInvFollows
<1> QED BY <1>1, <1>2, <1>3, PTL DEF DispatcherSpec

\* InOrder lists exactly the numbers of a finite set, counting up.
LEMMA InOrderLists ==
    ASSUME NEW S \in SUBSET Nat, IsFiniteSet(S)
    PROVE  /\ InOrder(S) \in Seq(S) /\ Len(InOrder(S)) = Cardinality(S)
           /\ \A j, k \in 1 .. Len(InOrder(S)) : j < k => InOrder(S)[j] < InOrder(S)[k]
           /\ \A i \in S : \E k \in 1 .. Len(InOrder(S)) : InOrder(S)[k] = i
<1> DEFINE Below(i) == {j \in S : j <= i}
           r == [i \in S |-> Cardinality(Below(i))]
           n == Cardinality(S)
<1>1. n \in Nat
  BY FS_CardinalityType
<1>2. ASSUME NEW i \in S PROVE IsFiniteSet(Below(i)) /\ Cardinality(Below(i)) \in 1 .. n
  <2>1. IsFiniteSet(Below(i)) /\ Cardinality(Below(i)) <= n
    BY FS_Subset, Below(i) \subseteq S
  <2>2. Cardinality(Below(i)) \in Nat /\ (Cardinality(Below(i)) = 0 <=> Below(i) = {})
    BY <2>1, FS_CardinalityType, FS_EmptySet
  <2>3. i \in Below(i)
    OBVIOUS
  <2> HIDE DEF Below
  <2> QED BY <2>1, <2>2, <2>3, <1>1
<1>3. ASSUME NEW i \in S, NEW j \in S, i < j
      PROVE  Cardinality(Below(i)) < Cardinality(Below(j))
  <2>1. Below(i) \subseteq Below(j) /\ j \in Below(j) /\ j \notin Below(i)
    <3>1. i \in Nat /\ j \in Nat /\ i < j /\ \A k \in S : k \in Nat
      BY <1>3
    <3>2. \A k \in S : k <= i => k <= j
      BY <3>1
    <3>3. j <= j /\ ~(j <= i)
      BY <3>1
    <3> QED BY <3>2, <3>3
  <2>2. /\ Cardinality(Below(i)) <= Cardinality(Below(j))
        /\ Cardinality(Below(j)) = Cardinality(Below(i)) => Below(j) = Below(i)
    BY <1>2, <2>1, FS_Subset
  <2>3. Cardinality(Below(i)) \in 1 .. n /\ Cardinality(Below(j)) \in 1 .. n
    BY <1>2
  <2> HIDE DEF Below
  <2> QED BY <1>1, <2>1, <2>2, <2>3
<1> HIDE DEF Below
<1>4. r \in [S -> 1 .. n]
  BY <1>2
<1>5. \A i, j \in S : i # j => r[i] # r[j]
  BY <1>1, <1>2, <1>3
<1>6. r \in Injection(S, 1 .. n)
  BY <1>4, <1>5 DEF Injection, IsInjective
<1>7. IsFiniteSet(1 .. n) /\ Cardinality(1 .. n) = n
  <2>1. 1 \in Int /\ n \in Int
    BY <1>1
  <2> QED BY <1>1, <2>1, FS_Interval
<1>8. r \in Surjection(S, 1 .. n)
  BY <1>6, <1>7, FS_Injection
<1>9. ASSUME NEW k \in 1 .. n PROVE InOrder(S)[k] \in S /\ Cardinality(Below(InOrder(S)[k])) = k
  <2>1. PICK i \in S : r[i] = k
    BY <1>8 DEF Surjection
  <2>2. Cardinality({j \in S : j <= i}) = k
    BY <2>1 DEF Below
  <2>3. InOrder(S)[k] = CHOOSE m \in S : Cardinality({j \in S : j <= m}) = k
    BY DEF InOrder
  <2> QED BY <2>2, <2>3 DEF Below
<1>10. InOrder(S) \in [1 .. n -> S]
  BY <1>9 DEF InOrder
<1>11. InOrder(S) \in Seq(S) /\ Len(InOrder(S)) = n
  BY <1>1, <1>10
<1>12. ASSUME NEW j \in 1 .. n, NEW k \in 1 .. n, j < k PROVE InOrder(S)[j] < InOrder(S)[k]
  <2>1. PICK a \in S, b \in S : /\ a = InOrder(S)[j] /\ b = InOrder(S)[k]
                               /\ Cardinality(Below(a)) = j /\ Cardinality(Below(b)) = k
    BY <1>9
  <2>2. a \in Nat /\ b \in Nat
    OBVIOUS
  <2>3. ~(b < a) /\ b # a
    BY <1>1, <1>3, <1>12, <2>1
  <2> QED BY <2>1, <2>2, <2>3
<1>13. ASSUME NEW i \in S PROVE \E k \in 1 .. n : InOrder(S)[k] = i
  <2>1. r[i] \in 1 .. n /\ r[i] = Cardinality(Below(i))
    BY <1>4
  <2>2. InOrder(S)[r[i]] \in S /\ r[InOrder(S)[r[i]]] = r[i]
    BY <1>9, <2>1
  <2> QED BY <1>5, <2>1, <2>2
<1> QED BY <1>11, <1>12, <1>13

(***************************************************************************)
(* The file store.                                                         *)
(***************************************************************************)

\* Every item, number and statistic has its type; no two items have one number.
StoreTypes ==
    /\ nextSeq \in Nat /\ IsFiniteSet(DOMAIN items)
    /\ items \in [DOMAIN items -> [kind : ItemKinds, tenant : Tenants, size : Nat, seq : Nat]]
    /\ \A id \in DOMAIN items : items[id].seq <= nextSeq
    /\ \A i, j \in DOMAIN items : i # j => items[i].seq # items[j].seq
    /\ stats \in [Tenants -> [n : Nat, bytes : Nat]]
    /\ cursor \in [Tenants -> Nat] /\ mirror \in [Tenants -> Seq(Nat)]

\* The statistics of a tenant, and its quotas.
StatAt(t) ==
    /\ IsFiniteSet(List(t)) /\ stats[t].n = Cardinality(List(t))
    /\ IsFiniteSet(BytesOf(t)) /\ stats[t].bytes = Cardinality(BytesOf(t))
    /\ MaxItems > 0 => stats[t].n <= MaxItems
    /\ MaxTotalBytes > 0 => stats[t].bytes <= MaxTotalBytes

\* What the client of a tenant has been given: every item up to its cursor, which is
\* no further than the numbers given out, in order; and nothing of another tenant.
CursorAt(t) ==
    /\ cursor[t] <= nextSeq
    /\ \A id \in List(t) : items[id].seq <= cursor[t] => items[id].seq \in Range(mirror[t])
    /\ Rises(mirror[t])
    /\ \A i \in Range(mirror[t]) : i <= cursor[t]
    /\ \A id \in DOMAIN items : items[id].tenant # t => items[id].seq \notin Range(mirror[t])
    /\ \A u \in Tenants : u # t => Range(mirror[t]) \cap Range(mirror[u]) = {}

\* The inductive invariant of the store: that tenants are given different numbers
\* needs that the items still stored differ from those given before.
StoreIInv == StoreTypes /\ \A t \in Tenants : StatAt(t) /\ CursorAt(t)

\* The bytes of one more item.
LEMMA BytesAdded ==
    ASSUME NEW B, IsFiniteSet(B), NEW id, NEW n \in Nat, \A k \in 1 .. n : <<id, k>> \notin B
    PROVE  /\ IsFiniteSet(B \cup ({id} \X (1 .. n)))
           /\ Cardinality(B \cup ({id} \X (1 .. n))) = Cardinality(B) + n
<1> DEFINE P == {id} \X (1 .. n)
<1>1. IsFiniteSet({id}) /\ Cardinality({id}) = 1
  BY FS_Singleton
<1>2. IsFiniteSet(1 .. n) /\ Cardinality(1 .. n) = n
  <2>1. 1 \in Int /\ n \in Int
    OBVIOUS
  <2> QED BY <2>1, FS_Interval
<1>3. IsFiniteSet(P) /\ Cardinality(P) = n
  <2>1. IsFiniteSet(P) /\ Cardinality(P) = 1 * n
    BY <1>1, <1>2, FS_Product, ZenonT(40)
  <2> QED BY <2>1
<1>4. B \cap P = {}
  OBVIOUS
<1> HIDE DEF P
<1>5. IsFiniteSet(B \cup P) /\ Cardinality(B \cup P) = Cardinality(B) + Cardinality(P) - Cardinality(B \cap P)
  BY <1>3, FS_Union
<1>6. Cardinality(B \cap P) = 0 /\ Cardinality(B) \in Nat
  BY <1>4, FS_EmptySet, FS_CardinalityType
<1> QED BY <1>3, <1>5, <1>6 DEF P

\* The bytes of a tenant, one by one.
LEMMA BytesIs ==
    ASSUME NEW t
    PROVE  \A b : b \in BytesOf(t) <=> \E id \in List(t) : b \in {id} \X (1 .. items[id].size)
BY DEF BytesOf

\* The invariant holds in the beginning.
LEMMA StoreInitHolds == StoreInit => StoreIInv
<1> SUFFICES ASSUME StoreInit PROVE StoreIInv
  OBVIOUS
<1>1. DOMAIN items = {} /\ items \in [{} -> [kind : ItemKinds, tenant : Tenants, size : Nat, seq : Nat]]
  BY DEF StoreInit
<1>2. StoreTypes
  BY <1>1, FS_EmptySet DEF StoreTypes, StoreInit, NoStat
<1>3. ASSUME NEW t \in Tenants PROVE StatAt(t) /\ CursorAt(t)
  <2>1. List(t) = {} /\ BytesOf(t) = {}
    BY <1>1 DEF List, BytesOf
  <2>2. stats[t].n = 0 /\ stats[t].bytes = 0 /\ cursor[t] = 0 /\ \A u \in Tenants : mirror[u] = <<>>
    BY DEF StoreInit, NoStat
  <2>3. StatAt(t)
    BY <2>1, <2>2, FS_EmptySet, StoreAssumption DEF StatAt
  <2>4. Rises(<<>>) /\ Range(<<>>) = {}
    BY DEF Rises, Range
  <2>5. CursorAt(t)
    BY <1>1, <2>1, <2>2, <2>4 DEF CursorAt, StoreInit
  <2> QED BY <2>3, <2>5
<1> QED BY <1>2, <1>3 DEF StoreIInv

\* An item is saved.
LEMMA InsertKeeps ==
    ASSUME StoreIInv, NEW t \in Tenants, NEW kind \in ItemKinds, NEW size \in Sizes, NEW id,
           Insert(t, kind, size, id)
    PROVE  StoreIInv'
<1>1. PICK n \in Nat : n = nextSeq + 1
  BY DEF StoreIInv, StoreTypes
<1>2. PICK e : e = [kind |-> kind, tenant |-> t, size |-> size, seq |-> n]
  OBVIOUS
<1>3. /\ size \in Nat /\ e.tenant = t /\ e.size = size /\ e.seq = n
      /\ e \in [kind : ItemKinds, tenant : Tenants, size : Nat, seq : Nat]
  BY <1>2, StoreAssumption
<1>4. /\ id \notin DOMAIN items /\ nextSeq' = n
      /\ items' = [i \in DOMAIN items \cup {id} |-> IF i = id THEN e ELSE items[i]]
      /\ stats' = [stats EXCEPT ![t] = [n |-> @.n + 1, bytes |-> @.bytes + size]]
      /\ UNCHANGED <<cursor, mirror>> /\ WithinLimits(t, size)
  BY <1>1, <1>2 DEF Insert, GenerateId
<1>5. /\ DOMAIN items' = DOMAIN items \cup {id} /\ items'[id] = e
      /\ \A i \in DOMAIN items : items'[i] = items[i] /\ i # id
  BY <1>4
<1>6. StoreTypes
  BY DEF StoreIInv
<1>7. /\ stats' \in [Tenants -> [n : Nat, bytes : Nat]]
      /\ stats'[t].n = stats[t].n + 1 /\ stats'[t].bytes = stats[t].bytes + size
      /\ \A u \in Tenants \ {t} : stats'[u] = stats[u]
  <2>1. PICK sn \in Nat, sb \in Nat : sn = stats[t].n /\ sb = stats[t].bytes
    BY <1>6 DEF StoreTypes
  <2>2. stats' = [stats EXCEPT ![t] = [n |-> sn + 1, bytes |-> sb + size]]
    BY <1>4, <2>1
  <2> QED BY <1>3, <1>6, <2>1, <2>2 DEF StoreTypes
<1>8. StoreTypes'
  <2>1. IsFiniteSet(DOMAIN items')
    BY <1>5, <1>6, FS_AddElement DEF StoreTypes
  <2>2. items' \in [DOMAIN items' -> [kind : ItemKinds, tenant : Tenants, size : Nat, seq : Nat]]
    BY <1>3, <1>4, <1>6 DEF StoreTypes
  <2>3. \A i \in DOMAIN items : items[i].seq \in Nat /\ items[i].seq < n
    BY <1>1, <1>6 DEF StoreTypes
  <2>4. \A i \in DOMAIN items' : items'[i].seq <= nextSeq'
    BY <1>1, <1>3, <1>4, <1>5, <2>3
  <2>5. \A i, j \in DOMAIN items' : i # j => items'[i].seq # items'[j].seq
    BY <1>1, <1>3, <1>5, <1>6, <2>3 DEF StoreTypes
  <2> QED BY <1>1, <1>4, <1>6, <1>7, <2>1, <2>2, <2>4, <2>5 DEF StoreTypes
<1>9. List(t)' = List(t) \cup {id} /\ id \notin List(t) /\ \A u \in Tenants \ {t} : List(u)' = List(u)
  BY <1>3, <1>5 DEF List
<1>10. BytesOf(t)' = BytesOf(t) \cup ({id} \X (1 .. size)) /\ \A k \in 1 .. size : <<id, k>> \notin BytesOf(t)
  <2>1. ASSUME NEW b PROVE b \in BytesOf(t)' <=> b \in BytesOf(t) \/ b \in {id} \X (1 .. size)
    <3>1. b \in BytesOf(t)' <=> \E i \in List(t)' : b \in {i} \X (1 .. items'[i].size)
      BY DEF BytesOf
    <3>2. \A i \in List(t) : items'[i] = items[i]
      BY <1>5 DEF List
    <3> QED BY <3>1, <3>2, <1>3, <1>5, <1>9, BytesIs
  <2>2. \A k \in 1 .. size : <<id, k>> \notin BytesOf(t)
    BY <1>9, BytesIs
  <2> QED BY <2>1, <2>2
<1>11. ASSUME NEW u \in Tenants \ {t} PROVE BytesOf(u)' = BytesOf(u)
  <2>1. \A i \in List(u) : items'[i] = items[i]
    BY <1>5 DEF List
  <2> QED BY <1>9, <2>1 DEF BytesOf
<1>12. ASSUME NEW u \in Tenants PROVE StatAt(u)'
  <2>1. StatAt(u) /\ StatAt(t)
    BY DEF StoreIInv
  <2>2. CASE u # t
    BY <1>7, <1>9, <1>11, <2>1, <2>2 DEF StatAt
  <2>3. CASE u = t
    <3>1. PICK L, B, L2, B2 : L = List(t) /\ B = BytesOf(t) /\ L2 = List(t)' /\ B2 = BytesOf(t)'
      OBVIOUS
    <3>2. /\ IsFiniteSet(L) /\ stats[t].n = Cardinality(L) /\ IsFiniteSet(B) /\ stats[t].bytes = Cardinality(B)
          /\ id \notin L /\ L2 = L \cup {id}
          /\ B2 = B \cup ({id} \X (1 .. size)) /\ \A k \in 1 .. size : <<id, k>> \notin B
      BY <1>9, <1>10, <2>1, <3>1 DEF StatAt
    <3>3. IsFiniteSet(L2) /\ Cardinality(L2) = Cardinality(L) + 1
      BY <3>2, FS_AddElement
    <3>4. IsFiniteSet(B2) /\ Cardinality(B2) = Cardinality(B) + size
      <4>1. size \in Nat /\ IsFiniteSet(B) /\ \A k \in 1 .. size : <<id, k>> \notin B
        BY <1>3, <3>2
      <4>2. /\ IsFiniteSet(B \cup ({id} \X (1 .. size)))
            /\ Cardinality(B \cup ({id} \X (1 .. size))) = Cardinality(B) + size
        BY <4>1, BytesAdded
      <4> QED BY <3>2, <4>2
    <3>5. stats[t].n \in Nat /\ stats[t].bytes \in Nat
      BY <1>6 DEF StoreTypes
    <3>6. /\ MaxItems > 0 => stats[t].n < MaxItems
          /\ MaxTotalBytes > 0 => stats[t].bytes + size <= MaxTotalBytes
      BY <1>4 DEF WithinLimits
    <3>7. /\ MaxItems > 0 => stats'[t].n <= MaxItems
          /\ MaxTotalBytes > 0 => stats'[t].bytes <= MaxTotalBytes
      <4>1. MaxItems \in Nat /\ MaxTotalBytes \in Nat
        BY StoreAssumption
      <4>2. PICK a \in Nat, b \in Nat : a = stats[t].n /\ b = stats[t].bytes
        BY <3>5
      <4>3. stats'[t].n = a + 1 /\ stats'[t].bytes = b + size
        BY <1>7, <4>2
      <4> QED BY <3>6, <4>1, <4>2, <4>3
    <3> QED BY <1>7, <2>3, <3>1, <3>2, <3>3, <3>4, <3>7 DEF StatAt
  <2> QED BY <2>2, <2>3
<1>13. ASSUME NEW u \in Tenants PROVE CursorAt(u)'
  <2>1. CursorAt(u) /\ cursor[u] \in Nat /\ nextSeq \in Nat
    BY <1>6 DEF StoreIInv, StoreTypes
  <2>2. cursor[u] < n /\ cursor'[u] <= nextSeq'
    BY <1>1, <1>4, <2>1 DEF CursorAt
  <2>3. n \notin Range(mirror[u])
    BY <1>1, <2>1, <2>2 DEF CursorAt
  <2>4. ASSUME NEW i \in List(u)', items'[i].seq <= cursor'[u] PROVE items'[i].seq \in Range(mirror[u])
    <3>1. i # id
      BY <1>1, <1>3, <1>4, <1>5, <2>1, <2>2, <2>4
    <3>2. i \in List(u) /\ items'[i] = items[i]
      BY <1>5, <1>9, <2>4, <3>1 DEF List
    <3> QED BY <1>4, <2>1, <2>4, <3>2 DEF CursorAt
  <2>5. ASSUME NEW i \in DOMAIN items', items'[i].tenant # u PROVE items'[i].seq \notin Range(mirror[u])
    BY <1>3, <1>5, <2>1, <2>3, <2>5 DEF CursorAt
  <2> QED BY <1>4, <2>1, <2>2, <2>4, <2>5 DEF CursorAt
<1> QED BY <1>8, <1>12, <1>13 DEF StoreIInv

\* An item is removed.
LEMMA RemoveKeeps ==
    ASSUME StoreIInv, NEW t \in Tenants, NEW id, RemoveItem(t, id)
    PROVE  StoreIInv'
<1>1. StoreTypes
  BY DEF StoreIInv
<1>2. id \in DOMAIN items /\ items[id].tenant = t /\ id \in List(t)
  BY DEF RemoveItem, GetInfo, List
<1>3. PICK size \in Nat : size = items[id].size
  BY <1>1, <1>2 DEF StoreTypes
<1>4. /\ DOMAIN items' = DOMAIN items \ {id} /\ items' = [i \in DOMAIN items \ {id} |-> items[i]]
      /\ \A i \in DOMAIN items' : items'[i] = items[i]
  BY DEF RemoveItem, Restrict
<1>5. PICK sn \in Nat, sb \in Nat : sn = stats[t].n /\ sb = stats[t].bytes
  BY <1>1 DEF StoreTypes
<1>6. UNCHANGED <<nextSeq, cursor, mirror>>
  BY DEF RemoveItem
<1>7. /\ List(t)' = List(t) \ {id} /\ \A u \in Tenants \ {t} : List(u)' = List(u)
  BY <1>2, <1>4 DEF List
<1>8. BytesOf(t) = BytesOf(t)' \cup ({id} \X (1 .. size)) /\ \A k \in 1 .. size : <<id, k>> \notin BytesOf(t)'
  <2>1. \A b : b \in BytesOf(t)' <=> \E i \in List(t)' : b \in {i} \X (1 .. items'[i].size)
    BY DEF BytesOf
  <2>2. \A i \in List(t)' : items'[i] = items[i]
    BY <1>4 DEF List
  <2>3. ASSUME NEW b PROVE b \in BytesOf(t) <=> b \in BytesOf(t)' \/ b \in {id} \X (1 .. size)
    BY <1>2, <1>3, <1>7, <2>1, <2>2, BytesIs
  <2>4. \A k \in 1 .. size : <<id, k>> \notin BytesOf(t)'
    BY <1>7, <2>1
  <2> QED BY <2>3, <2>4
<1>9. ASSUME NEW u \in Tenants \ {t} PROVE BytesOf(u)' = BytesOf(u)
  <2>1. \A i \in List(u) : items'[i] = items[i]
    BY <1>2, <1>4 DEF List
  <2> QED BY <1>7, <2>1 DEF BytesOf
<1>10. PICK L, B, L2, B2 : L = List(t) /\ B = BytesOf(t) /\ L2 = List(t)' /\ B2 = BytesOf(t)'
  OBVIOUS
<1>11. /\ IsFiniteSet(L) /\ sn = Cardinality(L) /\ IsFiniteSet(B) /\ sb = Cardinality(B)
       /\ id \in L /\ L2 = L \ {id}
       /\ B = B2 \cup ({id} \X (1 .. size)) /\ \A k \in 1 .. size : <<id, k>> \notin B2
  BY <1>2, <1>5, <1>7, <1>8, <1>10 DEF StoreIInv, StatAt
<1>12. IsFiniteSet(L2) /\ Cardinality(L2) = sn - 1
  BY <1>11, FS_RemoveElement
<1>13. IsFiniteSet(B2) /\ sb = Cardinality(B2) + size
  <2>1. IsFiniteSet(B2)
    <3>1. B2 \in SUBSET B
      BY <1>11
    <3> QED BY <1>11, <3>1, FS_Subset
  <2> QED BY <1>11, <2>1, BytesAdded
<1>14. Cardinality(L2) \in Nat /\ Cardinality(B2) \in Nat
  BY <1>12, <1>13, FS_CardinalityType
<1>15. /\ stats' = [stats EXCEPT ![t] = [n |-> sn - 1, bytes |-> sb - size]]
       /\ sn - 1 = Cardinality(L2) /\ sb - size = Cardinality(B2)
  <2>1. sn > 0 /\ sb >= size /\ sn - 1 = Cardinality(L2) /\ sb - size = Cardinality(B2)
    BY <1>12, <1>13, <1>14
  <2>2. stats' = [stats EXCEPT ![t] = [n |-> IF sn > 0 THEN sn - 1 ELSE 0,
                                       bytes |-> IF sb >= size THEN sb - size ELSE 0]]
    BY <1>3, <1>5 DEF RemoveItem
  <2> QED BY <2>1, <2>2
<1>16. PICK c \in Nat, d \in Nat : c = Cardinality(L2) /\ d = Cardinality(B2)
  BY <1>14
<1>17. /\ stats' = [stats EXCEPT ![t] = [n |-> c, bytes |-> d]] /\ c <= sn /\ d <= sb
  <2>1. sn - 1 = c /\ sb - size = d
    BY <1>15, <1>16
  <2>2. stats' = [stats EXCEPT ![t] = [n |-> c, bytes |-> d]]
    BY <1>15, <2>1
  <2>3. c <= sn /\ d <= sb
    BY <1>3, <1>5, <2>1
  <2> QED BY <2>2, <2>3
<1>18. /\ stats' \in [Tenants -> [n : Nat, bytes : Nat]] /\ stats'[t].n = c /\ stats'[t].bytes = d
       /\ \A u \in Tenants \ {t} : stats'[u] = stats[u]
  BY <1>1, <1>17 DEF StoreTypes
<1>19. StoreTypes'
  <2>1. IsFiniteSet(DOMAIN items')
    BY <1>1, <1>4, FS_RemoveElement DEF StoreTypes
  <2>2. items' \in [DOMAIN items' -> [kind : ItemKinds, tenant : Tenants, size : Nat, seq : Nat]]
    BY <1>1, <1>4 DEF StoreTypes
  <2> QED BY <1>1, <1>4, <1>6, <1>18, <2>1, <2>2, SMTT(40) DEF StoreTypes
<1>20. ASSUME NEW u \in Tenants PROVE StatAt(u)'
  <2>1. StatAt(u)
    BY DEF StoreIInv
  <2>2. CASE u # t
    BY <1>7, <1>9, <1>18, <2>1, <2>2 DEF StatAt
  <2>3. CASE u = t
    <3>1. /\ MaxItems > 0 => sn <= MaxItems
          /\ MaxTotalBytes > 0 => sb <= MaxTotalBytes
      BY <1>5, <2>1, <2>3 DEF StatAt
    <3>2. /\ MaxItems > 0 => c <= MaxItems
          /\ MaxTotalBytes > 0 => d <= MaxTotalBytes
      BY <1>17, <3>1, StoreAssumption
    <3> QED BY <1>10, <1>12, <1>13, <1>16, <1>18, <2>3, <3>2 DEF StatAt
  <2> QED BY <2>2, <2>3
<1>21. ASSUME NEW u \in Tenants PROVE CursorAt(u)'
  <2>1. CursorAt(u)
    BY DEF StoreIInv
  <2>2. \A i \in List(u)' : i \in List(u) /\ items'[i] = items[i]
    BY <1>4 DEF List
  <2> QED BY <1>4, <1>6, <2>1, <2>2 DEF CursorAt
<1> QED BY <1>19, <1>20, <1>21 DEF StoreIInv

\* The store is cleared.
LEMMA ClearKeeps ==
    ASSUME StoreIInv, ClearStore
    PROVE  StoreIInv'
<1>1. StoreTypes
  BY DEF StoreIInv
<1>2. DOMAIN items' = {} /\ items' \in [{} -> [kind : ItemKinds, tenant : Tenants, size : Nat, seq : Nat]]
  BY DEF ClearStore
<1>3. /\ stats' \in [Tenants -> [n : Nat, bytes : Nat]]
      /\ \A t \in Tenants : stats'[t].n = 0 /\ stats'[t].bytes = 0
      /\ UNCHANGED <<nextSeq, cursor, mirror>>
  BY DEF ClearStore, NoStat
<1>4. StoreTypes'
  BY <1>1, <1>2, <1>3, FS_EmptySet DEF StoreTypes
<1>5. ASSUME NEW t \in Tenants PROVE StatAt(t)' /\ CursorAt(t)'
  <2>1. List(t)' = {} /\ BytesOf(t)' = {}
    BY <1>2 DEF List, BytesOf
  <2>2. StatAt(t)'
    BY <1>3, <2>1, FS_EmptySet, StoreAssumption DEF StatAt
  <2>3. CursorAt(t)
    BY DEF StoreIInv
  <2>4. CursorAt(t)'
    BY <1>2, <1>3, <2>1, <2>3 DEF CursorAt
  <2> QED BY <2>2, <2>4
<1> QED BY <1>4, <1>5 DEF StoreIInv

\* What ListSince returns: the numbers of the tenant's items after the cursor, in order.
LEMMA ListSinceIs ==
    ASSUME StoreTypes, NEW t \in Tenants
    PROVE  /\ ListSince(t, cursor[t]) \in Seq(Nat) /\ Rises(ListSince(t, cursor[t]))
           /\ \A q : q \in Range(ListSince(t, cursor[t]))
                       <=> \E id \in List(t) : q = items[id].seq /\ items[id].seq > cursor[t]
<1> DEFINE S == {items[id].seq : id \in {i \in List(t) : items[i].seq > cursor[t]}}
<1>1. \A q : q \in S <=> \E id \in List(t) : q = items[id].seq /\ items[id].seq > cursor[t]
  OBVIOUS
<1>2. \A q \in S : q \in Nat /\ q <= nextSeq
  BY DEF List, StoreTypes
<1>3. ListSince(t, cursor[t]) = InOrder(S)
  BY DEF ListSince
<1> HIDE DEF S
<1>4. PICK T, m : T = S /\ m = nextSeq
  OBVIOUS
<1>5. T \in SUBSET Nat /\ m \in Nat /\ \A q \in T : q <= m
  BY <1>2, <1>4 DEF StoreTypes
<1>6. IsFiniteSet(T)
  BY <1>5, FS_BoundedSetOfNaturals
<1>7. PICK s : s = InOrder(T)
  OBVIOUS
<1>8. /\ s \in Seq(T) /\ \A j, k \in 1 .. Len(s) : j < k => s[j] < s[k]
      /\ \A i \in T : \E k \in 1 .. Len(s) : s[k] = i
  BY <1>5, <1>6, <1>7, InOrderLists
<1>9. s \in Seq(Nat) /\ DOMAIN s = 1 .. Len(s)
  <2>1. s \in [1 .. Len(s) -> T] /\ Len(s) \in Nat
    BY <1>8
  <2>2. s \in [1 .. Len(s) -> Nat]
    BY <1>5, <2>1
  <2> QED BY <2>1, <2>2
<1>10. Rises(s)
  BY <1>8, <1>9 DEF Rises
<1>11. \A q : q \in Range(s) <=> q \in T
  BY <1>8, <1>9 DEF Range
<1>12. s = ListSince(t, cursor[t])
  BY <1>3, <1>4, <1>7
<1> QED BY <1>1, <1>4, <1>9, <1>10, <1>11, <1>12

\* Two rising sequences, one above the other, are one.
LEMMA RisesJoined ==
    ASSUME NEW s \in Seq(Nat), Rises(s), NEW u \in Seq(Nat), Rises(u), NEW c \in Nat,
           \A i \in Range(s) : i <= c, \A i \in Range(u) : c < i
    PROVE  s \o u \in Seq(Nat) /\ Rises(s \o u) /\ Range(s \o u) = Range(s) \cup Range(u)
<1>1. PICK w : w = s \o u
  OBVIOUS
<1>2. /\ w \in Seq(Nat) /\ Len(w) = Len(s) + Len(u)
      /\ \A i \in 1 .. Len(s) + Len(u) : w[i] = IF i <= Len(s) THEN s[i] ELSE u[i - Len(s)]
  BY <1>1, ConcatProperties
<1>3. PICK a \in Nat, b \in Nat : a = Len(s) /\ b = Len(u)
  OBVIOUS
<1>4. DOMAIN s = 1 .. a /\ DOMAIN u = 1 .. b /\ DOMAIN w = 1 .. a + b
  BY <1>2, <1>3
<1>5. /\ \A i \in 1 .. a : w[i] = s[i] /\ s[i] \in Nat /\ s[i] <= c
      /\ \A i \in 1 .. b : w[a + i] = u[i] /\ u[i] \in Nat /\ c < u[i]
  <2>1. \A i \in 1 .. a : w[i] = s[i] /\ s[i] \in Nat /\ s[i] <= c
    <3> SUFFICES ASSUME NEW i \in 1 .. a PROVE w[i] = s[i] /\ s[i] \in Nat /\ s[i] <= c
      OBVIOUS
    <3>1. i \in 1 .. a + b /\ i <= a
      BY <1>3
    <3>2. w[i] = s[i]
      BY <1>2, <1>3, <3>1
    <3>3. s[i] \in Range(s)
      BY <1>4 DEF Range
    <3>4. s[i] \in Nat
      BY <1>4
    <3> QED BY <3>2, <3>3, <3>4
  <2>2. ASSUME NEW i \in 1 .. b PROVE w[a + i] = u[i] /\ u[i] \in Nat /\ c < u[i]
    <3>1. a + i \in 1 .. a + b /\ ~(a + i <= a) /\ (a + i) - a = i
      BY <1>3
    <3>2. w[a + i] = u[i]
      BY <1>2, <1>3, <3>1
    <3> QED BY <1>3, <1>4, <3>2, SMTT(40) DEF Range
  <2> QED BY <2>1, <2>2
<1>6. \A k \in 1 .. a + b : k \in 1 .. a \/ \E i \in 1 .. b : k = a + i
  <2> SUFFICES ASSUME NEW k \in 1 .. a + b, k \notin 1 .. a PROVE \E i \in 1 .. b : k = a + i
    OBVIOUS
  <2>1. k - a \in 1 .. b /\ k = a + (k - a)
    BY <1>3
  <2> QED BY <2>1
<1>7. ASSUME NEW j \in 1 .. a + b, NEW k \in 1 .. a + b, j < k PROVE w[j] < w[k]
  <2>1. CASE k \in 1 .. a
    <3>1. j \in 1 .. a
      BY <1>3, <1>7, <2>1
    <3> QED BY <1>4, <1>5, <1>7, <2>1, <3>1 DEF Rises
  <2>2. CASE j \in 1 .. a /\ k \notin 1 .. a
    <3>1. PICK y \in 1 .. b : k = a + y
      BY <1>6, <2>2
    <3>2. w[j] \in Nat /\ w[j] <= c
      BY <1>5, <2>2
    <3>3. w[k] \in Nat /\ c < w[k]
      BY <1>5, <3>1
    <3> QED BY <3>2, <3>3
  <2>3. CASE j \notin 1 .. a
    <3>1. PICK x \in 1 .. b : j = a + x
      BY <1>6, <2>3
    <3>2. k \notin 1 .. a
      BY <1>3, <1>7, <2>3
    <3>3. PICK y \in 1 .. b : k = a + y
      BY <1>6, <3>2
    <3>4. x < y
      BY <1>3, <1>7, <3>1, <3>3
    <3> QED BY <1>4, <1>5, <3>1, <3>3, <3>4 DEF Rises
  <2> QED BY <2>1, <2>2, <2>3
<1>8. Rises(w)
  BY <1>4, <1>7 DEF Rises
<1>9. ASSUME NEW x PROVE x \in Range(w) <=> x \in Range(s) \/ x \in Range(u)
  <2>1. ASSUME x \in Range(w) PROVE x \in Range(s) \/ x \in Range(u)
    <3>1. PICK k \in 1 .. a + b : w[k] = x
      BY <1>4, <2>1 DEF Range
    <3>2. CASE k \in 1 .. a
      BY <1>4, <1>5, <3>1, <3>2 DEF Range
    <3>3. CASE k \notin 1 .. a
      <4>1. PICK i \in 1 .. b : k = a + i
        BY <1>6, <3>3
      <4> QED BY <1>4, <1>5, <3>1, <4>1 DEF Range
    <3> QED BY <3>2, <3>3
  <2>2. ASSUME x \in Range(s) PROVE x \in Range(w)
    <3>1. PICK i \in 1 .. a : s[i] = x
      BY <1>4, <2>2 DEF Range
    <3>2. i \in 1 .. a + b
      BY <1>3
    <3> QED BY <1>4, <1>5, <3>1, <3>2 DEF Range
  <2>3. ASSUME x \in Range(u) PROVE x \in Range(w)
    <3>1. PICK i \in 1 .. b : u[i] = x
      BY <1>4, <2>3 DEF Range
    <3>2. a + i \in 1 .. a + b
      BY <1>3
    <3> QED BY <1>4, <1>5, <3>1, <3>2 DEF Range
  <2> QED BY <2>1, <2>2, <2>3
<1>10. Range(w) = Range(s) \cup Range(u)
  BY <1>9
<1> QED BY <1>1, <1>2, <1>8, <1>10

\* A client pulls.
LEMMA PullKeeps ==
    ASSUME StoreIInv, NEW t \in Tenants, Pull(t)
    PROVE  StoreIInv'
<1>1. StoreTypes
  BY DEF StoreIInv
<1>2. PICK new, c, m : new = ListSince(t, cursor[t]) /\ c = cursor[t] /\ m = mirror[t]
  OBVIOUS
<1>3. /\ new \in Seq(Nat) /\ Rises(new) /\ c \in Nat /\ m \in Seq(Nat)
      /\ \A q : q \in Range(new) <=> \E id \in List(t) : q = items[id].seq /\ items[id].seq > c
  BY <1>1, <1>2, ListSinceIs DEF StoreTypes
<1>4. /\ new # <<>> /\ UNCHANGED <<items, stats, nextSeq>>
      /\ cursor' = [cursor EXCEPT ![t] = Last(new)] /\ mirror' = [mirror EXCEPT ![t] = m \o new]
  BY <1>2 DEF Pull
<1>5. PICK d \in Nat : d = Last(new) /\ d \in Range(new) /\ \A q \in Range(new) : q <= d
  <2>1. PICK n \in Nat : n = Len(new) /\ n > 0 /\ DOMAIN new = 1 .. n /\ Last(new) = new[n]
    <3>1. new \in Seq(Nat) /\ new # <<>>
      BY <1>3, <1>4
    <3>2. PICK n : n = Len(new)
      OBVIOUS
    <3>3. n \in Nat /\ n > 0 /\ DOMAIN new = 1 .. n
      BY <3>1, <3>2, SMTT(40)
    <3> QED BY <3>2, <3>3 DEF Last
  <2>2. PICK x : x = new[n]
    OBVIOUS
  <2>3. x \in Nat /\ x \in Range(new)
    BY <1>3, <2>1, <2>2 DEF Range
  <2>4. ASSUME NEW q \in Range(new) PROVE q <= x
    <3>1. PICK k \in 1 .. n : new[k] = q
      BY <2>1 DEF Range
    <3>2. k = n \/ k < n
      BY <2>1
    <3>3. n \in 1 .. n
      BY <2>1
    <3>4. new[k] \in Nat
      BY <1>3, <2>1
    <3> QED BY <1>3, <2>1, <2>2, <2>3, <3>1, <3>2, <3>3, <3>4 DEF Rises
  <2> QED BY <2>1, <2>2, <2>3, <2>4
<1>6. CursorAt(t)
  BY DEF StoreIInv
<1>7. Rises(m) /\ (\A i \in Range(m) : i <= c) /\ \A q \in Range(new) : c < q
  BY <1>1, <1>2, <1>3, <1>6 DEF CursorAt, StoreTypes, List
<1>8. PICK w : w = m \o new
  OBVIOUS
<1>9. w \in Seq(Nat) /\ Rises(w) /\ Range(w) = Range(m) \cup Range(new)
  BY <1>3, <1>7, <1>8, RisesJoined
<1>10. /\ cursor' \in [Tenants -> Nat] /\ cursor'[t] = d /\ \A u \in Tenants \ {t} : cursor'[u] = cursor[u]
       /\ mirror' \in [Tenants -> Seq(Nat)] /\ mirror'[t] = w /\ \A u \in Tenants \ {t} : mirror'[u] = mirror[u]
  BY <1>1, <1>4, <1>5, <1>8, <1>9 DEF StoreTypes
<1>11. StoreTypes'
  BY <1>1, <1>4, <1>10 DEF StoreTypes
<1>12. ASSUME NEW u \in Tenants PROVE StatAt(u)' /\ List(u)' = List(u)
  <2>1. List(u)' = List(u)
    BY <1>4 DEF List
  <2>2. BytesOf(u)' = BytesOf(u)
    BY <1>4, <2>1 DEF BytesOf
  <2>3. StatAt(u)
    BY DEF StoreIInv
  <2> QED BY <1>4, <2>1, <2>2, <2>3 DEF StatAt
<1>13. c < d /\ d <= nextSeq
  BY <1>1, <1>3, <1>5, <1>7 DEF StoreTypes, List
<1>14. \A i \in DOMAIN items : items[i].seq \in Nat
  BY <1>1 DEF StoreTypes
<1>15. ASSUME NEW q \in Range(new) PROVE \E i \in DOMAIN items : q = items[i].seq /\ items[i].tenant = t
  BY <1>3, <1>15 DEF List
<1>16. ASSUME NEW u \in Tenants, u # t PROVE Range(w) \cap Range(mirror[u]) = {}
  <2>1. CursorAt(u)
    BY DEF StoreIInv
  <2>2. \A q \in Range(new) : q \notin Range(mirror[u])
    BY <1>15, <1>16, <2>1 DEF CursorAt
  <2>3. \A q \in Range(m) : q \notin Range(mirror[u])
    BY <1>2, <1>6, <1>16 DEF CursorAt
  <2> QED BY <1>9, <2>2, <2>3
<1>17. CursorAt(t)'
  <2>1. ASSUME NEW id \in List(t), items[id].seq <= d PROVE items[id].seq \in Range(w)
    <3>1. CASE items[id].seq <= c
      BY <1>2, <1>6, <1>9, <3>1 DEF CursorAt
    <3>2. CASE ~(items[id].seq <= c)
      <4>1. items[id].seq > c
        BY <1>3, <1>14, <3>2 DEF List
      <4> QED BY <1>3, <1>9, <4>1
    <3> QED BY <3>1, <3>2
  <2>2. \A q \in Range(w) : q <= d
    BY <1>3, <1>5, <1>7, <1>9, <1>13
  <2>3. ASSUME NEW id \in DOMAIN items, items[id].tenant # t PROVE items[id].seq \notin Range(w)
    <3>1. items[id].seq \notin Range(m)
      BY <1>2, <1>6, <2>3 DEF CursorAt
    <3>2. ASSUME items[id].seq \in Range(new) PROVE FALSE
      <4>1. PICK i \in DOMAIN items : items[id].seq = items[i].seq /\ items[i].tenant = t
        BY <1>15, <3>2
      <4>2. i # id
        BY <2>3, <4>1
      <4> QED BY <1>1, <4>1, <4>2 DEF StoreTypes
    <3> QED BY <1>9, <3>1, <3>2
  <2>4. \A u \in Tenants : u # t => Range(w) \cap Range(mirror'[u]) = {}
    BY <1>10, <1>16
  <2> QED BY <1>4, <1>9, <1>10, <1>12, <1>13, <2>1, <2>2, <2>3, <2>4 DEF CursorAt
<1>18. ASSUME NEW u \in Tenants, u # t PROVE CursorAt(u)'
  <2>1. CursorAt(u)
    BY DEF StoreIInv
  <2>2. \A v \in Tenants : v # u => Range(mirror'[u]) \cap Range(mirror'[v]) = {}
    BY <1>10, <1>16, <1>18, <2>1 DEF CursorAt
  <2> QED BY <1>4, <1>10, <1>12, <1>18, <2>1, <2>2 DEF CursorAt
<1> QED BY <1>11, <1>12, <1>17, <1>18 DEF StoreIInv

\* Every step keeps the invariant.
LEMMA StoreNextKeeps == StoreIInv /\ [StoreNext]_storeVars => StoreIInv'
<1> SUFFICES ASSUME StoreIInv, [StoreNext]_storeVars PROVE StoreIInv'
  OBVIOUS
<1>1. CASE ClearStore
  BY <1>1, ClearKeeps
<1>2. ASSUME NEW t \in Tenants, Pull(t) PROVE StoreIInv'
  BY <1>2, PullKeeps
<1>3. ASSUME NEW t \in Tenants, NEW id \in ItemIds, RemoveItem(t, id) PROVE StoreIInv'
  BY <1>3, RemoveKeeps
<1>4. ASSUME NEW t \in Tenants, NEW id \in ItemIds, NEW size \in Sizes, SaveText(t, size, id) \/ SaveFile(t, size, id)
      PROVE  StoreIInv'
  <2>1. PICK kind \in ItemKinds : Insert(t, kind, size, id)
    BY <1>4 DEF SaveText, SaveFile, ItemKinds
  <2> QED BY <2>1, InsertKeeps
<1>5. CASE UNCHANGED storeVars
  <2>1. UNCHANGED <<items, stats, nextSeq, cursor, mirror>>
    BY <1>5 DEF storeVars
  <2>2. StoreTypes'
    BY <2>1 DEF StoreIInv, StoreTypes
  <2>3. ASSUME NEW t \in Tenants PROVE StatAt(t)' /\ CursorAt(t)'
    <3>1. List(t)' = List(t)
      BY <2>1 DEF List
    <3>2. BytesOf(t)' = BytesOf(t)
      BY <2>1, <3>1 DEF BytesOf
    <3>3. StatAt(t) /\ CursorAt(t)
      BY DEF StoreIInv
    <3> QED BY <2>1, <3>1, <3>2, <3>3 DEF StatAt, CursorAt
  <2> QED BY <2>2, <2>3 DEF StoreIInv
<1> QED BY <1>1, <1>2, <1>3, <1>4, <1>5 DEF StoreNext

\* The invariant says what the property does.
LEMMA StoreInvFollows == StoreIInv => StoreInv
<1> SUFFICES ASSUME StoreIInv PROVE StoreInv
  OBVIOUS
<1>1. StatsExact
  BY DEF StatsExact, StoreIInv, StatAt
<1>2. ASSUME NEW t \in Tenants, NEW j \in 1 .. Len(mirror[t]), NEW k \in 1 .. Len(mirror[t]), j < k
      PROVE  mirror[t][j] < mirror[t][k]
  <2>1. Rises(mirror[t]) /\ mirror[t] \in Seq(Nat)
    BY DEF StoreIInv, CursorAt, StoreTypes
  <2> QED BY <1>2, <2>1 DEF Rises
<1>3. CursorComplete
  BY <1>2 DEF CursorComplete, StoreIInv, CursorAt
<1> QED BY <1>1, <1>3 DEF StoreInv

\* For any tenants, codes, sizes, limits and number of saves: the statistics are the
\* number and the size of the tenant's items, within its quotas, and a client that
\* pulls from its cursor is given every item of its tenant once, in order.
THEOREM StoreInvHolds == StoreSpec => []StoreInv
<1>1. StoreInit => StoreIInv
  BY StoreInitHolds
<1>2. StoreIInv /\ [StoreNext]_storeVars => StoreIInv'
  BY StoreNextKeeps
<1>3. StoreIInv => StoreInv
  BY StoreInvFollows
<1> QED BY <1>1, <1>2, <1>3, PTL DEF StoreSpec
===============================================================================
