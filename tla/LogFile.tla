------------------------------- MODULE LogFile -------------------------------
(***************************************************************************)
(* CLogger (Common/Log): the level is tested in one critical section and   *)
(* the line written in another; the file is rotated by size with           *)
(* kMaxBackupCount backups.  A line counts for one unit of size and is     *)
(* known by its number; the current file is file 0.                        *)
(***************************************************************************)
EXTENDS Integers, Sequences, FiniteSets

CONSTANTS
    LogThreads,
    kMaxBackupCount,   \* 5 in the code
    FileLimits,        \* limits that SetMaxFileSize is given; 0: no rotation
    MaxLines           \* bound: lines logged

ASSUME LogAssumption == kMaxBackupCount \in Nat \ {0} /\ FileLimits \subseteq Nat /\ MaxLines \in Nat

VARIABLES
    logger,    \* open (m_bFileEnabled and m_file), limit (m_nMaxFileBytes), off (m_level = kOff)
    disk,      \* [0..kMaxBackupCount -> lines]; <<>> also when the file is missing
    lines,     \* lines that reached the file so far
    logging,   \* threads between the test of the level and the write
    quietAt    \* history: lines and threads under way when the level was set to kOff, <<>> otherwise

logVars == <<logger, disk, lines, logging, quietAt>>

-------------------------------------------------------------------------------
\* Mutant: the backups are moved in the order of their numbers.
RotateAscending(files) ==
    [i \in DOMAIN files |-> CASE i = 0 -> <<>> [] i = 1 -> files[0]
                              [] i = kMaxBackupCount /\ i > 1 -> files[1] [] OTHER -> <<>>]

\* .N-1 to .N down to .1 to .2, then the file to .1.
Rotate(files) == [i \in DOMAIN files |-> IF i = 0 THEN <<>> ELSE files[i - 1]]

RotateIfNeeded(files) ==
    IF logger.limit > 0 /\ Len(files[0]) >= logger.limit THEN Rotate(files) ELSE files

\* The first critical section: kOff lets nothing through.
Log(t) ==
    /\ t \notin logging /\ ~logger.off
    /\ logging' = logging \cup {t}
    /\ UNCHANGED <<logger, disk, lines, quietAt>>

\* The second: rotation, whose reopening may fail, and the line.
LogWrites(t) ==
    LET files == RotateIfNeeded(disk) IN
      /\ t \in logging /\ logging' = logging \ {t}
      /\ IF ~logger.open THEN UNCHANGED <<logger, disk, lines>>
         ELSE \/ /\ lines < MaxLines
                 /\ disk' = [files EXCEPT ![0] = Append(@, lines + 1)] /\ lines' = lines + 1
                 /\ UNCHANGED logger
              \/ /\ files # disk
                 /\ disk' = files /\ logger' = [logger EXCEPT !.open = FALSE]
                 /\ UNCHANGED lines
      /\ UNCHANGED quietAt

\* OpenFile: appended to what is there; a failure leaves file output disabled.
OpenFile ==
    /\ \E ok \in BOOLEAN : logger' = [logger EXCEPT !.open = ok]
    /\ UNCHANGED <<disk, lines, logging, quietAt>>

SetMaxFileSize(n) ==
    /\ logger' = [logger EXCEPT !.limit = n]
    /\ UNCHANGED <<disk, lines, logging, quietAt>>

SetLevel(off) ==
    /\ logger' = [logger EXCEPT !.off = off]
    /\ quietAt' = IF off THEN <<lines, Cardinality(logging)>> ELSE <<>>
    /\ UNCHANGED <<disk, lines, logging>>

-------------------------------------------------------------------------------
LogInit ==
    /\ logger = [open |-> FALSE, limit |-> 0, off |-> FALSE]
    /\ disk = [i \in 0..kMaxBackupCount |-> <<>>]
    /\ lines = 0 /\ logging = {} /\ quietAt = <<>>

LogNext ==
    \/ \E t \in LogThreads : Log(t) \/ LogWrites(t)
    \/ OpenFile
    \/ \E n \in FileLimits : SetMaxFileSize(n)
    \/ \E off \in BOOLEAN : SetLevel(off)

LogSpec == LogInit /\ [][LogNext]_logVars

(***************************************************************************)
(* Properties.                                                             *)
(***************************************************************************)
OnDisk == UNION {{disk[i][j] : j \in DOMAIN disk[i]} : i \in DOMAIN disk}

\* Read from the oldest backup to the current file, the lines are those written
\* last, in order and without a gap, through every rotation, failed reopening and
\* change of limit; a line is lost only off the end of a full set of backups.
LogComplete ==
    /\ \A h, i \in DOMAIN disk : \A j \in DOMAIN disk[h], k \in DOMAIN disk[i] :
         h > i \/ (h = i /\ j < k) => disk[h][j] < disk[i][k]
    /\ \A n \in OnDisk : n < lines => n + 1 \in OnDisk
    /\ lines > 0 => lines \in OnDisk
    /\ lines > 0 /\ 1 \notin OnDisk => \A i \in 1..kMaxBackupCount : disk[i] # <<>>

\* After SetLevel(kOff) returned, at most the lines under way then are written.
QuietAfterOff == quietAt # <<>> => lines <= quietAt[1] + quietAt[2]

\* The invariant of the logger.
LogInv == LogComplete /\ QuietAfterOff
=============================================================================
