----------------------------- MODULE Persister -----------------------------
(***************************************************************************)
(* The log of a Persister (Persister.cpp): the buffer in memory, the chunk *)
(* files and their names, through saves, kills, restarts and reboots; and  *)
(* the deque of RaftHandler it saves from, which start and appendEntries   *)
(* change between the saves.                                               *)
(*                                                                         *)
(* A chunk file is named by epochInMs(), the milliseconds of the steady    *)
(* clock, which begins anew when the machine boots; loadChunks sorts the   *)
(* names as strings.  Module Raft, in which the chunks are one growing     *)
(* sequence, relies on what is shown here under NamesInOrder.              *)
(*                                                                         *)
(* An entry is its index: that an entry saved before was replaced by one   *)
(* of another term is not seen here.  saveLogs addresses the deque by      *)
(* position, so a log with a hole puts a hole in the files: see `hole'.  A *)
(* file that was renamed stays, also through a reboot: nothing is said of  *)
(* a loss of power.                                                        *)
(***************************************************************************)
EXTENDS Integers, Sequences, FiniteSets, SequencesExt

CONSTANTS
    MaxLogIndex,    \* bound: the last index of the log
    Sizes,          \* the sizes an entry may have
    ChunkBytes,     \* LOG_CHUNK_BYTES
    BootTime,       \* what the clock shows when a server can first run
    MaxTime,        \* bound: the last time of the clock
    MaxFaults       \* bound: kills, reboots and reads past the ends of the deque

ASSUME PersisterAssumption ==
    /\ {MaxLogIndex, ChunkBytes, BootTime, MaxTime, MaxFaults} \subseteq Nat
    /\ Sizes \subseteq Nat
    /\ BootTime <= MaxTime

VARIABLES
    size,                   \* estmateSize of the entry at an index
    at,                     \* "down", "idle", "saving", "ending", "aborted"
    logs, commitIndex,      \* of RaftHandler
    next,                   \* i of the loop of saveLogs
    logBuf, lastInBufLogId, estimateLogBufSize,     \* of the object
    written,                \* flushLogBuf has closed its file, not yet renamed it
    tmp, chunks,            \* tmp-chunk.dat, and the chunk files by their times
    now,                    \* epochInMs()
    faults,                 \* kills, reboots and reads past the ends so far
    flushes,                \* history: the times of all flushes, in their order
    hole                    \* history: where a saveLogs that met a hole in the log has left it

memoryVars == <<logBuf, lastInBufLogId, estimateLogBufSize>>
fileVars == <<written, tmp, chunks, flushes>>
vars == <<size, at, logs, commitIndex, next, memoryVars, fileVars, now, faults, hole>>

Index == 1..MaxLogIndex
Time == BootTime..MaxTime
NoChunks == [t \in {} |-> <<>>]

Init ==
    /\ size \in [Index -> Sizes]
    /\ at = "down"
    /\ logs = <<>> /\ commitIndex = 0 /\ next = 0
    /\ logBuf = <<>> /\ lastInBufLogId = 0 /\ estimateLogBufSize = 0
    /\ written = FALSE
    /\ tmp = <<>> /\ chunks = NoChunks
    /\ now = BootTime
    /\ faults = 0
    /\ flushes = <<>>
    /\ hole = "none"

-----------------------------------------------------------------------------
(***************************************************************************)
(* Names.                                                                  *)
(***************************************************************************)
Digits[n \in Nat] == IF n < 10 THEN <<n>> ELSE Append(Digits[n \div 10], n % 10)

\* "<t>.dat" < "<u>.dat" as strings ('.' comes before every digit).
NameBefore(t, u) ==
    LET a == Digits[t]
        b == Digits[u]
    IN \E i \in 1..Len(b) :
          /\ i - 1 <= Len(a)
          /\ \A j \in 1..(i - 1) : a[j] = b[j]
          /\ i > Len(a) \/ a[i] < b[i]

EarlierName == {p \in Time \X Time : NameBefore(p[1], p[2])}

\* The files that are no temporary ones, sorted by their names.
ChunkNames ==
    LET files == DOMAIN chunks
        Before(t) == {u \in files : <<u, t>> \in EarlierName}
    IN [k \in 1..Cardinality(files) |-> CHOOSE t \in files : Cardinality(Before(t)) = k - 1]

\* What loadRaftState reads, chunk after chunk.
Found ==
    LET names == ChunkNames
    IN FlattenSeq([k \in DOMAIN names |-> chunks[names[k]]])

Contiguous(log) == \A k \in 2..Len(log) : log[k] = log[k - 1] + 1

-----------------------------------------------------------------------------
(***************************************************************************)
(* The deque.                                                              *)
(***************************************************************************)
LastLogIndex == IF logs = <<>> THEN 0 ELSE Last(logs)

\* logs[i - logs.front().index], and what lies there: past the ends, anything.
MutantPosition(i) == i + 1

Position(i) == i - logs[1] + 1

Inside(i) == logs # <<>> /\ Position(i) \in DOMAIN logs

Read(i) == IF Inside(i) THEN {logs[Position(i)]} ELSE Index

PopFrom(i) == SubSeq(logs, 1, Cardinality({k \in DOMAIN logs : logs[k] < i}))

Run(first, last) == [k \in 1..last - first + 1 |-> first + k - 1]

(***************************************************************************)
(* start, or an appendEntries with entries first..last after prev, none if *)
(* last < first.  Where the last entry of the log is not of prevLogTerm,   *)
(* prev is popped too and the log has a hole there.  A leader whose log    *)
(* does not begin with 1 calls with prev 0.                                *)
(***************************************************************************)
AppendEntries(prev, first, last) ==
    /\ at = "idle"
    /\ prev <= LastLogIndex
    /\ prev = 0 \/ first = prev + 1
    /\ \/ logs' = PopFrom(prev) \o Run(first, last)
       \/ /\ prev = 0 => logs = <<>>
          /\ first <= LastLogIndex => Inside(first) /\ Read(first) = {first}
          /\ logs' = PopFrom(first) \o Run(first, last)
    /\ UNCHANGED <<size, at, commitIndex, next, memoryVars, fileVars, now, faults, hole>>

-----------------------------------------------------------------------------
(***************************************************************************)
(* saveLogs and flushLogBuf.                                               *)
(***************************************************************************)
GapFreeUpTo(i) == i <= Len(logs) /\ \A k \in 1..i : logs[k] = k

\* updateCommitIndex with the new commit index, one past the log at most.
SaveLogs(newIndex) ==
    /\ at = "idle"
    /\ logs # <<>> /\ commitIndex < newIndex
    /\ newIndex <= Last(logs) \/ Position(newIndex) = Len(logs) + 1
    /\ at' = "saving"
    /\ commitIndex' = newIndex
    /\ next' = lastInBufLogId + 1
    /\ hole' = IF hole = "none" /\ lastInBufLogId < newIndex /\ ~GapFreeUpTo(newIndex)
               THEN "buffer" ELSE hole
    /\ UNCHANGED <<size, logs, memoryVars, fileVars, now, faults>>

\* The buffer must be flushed before entry e may be added to it.
MutantExceeds(e) == estimateLogBufSize > ChunkBytes

Exceeds(e) == estimateLogBufSize + size[e] > ChunkBytes

MoreToSave == at = "saving" /\ next <= commitIndex /\ ~written

SaveEntry ==
    /\ MoreToSave
    /\ \E e \in Read(next) :
          /\ Exceeds(e) => logBuf = <<>>
          /\ logBuf' = Append(logBuf, e)
          /\ estimateLogBufSize' = estimateLogBufSize + size[e]
          /\ lastInBufLogId' = e
    /\ next' = next + 1
    /\ IF Inside(next) THEN UNCHANGED faults
       ELSE faults < MaxFaults /\ faults' = faults + 1
    /\ UNCHANGED <<size, at, logs, commitIndex, fileVars, now, hole>>

SaveEnds ==
    /\ at = "saving" /\ next > commitIndex
    /\ at' = "idle"
    /\ next' = 0
    /\ UNCHANGED <<size, logs, commitIndex, memoryVars, fileVars, now, faults, hole>>

\* A flush is due; flushLogBuf returns at once when the buffer is empty.
FlushIsDue ==
    /\ logBuf # <<>> /\ ~written
    /\ \/ MoreToSave /\ \E e \in Read(next) : Exceeds(e)
       \/ at = "ending"

FlushWrites ==
    /\ FlushIsDue
    /\ tmp' = logBuf
    /\ written' = TRUE
    /\ UNCHANGED <<size, at, logs, commitIndex, next, memoryVars, chunks, now, faults, flushes, hole>>

\* The rename replaces the chunk of the same millisecond, if there is one.
MutantFlushRenames ==
    /\ written
    /\ chunks' = [t \in DOMAIN chunks \union {now} |-> IF t = now THEN tmp ELSE chunks[t]]
    /\ estimateLogBufSize' = 0
    /\ written' = FALSE
    /\ flushes' = Append(flushes, now)
    /\ UNCHANGED <<size, at, logs, commitIndex, next, logBuf, tmp, lastInBufLogId, now, faults, hole>>

MutantCoarseNames ==
    /\ written
    /\ LET name == 2 * (now \div 2)
       IN chunks' = [t \in DOMAIN chunks \union {name} |-> IF t = name THEN tmp ELSE chunks[t]]
    /\ tmp' = <<>>
    /\ logBuf' = <<>>
    /\ estimateLogBufSize' = 0
    /\ written' = FALSE
    /\ flushes' = Append(flushes, now)
    /\ UNCHANGED <<size, at, logs, commitIndex, next, lastInBufLogId, now, faults, hole>>

FlushRenames ==
    /\ written
    /\ chunks' = [t \in DOMAIN chunks \union {now} |-> IF t = now THEN tmp ELSE chunks[t]]
    /\ tmp' = <<>>
    /\ logBuf' = <<>>
    /\ estimateLogBufSize' = 0
    /\ written' = FALSE
    /\ flushes' = Append(flushes, now)
    /\ hole' = IF hole = "buffer" THEN "files" ELSE hole
    /\ UNCHANGED <<size, at, logs, commitIndex, next, lastInBufLogId, now, faults>>

-----------------------------------------------------------------------------
(***************************************************************************)
(* The life of the process and of the machine.                             *)
(***************************************************************************)
\* The constructor, loadChunks and loadRaftState; checkState aborts.
MutantLoad ==
    /\ at = "down"
    /\ IF Contiguous(Found)
       THEN /\ at' = "idle"
            /\ logs' = Found
            /\ lastInBufLogId' = IF Found = <<>> THEN 0 ELSE Last(Found) + 1
       ELSE /\ at' = "aborted"
            /\ UNCHANGED <<logs, lastInBufLogId>>
    /\ UNCHANGED <<size, commitIndex, next, logBuf, estimateLogBufSize, fileVars, now, faults, hole>>

Load ==
    /\ at = "down"
    /\ IF Contiguous(Found)
       THEN /\ at' = "idle"
            /\ logs' = Found
            /\ lastInBufLogId' = IF Found = <<>> THEN 0 ELSE Last(Found)
       ELSE /\ at' = "aborted"
            /\ UNCHANGED <<logs, lastInBufLogId>>
    /\ UNCHANGED <<size, commitIndex, next, logBuf, estimateLogBufSize, fileVars, now, faults, hole>>

Gone ==
    /\ at' = "down"
    /\ logs' = <<>> /\ commitIndex' = 0 /\ next' = 0
    /\ logBuf' = <<>> /\ lastInBufLogId' = 0 /\ estimateLogBufSize' = 0
    /\ written' = FALSE
    /\ hole' = IF hole = "buffer" THEN "none" ELSE hole
    /\ UNCHANGED <<size, tmp, chunks, now, flushes>>

\* The destructor flushes what is left in the buffer.
Destroy ==
    /\ at = "idle"
    /\ at' = "ending"
    /\ UNCHANGED <<size, logs, commitIndex, next, memoryVars, fileVars, now, faults, hole>>

Destroyed ==
    /\ at = "ending" /\ logBuf = <<>>
    /\ Gone
    /\ UNCHANGED faults

\* A read past the ends of the deque kills the process.
SaveDies ==
    /\ MoreToSave
    /\ ~Inside(next)
    /\ faults < MaxFaults
    /\ faults' = faults + 1
    /\ Gone

Kill ==
    /\ at \in {"idle", "saving", "ending"}
    /\ faults < MaxFaults
    /\ faults' = faults + 1
    /\ Gone

Reboot ==
    /\ at = "down"
    /\ faults < MaxFaults
    /\ faults' = faults + 1
    /\ now' = BootTime
    /\ UNCHANGED <<size, at, logs, commitIndex, next, memoryVars, fileVars, hole>>

Tick ==
    /\ now < MaxTime
    /\ now' = now + 1
    /\ UNCHANGED <<size, at, logs, commitIndex, next, memoryVars, fileVars, faults, hole>>

Next ==
    \/ \E prev, last \in 0..MaxLogIndex : \E first \in Index : AppendEntries(prev, first, last)
    \/ \E i \in Index : SaveLogs(i)
    \/ SaveEntry
    \/ SaveEnds
    \/ FlushWrites
    \/ FlushRenames
    \/ Load
    \/ Destroy
    \/ Destroyed
    \/ SaveDies
    \/ Kill
    \/ Reboot
    \/ Tick

Spec == Init /\ [][Next]_vars

-----------------------------------------------------------------------------
(***************************************************************************)
(* Properties.                                                             *)
(***************************************************************************)
Up == at \in {"idle", "saving", "ending"}

\* Every variable has its type; all times of chunks are times of flushes.
TypeOK ==
    /\ size \in [Index -> Sizes]
    /\ at \in {"down", "idle", "saving", "ending", "aborted"}
    /\ logs \in Seq(Index) /\ commitIndex \in 0..MaxLogIndex /\ next \in 0..MaxLogIndex + 1
    /\ logBuf \in Seq(Index) /\ lastInBufLogId \in 0..MaxLogIndex
    /\ estimateLogBufSize \in Nat
    /\ written \in BOOLEAN
    /\ tmp \in Seq(Index)
    /\ now \in Time /\ faults \in 0..MaxFaults
    /\ flushes \in Seq(Time) /\ chunks \in [ToSet(flushes) -> Seq(Index)]
    /\ hole \in {"none", "buffer", "files"}

\* The names of the chunks, as strings, are in the order in which they were
\* written: no two flushes in one millisecond, no reboot between two of them,
\* no clock that grew a digit.
NamesInOrder == \A i, j \in DOMAIN flushes : i < j => <<flushes[i], flushes[j]>> \in EarlierName

UpTo(n) == [k \in 1..n |-> k]

\* What loadRaftState would find, followed by the buffer, is the log up to
\* lastInBufLogId: saveLogs skips no entry and writes none twice, whatever
\* was lost with earlier processes, if the names are in order and no saveLogs
\* met a hole in the log (one whose entries were all lost does not count).
NothingIsSkipped ==
    Up /\ NamesInOrder /\ hole = "none" => Found \o logBuf = UpTo(lastInBufLogId)

\* A server that does not start again because of checkState has chunk files
\* whose names are not in order, or into which a log with a hole was flushed.
StartsAgain == at = "aborted" => ~NamesInOrder \/ hole = "files"

\* A step never makes fewer entries loadable if the names are in order: a kill
\* loses no more than the buffer, at any point of a flush.
FlushedIsFound == [][chunks' # chunks /\ NamesInOrder' => IsPrefix(Found, Found')]_vars

\* A kill loses at most LOG_CHUNK_BYTES, or one entry if it is larger.
LossIsBounded ==
    \/ Len(logBuf) <= 1
    \/ FoldSeq(LAMBDA i, sum : size[i] + sum, 0, logBuf) <= ChunkBytes
=============================================================================
