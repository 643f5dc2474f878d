------------------------------ MODULE RaftLog ------------------------------
(***************************************************************************)
(* The log of a Raft server: the deque `logs_' of RaftHandler and the pure *)
(* computations raft.cpp makes on it.  An entry carries its own index, and *)
(* the code addresses the deque through that index, so a log is a sequence *)
(* of entries whose indexes increase but need not be consecutive.          *)
(*                                                                         *)
(* No snapshot is ever committed by a state machine of this repository     *)
(* that keeps data, so snapshotIndex_ and snapshotTerm_ keep their initial *)
(* value 0.                                                                *)
(*                                                                         *)
(* Operators named Mutant... are no part of the specification: each is the *)
(* operator after it with a plausible bug, that a property must catch.     *)
(***************************************************************************)
EXTENDS Integers, Sequences, FiniteSets

CONSTANTS
    Command,       \* the commands clients submit
    NoEntry,       \* "no entry can be read here"
    Memory,        \* what a read past the end of the deque may find
    MaxTerm,       \* bound: the highest term of an election
    MaxLogIndex    \* bound: the highest index a leader gives to an entry

ASSUME BoundsAssumption == MaxTerm \in Nat /\ MaxLogIndex \in Nat

SnapshotIndex == 0
SnapshotTerm  == 0

MaxLogsPerRequest == 20
MaxLogsPerApply   == 20

Term  == 0..MaxTerm
Entry == [index: Nat, term: Term, command: Command]

\* A read past the end may kill the process, or find any entry left in the memory.
ASSUME MemoryAssumption ==
    /\ NoEntry \notin Entry
    /\ NoEntry \in Memory
    /\ Memory \subseteq Entry \cup {NoEntry}

Smaller(a, b) == IF a < b THEN a ELSE b

LastIndex(log) == IF log = <<>> THEN SnapshotIndex ELSE log[Len(log)].index
LastTerm(log)  == IF log = <<>> THEN SnapshotTerm  ELSE log[Len(log)].term

(***************************************************************************)
(* logs_[i - front] for the entry of index i.  One position past the end   *)
(* passes the bound check of getLogByLogIndex, and what the deque's memory *)
(* holds there is undefined: `mem' is what it holds in this execution,     *)
(* NoEntry if the read itself kills the process.                           *)
(***************************************************************************)
FrontIndex(log)  == IF log = <<>> THEN SnapshotIndex ELSE log[1].index
Position(log, i) == i - FrontIndex(log)
Inside(log, i)   == Position(log, i) \in 0..Len(log) - 1
PastEnd(log, i)  == Position(log, i) = Len(log)

EntryAt(log, i, mem) == IF Inside(log, i) THEN log[Position(log, i) + 1] ELSE mem

MemoryFor(undefinedRead) == IF undefinedRead THEN Memory ELSE {NoEntry}

\* The entry getLogByLogIndex returns, NoEntry if one of its checks fails.
GetLog(log, i, mem) ==
    LET found == IF PastEnd(log, i) \/ Inside(log, i)
                 THEN EntryAt(log, i, mem) ELSE NoEntry
    IN IF found # NoEntry /\ found.index = i THEN found ELSE NoEntry

(***************************************************************************)
(* Popping from the back every entry of index i or more.                   *)
(***************************************************************************)
PopFrom(log, i) ==
    SubSeq(log, 1, Cardinality({k \in 1..Len(log) : log[k].index < i}))

(***************************************************************************)
(* appendEntries: the scan for the first new entry that is beyond the log  *)
(* or in conflict with it, and the merge from that entry on.               *)
(***************************************************************************)
MutantScannedPast(log, e, mem) ==
    e.index <= LastIndex(log) /\ GetLog(log, e.index, mem) # NoEntry

ScannedPast(log, e, mem) ==
    /\ e.index <= LastIndex(log)
    /\ LET mine == GetLog(log, e.index, mem)
       IN mine # NoEntry /\ mine.term = e.term

ScanStopsAt(log, entries, mem, k) ==
    /\ \A j \in 1..k - 1 : ScannedPast(log, entries[j], mem)
    /\ k <= Len(entries) => ~ScannedPast(log, entries[k], mem)

ScanDies(log, entries, mem, k) ==
    /\ k <= Len(entries)
    /\ entries[k].index <= LastIndex(log)
    /\ GetLog(log, entries[k].index, mem) = NoEntry

ScanUndefined(log, entries) ==
    \E k \in DOMAIN entries :
        entries[k].index <= LastIndex(log) /\ PastEnd(log, entries[k].index)

MutantMergeFrom(log, entries, k) ==
    IF k > Len(entries) THEN log
    ELSE PopFrom(log, entries[k].index) \o SubSeq(entries, k + 1, Len(entries))

MergeFrom(log, entries, k) ==
    IF k > Len(entries) THEN log
    ELSE PopFrom(log, entries[k].index) \o SubSeq(entries, k, Len(entries))

\* What the check of prevLogTerm leaves of the follower's log.
AfterPrevCheck(log, prevLogIndex, prevLogTerm) ==
    IF prevLogTerm # LastTerm(log) THEN PopFrom(log, prevLogIndex) ELSE log

(***************************************************************************)
(* buildAppendEntriesParamsFor and gatherLogsFor.                          *)
(***************************************************************************)
ReadsPrev(log, next) == log # <<>> /\ next - 1 >= log[1].index

MutantPrevOf(log, next, mem) ==
    IF ReadsPrev(log, next) THEN GetLog(log, next - 1, mem)
    ELSE [index |-> next - 1, term |-> SnapshotTerm]

PrevOf(log, next, mem) ==
    IF ReadsPrev(log, next) THEN GetLog(log, next - 1, mem)
    ELSE [index |-> SnapshotIndex, term |-> SnapshotTerm]

GatheredIndexes(log, next) ==
    next..Smaller(LastIndex(log), next + MaxLogsPerRequest - 1)

\* The entries of the indexes lo..hi, in order; NoEntry where a read dies.
EntriesOf(log, lo, hi, mem) == [j \in 1..hi - lo + 1 |-> GetLog(log, lo + j - 1, mem)]

(***************************************************************************)
(* handleReplicateResultFor: the element of rank size/2 of the sorted      *)
(* indexes the servers are known to hold.                                  *)
(***************************************************************************)
MutantIsAgreeIndex(n, held) ==
    LET rank == (Cardinality(DOMAIN held) + 1) \div 2
        Below(limit) == Cardinality({s \in DOMAIN held : held[s] < limit})
    IN /\ Below(n) <= rank
       /\ rank < Below(n + 1)

IsAgreeIndex(n, held) ==
    LET rank == Cardinality(DOMAIN held) \div 2
        Below(limit) == Cardinality({s \in DOMAIN held : held[s] < limit})
    IN /\ Below(n) <= rank
       /\ rank < Below(n + 1)

(***************************************************************************)
(* Persister::saveLogs copies the entries at the positions of the indexes  *)
(* after lastInBufLogId_ up to commitIndex, without any check.             *)
(***************************************************************************)
MutantSavedEntries(log, lastSaved, commit, mem) ==
    [j \in 1..commit - lastSaved - 1 |-> EntryAt(log, lastSaved + j, mem)]

SavedEntries(log, lastSaved, commit, mem) ==
    [j \in 1..commit - lastSaved |-> EntryAt(log, lastSaved + j, mem)]

SaveUndefined(log, lastSaved, commit) ==
    \E i \in lastSaved + 1..commit : ~Inside(log, i)

\* Persister::checkState accepts what was read back from the chunk files.
Contiguous(log) == \A k \in 1..Len(log) - 1 : log[k + 1].index = log[k].index + 1
=============================================================================
