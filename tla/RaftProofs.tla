------------------------------ MODULE RaftProofs ------------------------------
(***************************************************************************)
(* Types, replication and elections of Raft, for every group, bound and    *)
(* contents of the memory.                                                 *)
(*                                                                         *)
(* Replication: what a server applies, what it commits and what a follower *)
(* acknowledges.  The logs may have holes and may be replaced, so none of  *)
(* it is the log matching of the paper.                                    *)
(*                                                                         *)
(* Elections: a server votes once in a term, a term has one winner,        *)
(* candidates campaign in new terms, and so the elections implement Voting.*)
(* appendEntries raises currentTerm_ without saving it, and a restart goes *)
(* back to the saved term.  The votes are safe nevertheless, since what    *)
(* bounds the votes a server has given is its saved term, and the term of  *)
(* its memory never falls below the saved one.                             *)
(***************************************************************************)
EXTENDS Raft, OrderFacts

-----------------------------------------------------------------------------
(***************************************************************************)
(* What the operators of RaftLog return, for logs of any length.           *)
(***************************************************************************)

(* A function on 1..n is a sequence, also when n is negative.              *)
LEMMA TupleIsSeq ==
    ASSUME NEW S, NEW n \in Int, NEW f \in [1..n -> S]
    PROVE  f \in Seq(S) /\ Len(f) = IF n > 0 THEN n ELSE 0
<1>1. CASE n > 0
  BY <1>1
<1>2. CASE ~(n > 0)
  <2>1. 1..n = 1..0
    BY <1>2
  <2>2. f \in [1..0 -> S]
    BY <2>1
  <2> QED BY <1>2, <2>2
<1> QED BY <1>1, <1>2

(* A prefix of a sequence of entries is one.                               *)
LEMMA PrefixType ==
    ASSUME NEW S, NEW q \in Seq(S), NEW n \in 0..Len(q)
    PROVE  SubSeq(q, 1, n) \in Seq(S) /\ Len(SubSeq(q, 1, n)) = n
OBVIOUS

(* So is any part of it.                                                   *)
LEMMA SubSeqType ==
    ASSUME NEW S, NEW q \in Seq(S), NEW m \in 1..Len(q) + 1, NEW n \in 0..Len(q)
    PROVE  SubSeq(q, m, n) \in Seq(S)
OBVIOUS

LEMMA LastIndexType ==
    ASSUME NEW log \in Seq(Entry)
    PROVE  LastIndex(log) \in Nat /\ LastTerm(log) \in Term
<1>1. CASE log = <<>>
  BY <1>1, BoundsAssumption DEF LastIndex, LastTerm, SnapshotIndex, SnapshotTerm, Term
<1>2. CASE log # <<>>
  <2>1. log[Len(log)] \in Entry
    BY <1>2
  <2> QED BY <1>2, <2>1 DEF LastIndex, LastTerm, Entry
<1> QED BY <1>1, <1>2

(* Whatever the memory holds, a read of the log finds an entry or nothing. *)
LEMMA EntryAtType ==
    ASSUME NEW log \in Seq(Entry), NEW i \in Int, NEW mem \in Memory
    PROVE  EntryAt(log, i, mem) \in Entry \cup {NoEntry}
<1>1. CASE Inside(log, i)
  <2>1. Position(log, i) + 1 \in 1..Len(log)
    BY <1>1 DEF Inside
  <2>2. log[Position(log, i) + 1] \in Entry
    BY <2>1
  <2> QED BY <1>1, <2>2 DEF EntryAt
<1>2. CASE ~Inside(log, i)
  BY <1>2, MemoryAssumption DEF EntryAt
<1> QED BY <1>1, <1>2

LEMMA GetLogType ==
    ASSUME NEW log \in Seq(Entry), NEW i \in Int, NEW mem \in Memory
    PROVE  /\ GetLog(log, i, mem) \in Entry \cup {NoEntry}
           /\ GetLog(log, i, mem) # NoEntry => GetLog(log, i, mem).index = i
BY EntryAtType DEF GetLog

LEMMA MemoryForType ==
    ASSUME NEW b \in BOOLEAN, NEW mem \in MemoryFor(b)
    PROVE  mem \in Memory
BY MemoryAssumption DEF MemoryFor

(* Popping from the back keeps a prefix.                                   *)
LEMMA PopFromType ==
    ASSUME NEW log \in Seq(Entry), NEW i \in Int
    PROVE  /\ PopFrom(log, i) \in Seq(Entry)
           /\ Len(PopFrom(log, i)) <= Len(log)
           /\ PopFrom(log, i) = SubSeq(log, 1, Len(PopFrom(log, i)))
<1> DEFINE kept == {k \in 1..Len(log) : log[k].index < i}
<1>1. IsFiniteSet(1..Len(log)) /\ Cardinality(1..Len(log)) = Len(log)
  <2>1. Len(log) \in Nat
    OBVIOUS
  <2>2. /\ IsFiniteSet(1..Len(log))
        /\ Cardinality(1..Len(log)) = IF 1 > Len(log) THEN 0 ELSE Len(log) - 1 + 1
    BY <2>1, FS_Interval
  <2> QED BY <2>1, <2>2
<1>2. Cardinality(kept) \in Nat /\ Cardinality(kept) <= Len(log)
  BY <1>1, FS_Subset, FS_CardinalityType
<1> HIDE DEF kept
<1>3. Cardinality(kept) \in 0..Len(log)
  BY <1>2
<1>4. PopFrom(log, i) = SubSeq(log, 1, Cardinality(kept))
  BY DEF PopFrom, kept
<1> QED BY <1>3, <1>4, PrefixType

LEMMA AfterPrevCheckType ==
    ASSUME NEW log \in Seq(Entry), NEW i \in Int, NEW t
    PROVE  AfterPrevCheck(log, i, t) \in Seq(Entry)
BY PopFromType DEF AfterPrevCheck

LEMMA MergeFromType ==
    ASSUME NEW log \in Seq(Entry), NEW entries \in Seq(Entry), NEW k \in 1..Len(entries) + 1
    PROVE  MergeFrom(log, entries, k) \in Seq(Entry)
<1>1. CASE k > Len(entries)
  BY <1>1 DEF MergeFrom
<1>2. CASE ~(k > Len(entries))
  <2>1. entries[k].index \in Int
    <3>1. k \in 1..Len(entries)
      BY <1>2
    <3>2. entries[k] \in Entry
      BY <3>1
    <3> QED BY <3>2 DEF Entry
  <2>2. PopFrom(log, entries[k].index) \in Seq(Entry)
    BY <2>1, PopFromType
  <2>3. SubSeq(entries, k, Len(entries)) \in Seq(Entry)
    BY SubSeqType
  <2> QED BY <1>2, <2>2, <2>3 DEF MergeFrom
<1> QED BY <1>1, <1>2

(* The entries read for a call or for the state machine, if no read fails. *)
LEMMA EntriesOfType ==
    ASSUME NEW log \in Seq(Entry), NEW lo \in Int, NEW hi \in Int, NEW mem \in Memory,
           \A k \in DOMAIN EntriesOf(log, lo, hi, mem) : EntriesOf(log, lo, hi, mem)[k] # NoEntry
    PROVE  /\ EntriesOf(log, lo, hi, mem) \in Seq(Entry)
           /\ Len(EntriesOf(log, lo, hi, mem)) = IF hi >= lo THEN hi - lo + 1 ELSE 0
<1> DEFINE read == EntriesOf(log, lo, hi, mem)
           n    == hi - lo + 1
<1>1. read = [j \in 1..n |-> GetLog(log, lo + j - 1, mem)]
  BY DEF EntriesOf
<1>2. ASSUME NEW j \in 1..n
      PROVE  read[j] \in Entry
  <2>1. lo + j - 1 \in Int
    OBVIOUS
  <2>2. GetLog(log, lo + j - 1, mem) \in Entry \cup {NoEntry}
    BY <2>1, GetLogType
  <2> QED BY <1>1, <2>2
<1> HIDE DEF read
<1>3. read \in [1..n -> Entry]
  BY <1>1, <1>2
<1> QED BY <1>3, TupleIsSeq DEF read

(* What saveLogs reads, if no read kills the process.                      *)
LEMMA SavedEntriesType ==
    ASSUME NEW log \in Seq(Entry), NEW from \in Int, NEW to \in Int, NEW mem \in Memory,
           \A k \in DOMAIN SavedEntries(log, from, to, mem) :
               SavedEntries(log, from, to, mem)[k] # NoEntry
    PROVE  SavedEntries(log, from, to, mem) \in Seq(Entry)
<1> DEFINE read == SavedEntries(log, from, to, mem)
           n    == to - from
<1>1. read = [j \in 1..n |-> EntryAt(log, from + j, mem)]
  BY DEF SavedEntries
<1>2. ASSUME NEW j \in 1..n
      PROVE  read[j] \in Entry
  <2>1. EntryAt(log, from + j, mem) \in Entry \cup {NoEntry}
    BY EntryAtType
  <2> QED BY <1>1, <2>1
<1> HIDE DEF read
<1>3. read \in [1..n -> Entry]
  BY <1>1, <1>2
<1> QED BY <1>3, TupleIsSeq DEF read

(* The previous entry of a call: of the log, or the snapshot's.            *)
LEMMA PrevOfType ==
    ASSUME NEW log \in Seq(Entry), NEW next \in Nat, NEW mem \in Memory,
           PrevOf(log, next, mem) # NoEntry
    PROVE  PrevOf(log, next, mem).index \in Nat /\ PrevOf(log, next, mem).term \in Term
<1>1. CASE ReadsPrev(log, next)
  <2>1. GetLog(log, next - 1, mem) \in Entry \cup {NoEntry}
    BY GetLogType
  <2> QED BY <1>1, <2>1 DEF PrevOf, Entry
<1>2. CASE ~ReadsPrev(log, next)
  BY <1>2, BoundsAssumption DEF PrevOf, SnapshotIndex, SnapshotTerm, Term
<1> QED BY <1>1, <1>2

(* In a group of an odd size, the index handleReplicateResultFor agrees on *)
(* is held by a majority: the median of an odd number of indexes is at     *)
(* most as large as more than half of them.                                *)
LEMMA AgreeIndexMajority ==
    ASSUME NEW S, IsFiniteSet(S), NEW half \in Nat, Cardinality(S) = 2 * half + 1,
           NEW held \in [S -> Nat], NEW n \in Nat, IsAgreeIndex(n, held)
    PROVE  Cardinality({s \in S : held[s] >= n}) > Cardinality(S) \div 2
<1> DEFINE below == {s \in S : held[s] < n}
           above == {s \in S : held[s] >= n}
<1>1. Cardinality(below) <= Cardinality(S) \div 2
  BY DEF IsAgreeIndex
<1>2. above = S \ below
  OBVIOUS
<1>3. IsFiniteSet(below) /\ Cardinality(below) \in Nat
  BY FS_Subset, FS_CardinalityType
<1>4. S \cap below = below
  OBVIOUS
<1>5. Cardinality(above) = Cardinality(S) - Cardinality(below)
  <2>1. Cardinality(S \ below) = Cardinality(S) - Cardinality(S \cap below)
    BY FS_Difference
  <2> QED BY <2>1, <1>2, <1>4, Zenon
<1>6. Cardinality(S) \div 2 = half
  OBVIOUS
<1> HIDE DEF below, above
<1>7. Cardinality(above) > Cardinality(S) \div 2
  <2>1. Cardinality(below) <= half
    BY <1>1, <1>6
  <2>2. Cardinality(above) = 2 * half + 1 - Cardinality(below)
    BY <1>5, <1>3
  <2>3. Cardinality(above) > half
    BY <2>1, <2>2, <1>3
  <2> QED BY <2>3, <1>6
<1> QED BY <1>7 DEF above

-----------------------------------------------------------------------------
(***************************************************************************)
(* Types of the messages and of the handlers.                              *)
(***************************************************************************)

(* The calls that leave a process are requests.                            *)
LEMMA OwnCallsType ==
    ASSUME TypeOK, NEW s \in Server
    PROVE  OwnCalls(s) \subseteq VoteRequest \cup AppendRequest
<1>1. ASSUME NEW p \in election[s].pending
      PROVE  VoteRequestOf(s, p) \in VoteRequest
  <2>1. election[s] \in [pc: {"idle", "collect", "join"}, term: Term, lastLogIndex: Nat,
                         lastLogTerm: Term, pending: SUBSET Server, votes: SUBSET Server]
    BY DEF TypeOK, ElectionType
  <2>2. p \in Server
    BY <2>1
  <2> QED BY <2>1, <2>2 DEF VoteRequestOf, VoteRequest
<1>2. ASSUME NEW p \in Peers(s), repl[s][p].pc = "sent"
      PROVE  repl[s][p].req \in AppendRequest
  BY <1>2 DEF TypeOK, ReplicatorType, Peers
<1> QED BY <1>1, <1>2 DEF OwnCalls

(* The end of a process leaves everything it sets typed.                   *)
LEMMA StopType ==
    ASSUME TypeOK, NEW s \in Server, NEW why \in Status, Stop(s, why)
    PROVE  /\ RaftType'
           /\ ApplierType'
           /\ logBuf' \in [Server -> Seq(Entry)]
           /\ lastInBufLogId' \in [Server -> Nat]
           /\ net' \subseteq VoteRequest \cup AppendRequest
<1>1. 0 \in Term /\ 0 \in Nat /\ <<>> \in Seq(Entry)
  BY BoundsAssumption DEF Term
<1>2. RaftType'
  <2>1. proc' \in [Server -> Status]
    BY DEF TypeOK, RaftType, Stop
  <2>2. currentTerm' \in [Server -> Term]
    BY <1>1 DEF TypeOK, RaftType, Stop
  <2>3. votedFor' \in [Server -> Server \cup {NoHost}]
    BY DEF TypeOK, RaftType, Stop
  <2>4. state' \in [Server -> {FOLLOWER, CANDIDATE, LEADER}]
    BY DEF TypeOK, RaftType, Stop
  <2>5. logs' \in [Server -> Seq(Entry)]
    BY <1>1 DEF TypeOK, RaftType, Stop
  <2>6. commitIndex' \in [Server -> Nat] /\ lastApplied' \in [Server -> Nat]
    BY <1>1 DEF TypeOK, RaftType, Stop
  <2>7. nextIndex' \in [Server -> [Server -> Nat]] /\ matchIndex' \in [Server -> [Server -> Nat]]
    BY <1>1 DEF TypeOK, RaftType, Stop
  <2> QED BY <2>1, <2>2, <2>3, <2>4, <2>5, <2>6, <2>7 DEF RaftType
<1>3. ApplierType'
  BY <1>1 DEF TypeOK, ApplierType, Stop, IdleApplier
<1>4. logBuf' \in [Server -> Seq(Entry)] /\ lastInBufLogId' \in [Server -> Nat]
  BY <1>1 DEF TypeOK, PersisterType, Stop
<1>5. net' \subseteq VoteRequest \cup AppendRequest
  BY OwnCallsType DEF TypeOK, HistoryType, Stop
<1> QED BY <1>2, <1>3, <1>4, <1>5

LEMMA NoElectionType ==
    NoElection \in [pc: {"idle", "collect", "join"}, term: Term, lastLogIndex: Nat,
                    lastLogTerm: Term, pending: SUBSET Server, votes: SUBSET Server]
BY BoundsAssumption DEF NoElection, Term

(* A thread in a state without a call may hold anything.                   *)
LEMMA ThreadsEndType ==
    ASSUME TypeOK, NEW s \in Server, ThreadsEnd(s)
    PROVE  ElectionType' /\ ReplicatorType'
<1>1. ElectionType'
  BY NoElectionType DEF TypeOK, ElectionType, ThreadsEnd
<1>2. ReplicatorType'
  BY DEF TypeOK, ReplicatorType, ThreadsEnd, Replicator
<1> QED BY <1>1, <1>2

LEMMA AbortType ==
    ASSUME TypeOK, NEW s \in Server, NEW why \in Status, Abort(s, why)
    PROVE  TypeOK'
<1>1. Stop(s, why) /\ ThreadsEnd(s) /\ UNCHANGED <<md, chunks, faults, historyVars>>
  BY DEF Abort
<1>2. PersisterType' /\ HistoryType'
  BY <1>1, StopType DEF TypeOK, PersisterType, HistoryType, historyVars
<1> QED BY <1>1, <1>2, StopType, ThreadsEndType DEF TypeOK

LEMMA KilledInSaveType ==
    ASSUME TypeOK, NEW s \in Server, KilledInSave(s)
    PROVE  RaftType' /\ PersisterType' /\ ApplierType' /\ HistoryType'
<1>1. Stop(s, "down")
  BY DEF KilledInSave
<1>2. "down" \in Status
  BY DEF Status
<1>3. PersisterType'
  <2>1. EmptyMeta \in [term: Term, vote: Server \cup {NoHost}]
    BY BoundsAssumption DEF EmptyMeta, Term
  <2>2. md' \in [Server -> [term: Term, vote: Server \cup {NoHost}]]
    BY <2>1 DEF TypeOK, PersisterType, KilledInSave
  <2>3. chunks' = chunks
    BY DEF KilledInSave
  <2> QED BY <1>1, <1>2, <2>2, <2>3, StopType DEF TypeOK, PersisterType
<1>4. HistoryType'
  BY <1>1, <1>2, StopType DEF TypeOK, HistoryType, KilledInSave
<1> QED BY <1>1, <1>2, <1>3, <1>4, StopType
-----------------------------------------------------------------------------
(***************************************************************************)
(* The handlers.                                                           *)
(***************************************************************************)
(* requestVote, and saveTermAndVote within it.                             *)
LEMMA RequestVoteType ==
    ASSUME TypeOK, NEW p \in Server, NEW m \in VoteRequest, NEW granted,
           RequestVote(p, m, granted)
    PROVE  /\ RaftType' /\ PersisterType' /\ ReplicatorType' /\ ApplierType'
           /\ faults' \in Nat /\ voted' \subseteq Ballot
           /\ elected' = elected /\ metaLost' = metaLost
<1>1. m.term \in Term /\ m.cand \in Server
  BY DEF VoteRequest
<1>2. [voter |-> p, term |-> m.term, cand |-> m.cand] \in Ballot
  BY <1>1 DEF Ballot
<1>3. RaftType'
  <2>1. currentTerm' \in [Server -> Term]
    BY <1>1 DEF TypeOK, RaftType, RequestVote
  <2>2. votedFor' \in [Server -> Server \cup {NoHost}]
    BY <1>1 DEF TypeOK, RaftType, RequestVote
  <2>3. state' \in [Server -> {FOLLOWER, CANDIDATE, LEADER}]
    BY ZenonT(30) DEF TypeOK, RaftType, RequestVote
  <2> QED BY <2>1, <2>2, <2>3 DEF TypeOK, RaftType, RequestVote
<1>4. PersisterType'
  <2>1. md' \in [Server -> [term: Term, vote: Server \cup {NoHost}]]
    <3>1. [term |-> m.term, vote |-> m.cand] \in [term: Term, vote: Server \cup {NoHost}]
      BY <1>1
    <3> QED BY <3>1 DEF TypeOK, PersisterType, RequestVote, SaveTermAndVote
  <2> QED BY <2>1 DEF TypeOK, PersisterType, RequestVote, persisterVars
<1>5. ReplicatorType' /\ ApplierType'
  BY DEF TypeOK, ReplicatorType, ApplierType, RequestVote
<1>6. voted' \subseteq Ballot
  BY <1>2 DEF TypeOK, HistoryType, RequestVote
<1> QED BY <1>3, <1>4, <1>5, <1>6 DEF TypeOK, HistoryType, RequestVote

LEMMA CallDoneType ==
    ASSUME TypeOK, NEW s \in Server, NEW p \in Server, NEW granted
    PROVE  CallDone(election[s], p, granted) \in
               [pc: {"idle", "collect", "join"}, term: Term, lastLogIndex: Nat,
                lastLogTerm: Term, pending: SUBSET Server, votes: SUBSET Server]
BY NoElectionType DEF TypeOK, ElectionType, CallDone

LEMMA VoteRequestOfType ==
    ASSUME TypeOK, NEW s \in Server, NEW p \in Server
    PROVE  VoteRequestOf(s, p) \in VoteRequest
BY DEF TypeOK, ElectionType, VoteRequestOf, VoteRequest

LEMMA CallFailsType ==
    ASSUME TypeOK, NEW p \in Server, NEW m \in VoteRequest \cup AppendRequest, CallFails(p, m)
    PROVE  faults' \in Nat /\ net' \subseteq VoteRequest \cup AppendRequest
BY DEF TypeOK, HistoryType, CallFails

LEMMA SaveLogsType ==
    ASSUME TypeOK, NEW s \in Server, NEW saved \in Seq(Entry), SaveLogs(s, saved)
    PROVE  /\ logBuf' \in [Server -> Seq(Entry)]
           /\ lastInBufLogId' \in [Server -> Nat]
           /\ chunks' \in [Server -> Seq(Entry)]
<1>0. /\ logBuf \in [Server -> Seq(Entry)]
      /\ lastInBufLogId \in [Server -> Nat]
      /\ chunks \in [Server -> Seq(Entry)]
  BY DEF TypeOK, PersisterType
<1>1. CASE saved = <<>>
  BY <1>0, <1>1 DEF SaveLogs, persisterVars
<1>2. CASE saved # <<>>
  <2>1. saved[Len(saved)] \in Entry
    BY <1>2
  <2>2. lastInBufLogId' \in [Server -> Nat]
    BY <1>0, <1>2, <2>1 DEF SaveLogs, Entry
  <2>3. PICK flushed \in 0..Len(saved) :
               IF flushed = 0
               THEN /\ logBuf' = [logBuf EXCEPT ![s] = @ \o saved]
                    /\ UNCHANGED chunks
               ELSE /\ chunks' = [chunks EXCEPT ![s] =
                          @ \o logBuf[s] \o SubSeq(saved, 1, flushed - 1)]
                    /\ logBuf' = [logBuf EXCEPT ![s] = SubSeq(saved, flushed, Len(saved))]
    BY <1>2 DEF SaveLogs
  <2>4. CASE flushed = 0
    <3>1. logBuf[s] \o saved \in Seq(Entry)
      BY <1>0
    <3> QED BY <1>0, <2>2, <2>3, <2>4, <3>1
  <2>5. CASE flushed # 0
    <3>1. SubSeq(saved, 1, flushed - 1) \in Seq(Entry)
      BY <2>5, SubSeqType
    <3>2. SubSeq(saved, flushed, Len(saved)) \in Seq(Entry)
      BY <2>5, SubSeqType
    <3>3. chunks[s] \o logBuf[s] \o SubSeq(saved, 1, flushed - 1) \in Seq(Entry)
      BY <1>0, <3>1
    <3> QED BY <1>0, <2>2, <2>3, <2>5, <3>2, <3>3
  <2> QED BY <2>4, <2>5
<1> QED BY <1>1, <1>2

LEMMA UpdateCommitIndexType ==
    ASSUME TypeOK, NEW s \in Server, NEW log \in Seq(Entry), NEW newIndex \in Nat,
           UpdateCommitIndex(s, log, newIndex)
    PROVE  /\ commitIndex' \in [Server -> Nat]
           /\ ApplierType'
           /\ logBuf' \in [Server -> Seq(Entry)]
           /\ lastInBufLogId' \in [Server -> Nat]
           /\ chunks' \in [Server -> Seq(Entry)]
<1>1. CASE CommitAdvances(s, newIndex)
  <2>1. commitIndex' \in [Server -> Nat]
    BY <1>1 DEF TypeOK, RaftType, UpdateCommitIndex
  <2>2. ApplierType'
    BY <1>1 DEF TypeOK, ApplierType, UpdateCommitIndex, WakeApplier
  <2> DEFINE undefined == SaveUndefined(log, lastInBufLogId[s], newIndex)
  <2>3. PICK mem \in MemoryFor(undefined) :
           LET saved == SavedEntries(log, lastInBufLogId[s], newIndex, mem)
           IN /\ \A k \in DOMAIN saved : saved[k] # NoEntry
              /\ SaveLogs(s, saved)
    BY <1>1 DEF UpdateCommitIndex
  <2>4. mem \in Memory
    BY <2>3, MemoryAssumption DEF MemoryFor
  <2>5. lastInBufLogId[s] \in Int
    BY DEF TypeOK, PersisterType
  <2>6. SavedEntries(log, lastInBufLogId[s], newIndex, mem) \in Seq(Entry)
    BY <2>3, <2>4, <2>5, SavedEntriesType
  <2> QED BY <2>1, <2>2, <2>3, <2>6, SaveLogsType
<1>2. CASE ~CommitAdvances(s, newIndex)
  BY <1>2 DEF UpdateCommitIndex, TypeOK, RaftType, ApplierType, PersisterType, persisterVars
<1> QED BY <1>1, <1>2
(* appendEntries, with the commit and the save within it.                  *)
LEMMA AppendEntriesType ==
    ASSUME TypeOK, NEW p \in Server, NEW m \in AppendRequest, NEW success,
           AppendEntries(p, m, success)
    PROVE  /\ RaftType' /\ PersisterType' /\ ApplierType'
           /\ faults' = faults /\ UNCHANGED historyVars
<1>0. /\ m.term \in Term /\ m.prevLogIndex \in Nat /\ m.prevLogTerm \in Term
      /\ m.leaderCommit \in Nat /\ m.entries \in Seq(Entry)
  BY DEF AppendRequest
<1>1. UNCHANGED <<proc, md, faults, historyVars>>
  BY DEF AppendEntries
<1>2. CASE m.term < currentTerm[p] /\ UNCHANGED <<raftVars, persisterVars, applier>>
  BY <1>1, <1>2 DEF TypeOK, RaftType, PersisterType, ApplierType, raftVars, persisterVars
<1>3. CASE AcceptsAppend(p, m) /\ ~UNCHANGED <<raftVars, persisterVars, applier>>
  <2>1. /\ currentTerm' = [currentTerm EXCEPT ![p] = m.term]
        /\ votedFor' = [votedFor EXCEPT ![p] = IF m.term > currentTerm[p] THEN NoHost ELSE @]
        /\ state' = [state EXCEPT ![p] =
              IF m.term > currentTerm[p] \/ @ = CANDIDATE THEN FOLLOWER ELSE @]
        /\ IF ~success THEN UNCHANGED <<logs, commitIndex, persisterVars, applier>>
           ELSE \E mem \in MemoryFor(ScanUndefined(KeptLog(p, m), m.entries)),
                   k \in 1..Len(m.entries) + 1 :
                LET log == MergeFrom(KeptLog(p, m), m.entries, k)
                IN /\ ScanStopsAt(KeptLog(p, m), m.entries, mem, k)
                   /\ ~ScanDies(KeptLog(p, m), m.entries, mem, k)
                   /\ logs' = [logs EXCEPT ![p] = log]
                   /\ UpdateCommitIndex(p, log, Smaller(m.leaderCommit, LastIndex(log)))
        /\ UNCHANGED <<lastApplied, nextIndex, matchIndex>>
    BY <1>3 DEF AppendEntries
  <2>2. currentTerm' \in [Server -> Term]
    BY <1>0, <2>1 DEF TypeOK, RaftType
  <2>3. votedFor' \in [Server -> Server \cup {NoHost}]
    BY <2>1 DEF TypeOK, RaftType
  <2>4. state' \in [Server -> {FOLLOWER, CANDIDATE, LEADER}]
    BY <2>1 DEF TypeOK, RaftType
  <2>5. /\ logs' \in [Server -> Seq(Entry)]
        /\ commitIndex' \in [Server -> Nat]
        /\ ApplierType'
        /\ logBuf' \in [Server -> Seq(Entry)]
        /\ lastInBufLogId' \in [Server -> Nat]
        /\ chunks' \in [Server -> Seq(Entry)]
    <3>1. CASE ~success
      BY <2>1, <3>1 DEF TypeOK, RaftType, ApplierType, PersisterType, persisterVars
    <3>2. CASE success
      <4>1. PICK k \in 1..Len(m.entries) + 1 :
                LET log == MergeFrom(KeptLog(p, m), m.entries, k)
                IN /\ logs' = [logs EXCEPT ![p] = log]
                   /\ UpdateCommitIndex(p, log, Smaller(m.leaderCommit, LastIndex(log)))
        BY <2>1, <3>2
      <4> DEFINE log == MergeFrom(KeptLog(p, m), m.entries, k)
      <4>2. logs[p] \in Seq(Entry)
        BY DEF TypeOK, RaftType
      <4>3. KeptLog(p, m) \in Seq(Entry)
        BY <1>0, <4>2, AfterPrevCheckType DEF KeptLog
      <4>4. log \in Seq(Entry)
        BY <1>0, <4>3, MergeFromType
      <4>5. Smaller(m.leaderCommit, LastIndex(log)) \in Nat
        BY <1>0, <4>4, LastIndexType DEF Smaller
      <4>6. logs' \in [Server -> Seq(Entry)]
        BY <4>1, <4>4 DEF TypeOK, RaftType
      <4> HIDE DEF log
      <4> QED BY <4>1, <4>4, <4>5, <4>6, UpdateCommitIndexType DEF log
    <3> QED BY <3>1, <3>2
  <2>6. RaftType'
    BY <1>1, <2>1, <2>2, <2>3, <2>4, <2>5 DEF TypeOK, RaftType
  <2>7. PersisterType'
    BY <1>1, <2>5 DEF TypeOK, PersisterType
  <2> QED BY <1>1, <2>5, <2>6, <2>7
<1>4. CASE UNCHANGED <<raftVars, persisterVars, applier>>
  BY <1>1, <1>4 DEF TypeOK, RaftType, PersisterType, ApplierType, raftVars, persisterVars
<1> QED BY <1>2, <1>3, <1>4 DEF AppendEntries

(* The call a replicator or a round of heartbeats makes.                   *)
LEMMA ParamsForType ==
    ASSUME TypeOK, NEW s \in Server, NEW p \in Server, NEW mem \in Memory,
           ReadPrev(s, p, mem) # NoEntry, NEW entries \in Seq(Entry)
    PROVE  ParamsFor(s, p, ReadPrev(s, p, mem), entries) \in AppendRequest
<1>1. /\ currentTerm[s] \in Term /\ commitIndex[s] \in Nat
      /\ logs[s] \in Seq(Entry) /\ nextIndex[s][p] \in Nat
  BY DEF TypeOK, RaftType
<1>2. ReadPrev(s, p, mem).index \in Nat /\ ReadPrev(s, p, mem).term \in Term
  BY <1>1, PrevOfType DEF ReadPrev
<1> QED BY <1>1, <1>2 DEF ParamsFor, AppendRequest

LEMMA GatherForType ==
    ASSUME TypeOK, NEW s \in Server, NEW p \in Server, NEW mem \in Memory,
           \A k \in DOMAIN GatherFor(s, p, mem) : GatherFor(s, p, mem)[k] # NoEntry
    PROVE  GatherFor(s, p, mem) \in Seq(Entry)
<1>1. logs[s] \in Seq(Entry) /\ nextIndex[s][p] \in Nat
  BY DEF TypeOK, RaftType
<1>2. LastIndex(logs[s]) \in Nat
  BY <1>1, LastIndexType
<1>3. Smaller(LastIndex(logs[s]), nextIndex[s][p] + MaxLogsPerRequest - 1) \in Int
  BY <1>1, <1>2 DEF Smaller, MaxLogsPerRequest
<1> QED BY <1>1, <1>3, EntriesOfType DEF GatherFor
-----------------------------------------------------------------------------
(***************************************************************************)
(* The actions.                                                            *)
(***************************************************************************)
LEMMA TypeInit == Init => TypeOK
<1> SUFFICES ASSUME Init PROVE TypeOK
  OBVIOUS
<1>1. 0 \in Term /\ <<>> \in Seq(Entry)
  BY BoundsAssumption DEF Term
<1>2. RaftType
  BY <1>1 DEF Init, RaftType, Status
<1>3. PersisterType
  BY <1>1 DEF Init, PersisterType, EmptyMeta
<1>4. ElectionType
  BY NoElectionType DEF Init, ElectionType
<1>5. ReplicatorType
  BY DEF Init, ReplicatorType, Replicator
<1>6. ApplierType
  BY <1>1 DEF Init, ApplierType, IdleApplier
<1>7. HistoryType
  BY DEF Init, HistoryType
<1> QED BY <1>2, <1>3, <1>4, <1>5, <1>6, <1>7 DEF TypeOK

(* Kills, shutdowns and restarts.                                          *)
LEMMA TypeProcess ==
    ASSUME TypeOK, NEW s \in Server, Kill(s) \/ Shutdown(s) \/ Restart(s)
    PROVE  TypeOK'
<1>0. "down" \in Status /\ "up" \in Status /\ "invalid log sequence" \in Status
  BY DEF Status
<1>1. CASE Kill(s)
  <2>1. Stop(s, "down") /\ ThreadsEnd(s)
    BY <1>1 DEF Kill
  <2>2. /\ RaftType' /\ ApplierType'
        /\ logBuf' \in [Server -> Seq(Entry)]
        /\ lastInBufLogId' \in [Server -> Nat]
        /\ net' \subseteq VoteRequest \cup AppendRequest
    BY <1>0, <2>1, StopType
  <2>3. /\ faults' = faults + 1
        /\ UNCHANGED <<md, chunks, voted, elected, metaLost>>
    BY <1>1 DEF Kill, historyVars
  <2>4. PersisterType' /\ HistoryType'
    <3>1. PersisterType /\ HistoryType
      BY DEF TypeOK
    <3>2. PersisterType'
      BY <2>2, <2>3, <3>1 DEF PersisterType
    <3>3. HistoryType'
      BY <2>2, <2>3, <3>1 DEF HistoryType
    <3> QED BY <3>2, <3>3
  <2> QED BY <2>1, <2>2, <2>4, ThreadsEndType DEF TypeOK
<1>2. CASE Shutdown(s)
  <2>1. Stop(s, "down") /\ ThreadsEnd(s)
    BY <1>2 DEF Shutdown
  <2>2. chunks' \in [Server -> Seq(Entry)]
    <3>1. chunks[s] \o logBuf[s] \in Seq(Entry)
      BY DEF TypeOK, PersisterType
    <3> QED BY <1>2, <3>1 DEF Shutdown, TypeOK, PersisterType
  <2>3. /\ RaftType' /\ ApplierType'
        /\ logBuf' \in [Server -> Seq(Entry)]
        /\ lastInBufLogId' \in [Server -> Nat]
        /\ net' \subseteq VoteRequest \cup AppendRequest
    BY <1>0, <2>1, StopType
  <2>4. /\ faults' = faults + 1
        /\ UNCHANGED <<md, voted, elected, metaLost>>
    BY <1>2 DEF Shutdown, historyVars
  <2>5. PersisterType' /\ HistoryType'
    <3>1. PersisterType /\ HistoryType
      BY DEF TypeOK
    <3>2. PersisterType'
      BY <2>2, <2>3, <2>4, <3>1 DEF PersisterType
    <3>3. HistoryType'
      BY <2>2, <2>3, <2>4, <3>1 DEF HistoryType
    <3> QED BY <3>2, <3>3
  <2> QED BY <2>1, <2>3, <2>5, ThreadsEndType DEF TypeOK
<1>3. CASE Restart(s)
  <2>1. /\ UNCHANGED <<state, commitIndex, lastApplied, nextIndex, matchIndex, logBuf, chunks,
                        md, threadVars, net, historyVars>>
        /\ faults' = faults + 1
    BY <1>3 DEF Restart
  <2>2. chunks[s] \in Seq(Entry) /\ LastIndex(chunks[s]) \in Nat
    BY LastIndexType DEF TypeOK, PersisterType
  <2>3. md[s].term \in Term /\ md[s].vote \in Server \cup {NoHost}
    BY DEF TypeOK, PersisterType
  <2>4. proc' \in [Server -> Status]
    BY <1>0, <1>3 DEF Restart, TypeOK, RaftType
  <2>5. currentTerm' \in [Server -> Term] /\ votedFor' \in [Server -> Server \cup {NoHost}]
    BY <1>3, <2>3 DEF Restart, TypeOK, RaftType
  <2>6. logs' \in [Server -> Seq(Entry)] /\ lastInBufLogId' \in [Server -> Nat]
    <3>1. logs \in [Server -> Seq(Entry)] /\ lastInBufLogId \in [Server -> Nat]
      BY DEF TypeOK, RaftType, PersisterType
    <3>2. CASE Contiguous(chunks[s])
      <4>1. /\ logs' = [logs EXCEPT ![s] = chunks[s]]
            /\ lastInBufLogId' = [lastInBufLogId EXCEPT ![s] = LastIndex(chunks[s])]
        BY <1>3, <3>2 DEF Restart
      <4> QED BY <2>2, <3>1, <4>1
    <3>3. CASE ~Contiguous(chunks[s])
      BY <1>3, <3>1, <3>3 DEF Restart
    <3> QED BY <3>2, <3>3
  <2>7. RaftType' /\ PersisterType'
    BY <2>1, <2>4, <2>5, <2>6 DEF TypeOK, RaftType, PersisterType
  <2>8. ElectionType' /\ ReplicatorType' /\ ApplierType' /\ HistoryType'
    BY <2>1 DEF TypeOK, ElectionType, ReplicatorType, ApplierType, HistoryType, threadVars,
                historyVars
  <2> QED BY <2>7, <2>8 DEF TypeOK
<1> QED BY <1>1, <1>2, <1>3

(* The election thread of s, up to its calls.                              *)
LEMMA TypeElection ==
    ASSUME TypeOK, NEW s \in Server,
           \/ ElectionTimeout(s) \/ StartElection(s) \/ StartElectionKilled(s) \/ CountVotes(s)
    PROVE  TypeOK'
<1>1. CASE ElectionTimeout(s)
  <2>1. RaftType'
    BY <1>1 DEF ElectionTimeout, TypeOK, RaftType
  <2>2. /\ PersisterType' /\ ElectionType' /\ ReplicatorType' /\ ApplierType' /\ HistoryType'
    BY <1>1 DEF ElectionTimeout, TypeOK, PersisterType, ElectionType, ReplicatorType,
                ApplierType, HistoryType, persisterVars, threadVars, historyVars
  <2> QED BY <2>1, <2>2 DEF TypeOK
<1>2. CASE StartElection(s)
  <2> DEFINE term == currentTerm[s] + 1
  <2>1. term \in Term
    BY <1>2, BoundsAssumption DEF StartElection, MayStartElection, TypeOK, RaftType, Term
  <2>2. LastIndex(logs[s]) \in Nat /\ LastTerm(logs[s]) \in Term
    BY LastIndexType DEF TypeOK, RaftType
  <2> HIDE DEF term
  <2>3. /\ currentTerm' = [currentTerm EXCEPT ![s] = term]
        /\ votedFor' = [votedFor EXCEPT ![s] = s]
        /\ md' = [md EXCEPT ![s] = [term |-> term, vote |-> s]]
        /\ voted' = voted \cup {[voter |-> s, term |-> term, cand |-> s]}
        /\ election' = [election EXCEPT ![s] =
              [pc |-> "collect", term |-> term, lastLogIndex |-> LastIndex(logs[s]),
               lastLogTerm |-> LastTerm(logs[s]), pending |-> Peers(s), votes |-> {s}]]
        /\ UNCHANGED <<proc, state, logs, commitIndex, lastApplied, nextIndex, matchIndex,
                        persisterVars, repl, applier, net, faults, elected, metaLost>>
    BY <1>2 DEF StartElection, SaveTermAndVote, term
  <2>4. RaftType'
    BY <2>1, <2>3 DEF TypeOK, RaftType
  <2>5. PersisterType'
    BY <2>1, <2>3 DEF TypeOK, PersisterType, persisterVars
  <2>6. ElectionType'
    BY <2>1, <2>2, <2>3 DEF TypeOK, ElectionType, Peers
  <2>7. ReplicatorType' /\ ApplierType'
    BY <2>3 DEF TypeOK, ReplicatorType, ApplierType
  <2>8. HistoryType'
    BY <2>1, <2>3 DEF TypeOK, HistoryType, Ballot
  <2> QED BY <2>4, <2>5, <2>6, <2>7, <2>8 DEF TypeOK
<1>3. CASE StartElectionKilled(s)
  BY <1>3, KilledInSaveType, ThreadsEndType DEF StartElectionKilled, TypeOK
<1>4. CASE CountVotes(s)
  <2>1. UNCHANGED <<proc, currentTerm, votedFor, logs, commitIndex, lastApplied, persisterVars,
                   md, repl, applier, net, faults, voted, metaLost>>
    BY <1>4 DEF CountVotes
  <2>2. ElectionType'
    BY <1>4, NoElectionType DEF CountVotes, TypeOK, ElectionType
  <2>3. LastIndex(logs[s]) + 1 \in Nat
    BY LastIndexType DEF TypeOK, RaftType
  <2>4. election[s].term \in Term
    BY DEF TypeOK, ElectionType
  <2>5. CASE IsMajority(Cardinality(election[s].votes)) /\ state[s] = CANDIDATE
    <3>1. /\ state' = [state EXCEPT ![s] = LEADER]
          /\ nextIndex' = [nextIndex EXCEPT ![s] = [p \in Server |-> LastIndex(logs[s]) + 1]]
          /\ matchIndex' = [matchIndex EXCEPT ![s] = [p \in Server |-> 0]]
          /\ elected' = elected \cup {[server |-> s, term |-> election[s].term]}
      BY <1>4, <2>5 DEF CountVotes
    <3>2. state' \in [Server -> {FOLLOWER, CANDIDATE, LEADER}]
      BY <3>1 DEF TypeOK, RaftType
    <3>3. nextIndex' \in [Server -> [Server -> Nat]] /\ matchIndex' \in [Server -> [Server -> Nat]]
      BY <3>1, <2>3 DEF TypeOK, RaftType
    <3>4. RaftType'
      BY <2>1, <3>2, <3>3 DEF TypeOK, RaftType
    <3>5. HistoryType'
      BY <2>1, <2>4, <3>1 DEF TypeOK, HistoryType
    <3> QED BY <2>1, <2>2, <3>4, <3>5
            DEF TypeOK, PersisterType, ReplicatorType, ApplierType, persisterVars
  <2>6. CASE ~(IsMajority(Cardinality(election[s].votes)) /\ state[s] = CANDIDATE)
    <3>1. UNCHANGED <<state, nextIndex, matchIndex, elected>>
      BY <1>4, <2>6 DEF CountVotes
    <3> QED BY <2>1, <2>2, <3>1 DEF TypeOK, RaftType, PersisterType, ReplicatorType,
                                    ApplierType, HistoryType, persisterVars
  <2> QED BY <2>5, <2>6
<1> QED BY <1>1, <1>2, <1>3, <1>4
(* The calls of an election.                                               *)
LEMMA TypeVoteCalls ==
    ASSUME TypeOK, NEW s \in Server, NEW p \in Peers(s),
           \/ RequestVoteCall(s, p) \/ RequestVoteKilled(s, p) \/ RequestVoteFails(s, p)
    PROVE  TypeOK'
<1>0. p \in Server
  BY DEF Peers
<1>1. VoteRequestOf(s, p) \in VoteRequest
  BY <1>0, VoteRequestOfType
<1>2. CASE RequestVoteCall(s, p)
  <2>1. PICK granted \in BOOLEAN :
          /\ RequestVote(p, VoteRequestOf(s, p), granted)
          /\ election' = [election EXCEPT ![s] = CallDone(@, p, granted)]
    BY <1>2 DEF RequestVoteCall
  <2>2. net' = net
    BY <1>2 DEF RequestVoteCall
  <2>3. ElectionType'
    BY <1>0, <2>1, CallDoneType DEF TypeOK, ElectionType
  <2>4. /\ RaftType' /\ PersisterType' /\ ReplicatorType' /\ ApplierType'
        /\ faults' \in Nat /\ voted' \subseteq Ballot
        /\ elected' = elected /\ metaLost' = metaLost
    BY <1>0, <1>1, <2>1, RequestVoteType
  <2>5. HistoryType'
    BY <2>2, <2>4 DEF TypeOK, HistoryType
  <2> QED BY <2>3, <2>4, <2>5 DEF TypeOK
<1>3. CASE RequestVoteKilled(s, p)
  <2>1. /\ KilledInSave(p)
        /\ election' = [election EXCEPT ![p] = NoElection, ![s] = CallDone(@, p, FALSE)]
        /\ repl' = [repl EXCEPT ![p] = [q \in Server |-> Replicator("idle")]]
    BY <1>3 DEF RequestVoteKilled
  <2>2. ElectionType'
    BY <1>0, <2>1, CallDoneType, NoElectionType DEF TypeOK, ElectionType, Peers
  <2>3. ReplicatorType'
    BY <1>0, <2>1 DEF TypeOK, ReplicatorType, Replicator
  <2> QED BY <1>0, <2>1, <2>2, <2>3, KilledInSaveType DEF TypeOK
<1>4. CASE RequestVoteFails(s, p)
  <2>1. /\ election' = [election EXCEPT ![s] = CallDone(@, p, FALSE)]
        /\ CallFails(p, VoteRequestOf(s, p))
        /\ UNCHANGED <<proc, raftVars, persisterVars, md, repl, applier, historyVars>>
    BY <1>4 DEF RequestVoteFails
  <2>2. ElectionType'
    BY <1>0, <2>1, CallDoneType DEF TypeOK, ElectionType
  <2>3. faults' \in Nat /\ net' \subseteq VoteRequest \cup AppendRequest
    BY <1>0, <1>1, <2>1, CallFailsType
  <2> QED BY <2>1, <2>2, <2>3 DEF TypeOK, RaftType, PersisterType, ReplicatorType, ApplierType,
                                  HistoryType, raftVars, persisterVars, historyVars
<1> QED BY <1>2, <1>3, <1>4

(* A client's command, and the rounds of heartbeats.                       *)
LEMMA TypeLeader ==
    ASSUME TypeOK, NEW s \in Server,
           (\E c \in Command : Start(s, c)) \/ SendHeartBeats(s) \/ SendHeartBeatsAborts(s)
    PROVE  TypeOK'
<1>1. CASE \E c \in Command : Start(s, c)
  <2>1. PICK c \in Command : Start(s, c)
    BY <1>1
  <2>2. logs' \in [Server -> Seq(Entry)]
    <3>1. logs[s] \in Seq(Entry) /\ currentTerm[s] \in Term
      BY DEF TypeOK, RaftType
    <3>2. [index |-> LastIndex(logs[s]) + 1, term |-> currentTerm[s], command |-> c] \in Entry
      <4>1. LastIndex(logs[s]) + 1 \in Nat
        BY <3>1, LastIndexType
      <4> QED BY <3>1, <4>1 DEF Entry
    <3> QED BY <2>1, <3>1, <3>2 DEF Start, TypeOK, RaftType
  <2>3. ReplicatorType'
    BY <2>1 DEF Start, TypeOK, ReplicatorType, Replicator
  <2> QED BY <2>1, <2>2, <2>3 DEF Start, TypeOK, RaftType, PersisterType, ElectionType,
                                  ApplierType, HistoryType, persisterVars, historyVars
<1>2. CASE SendHeartBeats(s)
  <2>1. PICK mem \in UNION {PrevMemory(s, p) : p \in Peers(s)},
             reached \in SUBSET {p \in Peers(s) : Up(p)} :
               /\ \A p \in Peers(s) : ReadPrev(s, p, mem) # NoEntry
               /\ net' = net \cup {ParamsFor(s, p, ReadPrev(s, p, mem), <<>>) : p \in reached}
    BY <1>2 DEF SendHeartBeats
  <2>2. mem \in Memory
    BY <2>1, MemoryAssumption DEF PrevMemory, MemoryFor
  <2>3. <<>> \in Seq(Entry)
    OBVIOUS
  <2>4. ASSUME NEW p \in reached
        PROVE  ParamsFor(s, p, ReadPrev(s, p, mem), <<>>) \in AppendRequest
    BY <2>1, <2>2, <2>3, ParamsForType DEF Peers
  <2>5. HistoryType'
    BY <1>2, <2>1, <2>4 DEF SendHeartBeats, TypeOK, HistoryType, historyVars
  <2> QED BY <1>2, <2>5 DEF SendHeartBeats, TypeOK, RaftType, PersisterType, ElectionType,
                            ReplicatorType, ApplierType, raftVars, persisterVars, threadVars
<1>3. CASE SendHeartBeatsAborts(s)
  BY <1>3, AbortType DEF SendHeartBeatsAborts, Status
<1> QED BY <1>1, <1>2, <1>3
(* The replicator threads.                                                 *)
LEMMA TypeReplicator ==
    ASSUME TypeOK, NEW s \in Server, NEW p \in Peers(s),
           \/ ReplicatorCheck(s, p) \/ ReplicatorSend(s, p) \/ ReplicatorSendAborts(s, p)
           \/ ReplicateFails(s, p) \/ HandleRejected(s, p)
    PROVE  TypeOK'
<1>0. p \in Server
  BY DEF Peers
<1>1. CASE ReplicatorCheck(s, p)
  <2>1. ReplicatorType'
    <3>1. PICK goal \in {"send", "idle"} : repl' = [repl EXCEPT ![s][p].pc = goal]
      BY <1>1 DEF ReplicatorCheck
    <3> DEFINE R == [pc: {"idle", "check", "send", "sent", "accepted", "rejected"},
                     req: AppendRequest \cup {NoRequest}]
               new == [repl[s][p] EXCEPT !.pc = goal]
    <3>2. repl \in [Server -> [Server -> R]]
      BY DEF TypeOK, ReplicatorType
    <3>3. new \in R /\ new.pc = goal
      <4>1. repl[s][p] \in R
        BY <1>0, <3>2
      <4>2. goal \in {"idle", "check", "send", "sent", "accepted", "rejected"}
        BY <3>1
      <4> QED BY <4>1, <4>2
    <3>4. repl' = [repl EXCEPT ![s][p] = new]
      BY <3>1
    <3> HIDE DEF R, new
    <3>5. repl' \in [Server -> [Server -> R]]
      BY <1>0, <3>2, <3>3, <3>4
    <3>6. ASSUME NEW t \in Server, NEW q \in Server,
                 repl'[t][q].pc \in {"sent", "accepted", "rejected"}
          PROVE  repl'[t][q] = repl[t][q]
      BY <1>0, <3>1, <3>2, <3>3, <3>4, <3>6
    <3>7. \A t, q \in Server :
              repl'[t][q].pc \in {"sent", "accepted", "rejected"} => repl'[t][q].req \in AppendRequest
      BY <3>6 DEF TypeOK, ReplicatorType
    <3> QED BY <3>5, <3>7 DEF ReplicatorType, R
  <2> QED BY <1>1, <2>1 DEF ReplicatorCheck, TypeOK, RaftType, PersisterType, ElectionType,
                ApplierType, HistoryType, raftVars, persisterVars, historyVars
<1>2. CASE ReplicatorSend(s, p)
  <2>1. PICK mem \in SendMemory(s, p) :
          LET entries == GatherFor(s, p, mem)
          IN /\ ReadPrev(s, p, mem) # NoEntry
             /\ \A k \in DOMAIN entries : entries[k] # NoEntry
             /\ repl' = [repl EXCEPT ![s][p] =
                   [pc |-> "sent", req |-> ParamsFor(s, p, ReadPrev(s, p, mem), entries)]]
    BY <1>2 DEF ReplicatorSend
  <2>2. mem \in Memory
    BY <2>1, MemoryAssumption DEF SendMemory, MemoryFor
  <2>3. GatherFor(s, p, mem) \in Seq(Entry)
    BY <1>0, <2>1, <2>2, GatherForType
  <2>4. ParamsFor(s, p, ReadPrev(s, p, mem), GatherFor(s, p, mem)) \in AppendRequest
    BY <1>0, <2>1, <2>2, <2>3, ParamsForType
  <2>5. ReplicatorType'
    BY <1>0, <2>1, <2>4 DEF TypeOK, ReplicatorType
  <2> QED BY <1>2, <2>5 DEF ReplicatorSend, TypeOK, RaftType, PersisterType, ElectionType,
                ApplierType, HistoryType, raftVars, persisterVars, historyVars
<1>3. CASE ReplicatorSendAborts(s, p)
  BY <1>3, AbortType DEF ReplicatorSendAborts, Status
<1>4. CASE ReplicateFails(s, p)
  <2>1. repl[s][p].req \in AppendRequest
    BY <1>0, <1>4 DEF ReplicateFails, TypeOK, ReplicatorType
  <2>2. faults' \in Nat /\ net' \subseteq VoteRequest \cup AppendRequest
    BY <1>0, <1>4, <2>1, CallFailsType DEF ReplicateFails
  <2>3. ReplicatorType'
    BY <1>0, <1>4 DEF ReplicateFails, TypeOK, ReplicatorType, Replicator
  <2> QED BY <1>4, <2>2, <2>3 DEF ReplicateFails, TypeOK, RaftType, PersisterType, ElectionType,
                ApplierType, HistoryType, raftVars, persisterVars, historyVars
<1>5. CASE HandleRejected(s, p)
  <2>1. repl[s][p].req \in AppendRequest
    BY <1>0, <1>5 DEF HandleRejected, TypeOK, ReplicatorType
  <2>2. Smaller(nextIndex[s][p], repl[s][p].req.prevLogIndex) \in Nat
    BY <1>0, <2>1 DEF Smaller, AppendRequest, TypeOK, RaftType
  <2>3. nextIndex' \in [Server -> [Server -> Nat]]
    BY <1>0, <1>5, <2>2 DEF HandleRejected, TypeOK, RaftType
  <2>4. ReplicatorType'
    BY <1>0, <1>5 DEF HandleRejected, TypeOK, ReplicatorType, Replicator
  <2> QED BY <1>5, <2>3, <2>4 DEF HandleRejected, TypeOK, RaftType, PersisterType, ElectionType,
                ApplierType, HistoryType, persisterVars, historyVars
<1> QED BY <1>1, <1>2, <1>3, <1>4, <1>5

(* The calls of the replicators.                                           *)
LEMMA TypeReplicateCall ==
    ASSUME TypeOK, NEW s \in Server, NEW p \in Peers(s),
           ReplicateCall(s, p) \/ ReplicateCallAborts(s, p)
    PROVE  TypeOK'
<1>0. p \in Server
  BY DEF Peers
<1>1. CASE ReplicateCall(s, p)
  <2>1. PICK success \in BOOLEAN :
          /\ AppendEntries(p, repl[s][p].req, success)
          /\ repl' = [repl EXCEPT ![s][p].pc = IF success THEN "accepted" ELSE "rejected"]
    BY <1>1 DEF ReplicateCall
  <2>2. repl[s][p].req \in AppendRequest
    BY <1>0, <1>1 DEF ReplicateCall, TypeOK, ReplicatorType
  <2>3. /\ RaftType' /\ PersisterType' /\ ApplierType'
        /\ faults' = faults /\ UNCHANGED historyVars
    BY <1>0, <2>1, <2>2, AppendEntriesType
  <2>4. ReplicatorType'
    BY <1>0, <2>1, <2>2 DEF TypeOK, ReplicatorType
  <2> QED BY <1>1, <2>3, <2>4 DEF ReplicateCall, TypeOK, ElectionType, HistoryType, historyVars
<1>2. CASE ReplicateCallAborts(s, p)
  <2>1. PICK why \in {"two leaders", "unexpected log"} : Stop(p, why)
    BY <1>2 DEF ReplicateCallAborts
  <2>2. /\ election' = [election EXCEPT ![p] = NoElection]
        /\ repl' = [repl EXCEPT ![p] = [q \in Server |-> Replicator("idle")],
                                ![s][p] = Replicator("check")]
        /\ UNCHANGED <<md, chunks, faults, voted, elected, metaLost>>
    BY <1>2 DEF ReplicateCallAborts, historyVars
  <2>3. /\ RaftType' /\ ApplierType'
        /\ logBuf' \in [Server -> Seq(Entry)]
        /\ lastInBufLogId' \in [Server -> Nat]
        /\ net' \subseteq VoteRequest \cup AppendRequest
    BY <1>0, <2>1, StopType DEF Status
  <2>4. PersisterType' /\ HistoryType'
    <3>1. PersisterType /\ HistoryType
      BY DEF TypeOK
    <3>2. PersisterType'
      BY <2>2, <2>3, <3>1 DEF PersisterType
    <3>3. HistoryType'
      BY <2>2, <2>3, <3>1 DEF HistoryType
    <3> QED BY <3>2, <3>3
  <2>5. ElectionType'
    BY <2>2, NoElectionType DEF TypeOK, ElectionType
  <2>6. ReplicatorType'
    BY <1>0, <2>2 DEF TypeOK, ReplicatorType, Replicator
  <2> QED BY <2>3, <2>4, <2>5, <2>6 DEF TypeOK
<1> QED BY <1>1, <1>2

(* The index a leader agrees on is one of a server.                        *)
LEMMA HeldType ==
    ASSUME TypeOK, NEW s \in Server, NEW match \in [Server -> Nat]
    PROVE  Held(s, match) \in [Server -> Nat]
<1>1. LastIndex(logs[s]) \in Nat
  BY LastIndexType DEF TypeOK, RaftType
<1> QED BY <1>1 DEF Held

LEMMA TypeHandleAccepted ==
    ASSUME TypeOK, NEW s \in Server, NEW p \in Peers(s),
           HandleAccepted(s, p) \/ HandleAcceptedAborts(s, p)
    PROVE  TypeOK'
<1>0. p \in Server
  BY DEF Peers
<1>1. CASE HandleAccepted(s, p)
  <2>1. repl' = [repl EXCEPT ![s][p] = Replicator("check")]
    BY <1>1 DEF HandleAccepted
  <2>2. UNCHANGED <<proc, currentTerm, votedFor, state, logs, lastApplied, md, election, net,
                   faults, historyVars>>
    BY <1>1 DEF HandleAccepted
  <2>3. ReplicatorType'
    BY <1>0, <2>1 DEF TypeOK, ReplicatorType, Replicator
  <2>4. repl[s][p].req \in AppendRequest
    BY <1>0, <1>1 DEF HandleAccepted, TypeOK, ReplicatorType
  <2>5. /\ nextIndex' \in [Server -> [Server -> Nat]]
        /\ matchIndex' \in [Server -> [Server -> Nat]]
        /\ commitIndex' \in [Server -> Nat]
        /\ ApplierType'
        /\ logBuf' \in [Server -> Seq(Entry)]
        /\ lastInBufLogId' \in [Server -> Nat]
        /\ chunks' \in [Server -> Seq(Entry)]
    <3>1. CASE repl[s][p].req.entries = <<>>
      BY <1>1, <3>1 DEF HandleAccepted, TypeOK, RaftType, ApplierType, PersisterType, persisterVars
    <3>2. CASE repl[s][p].req.entries # <<>>
      <4> DEFINE match == [matchIndex[s] EXCEPT ![p] = Matched(s, p)]
                 held  == Held(s, match)
      <4>1. Matched(s, p) \in Nat
        BY <2>4 DEF Matched, AppendRequest
      <4>2. match \in [Server -> Nat]
        BY <1>0, <4>1 DEF TypeOK, RaftType
      <4>3. held \in [Server -> Nat]
        BY <4>2, HeldType
      <4>4. /\ nextIndex' = [nextIndex EXCEPT ![s][p] = Matched(s, p) + 1]
            /\ matchIndex' = [matchIndex EXCEPT ![s] = match]
            /\ \E agree \in {held[q] : q \in Server} :
                  \/ UpdateCommitIndex(s, logs[s], agree)
                  \/ UNCHANGED <<commitIndex, applier, persisterVars>>
        BY <1>1, <3>2 DEF HandleAccepted
      <4>5. nextIndex' \in [Server -> [Server -> Nat]] /\ matchIndex' \in [Server -> [Server -> Nat]]
        <5> HIDE DEF match, held
        <5>1. nextIndex \in [Server -> [Server -> Nat]] /\ matchIndex \in [Server -> [Server -> Nat]]
          BY DEF TypeOK, RaftType
        <5>2. Matched(s, p) + 1 \in Nat
          BY <4>1
        <5>3. nextIndex' \in [Server -> [Server -> Nat]]
          BY <1>0, <4>4, <5>1, <5>2
        <5>4. matchIndex' \in [Server -> [Server -> Nat]]
          BY <4>2, <4>4, <5>1
        <5> QED BY <5>3, <5>4
      <4> HIDE DEF match, held
      <4>6. PICK agree \in {held[q] : q \in Server} :
                  \/ UpdateCommitIndex(s, logs[s], agree)
                  \/ UNCHANGED <<commitIndex, applier, persisterVars>>
        BY <4>4
      <4>7. agree \in Nat /\ logs[s] \in Seq(Entry)
        BY <4>3 DEF TypeOK, RaftType
      <4>8. CASE UpdateCommitIndex(s, logs[s], agree)
        BY <4>5, <4>7, <4>8, UpdateCommitIndexType
      <4>9. CASE UNCHANGED <<commitIndex, applier, persisterVars>>
        BY <4>5, <4>9 DEF TypeOK, RaftType, ApplierType, PersisterType, persisterVars
      <4> QED BY <4>6, <4>8, <4>9
    <3> QED BY <3>1, <3>2
  <2>6. RaftType' /\ PersisterType' /\ ElectionType' /\ HistoryType'
    BY <2>2, <2>5 DEF TypeOK, RaftType, PersisterType, ElectionType, HistoryType, historyVars
  <2> QED BY <2>3, <2>5, <2>6 DEF TypeOK
<1>2. CASE HandleAcceptedAborts(s, p)
  BY <1>2, AbortType DEF HandleAcceptedAborts, Status
<1> QED BY <1>1, <1>2
(* async_applyMsg.                                                         *)
LEMMA TypeApplier ==
    ASSUME TypeOK, NEW s \in Server,
           GatherForApply(s) \/ GatherForApplyAborts(s) \/ Applied(s)
    PROVE  TypeOK'
<1>1. CASE GatherForApply(s)
  <2>1. PICK mem \in ApplyMemory(s) :
          LET queue == EntriesOf(logs[s], lastApplied[s] + 1, ApplyLimit(s), mem)
          IN /\ \A k \in DOMAIN queue : queue[k] # NoEntry
             /\ applier' = [applier EXCEPT ![s] =
                   IF queue = <<>> THEN IdleApplier ELSE [pc |-> "apply", queue |-> queue]]
    BY <1>1 DEF GatherForApply
  <2>2. mem \in Memory
    BY <2>1, MemoryAssumption DEF ApplyMemory, MemoryFor
  <2>3. logs[s] \in Seq(Entry) /\ lastApplied[s] + 1 \in Int /\ ApplyLimit(s) \in Int
    BY DEF TypeOK, RaftType, ApplyLimit, Smaller, MaxLogsPerApply
  <2>4. EntriesOf(logs[s], lastApplied[s] + 1, ApplyLimit(s), mem) \in Seq(Entry)
    BY <2>1, <2>2, <2>3, EntriesOfType
  <2>5. ApplierType'
    BY <2>1, <2>4 DEF TypeOK, ApplierType, IdleApplier
  <2> QED BY <1>1, <2>5 DEF GatherForApply, TypeOK, RaftType, PersisterType, ElectionType,
                            ReplicatorType, HistoryType, raftVars, persisterVars, historyVars
<1>2. CASE GatherForApplyAborts(s)
  BY <1>2, AbortType DEF GatherForApplyAborts, Status
<1>3. CASE Applied(s)
  <2>1. applier[s].queue \in Seq(Entry)
    BY DEF TypeOK, ApplierType
  <2>2. lastApplied' \in [Server -> Nat]
    BY <1>3, <2>1, SMTT(30) DEF Applied, TypeOK, RaftType
  <2>3. ApplierType'
    BY <1>3 DEF Applied, TypeOK, ApplierType
  <2> QED BY <1>3, <2>2, <2>3 DEF Applied, TypeOK, RaftType, PersisterType, ElectionType,
                                  ReplicatorType, HistoryType, persisterVars, historyVars
<1> QED BY <1>1, <1>2, <1>3

(* Calls executed after their callers gave them up.                        *)
LEMMA TypeLate ==
    ASSUME TypeOK, NEW m \in net,
           RequestVoteLate(m) \/ AppendEntriesLate(m) \/ AppendEntriesLateAborts(m)
    PROVE  TypeOK'
<1>0. m \in VoteRequest \cup AppendRequest
  BY DEF TypeOK, HistoryType
<1>1. CASE RequestVoteLate(m)
  <2>1. m \in VoteRequest
    BY <1>0, <1>1 DEF RequestVoteLate, VoteRequest, AppendRequest
  <2>2. m.to \in Server
    BY <2>1 DEF VoteRequest
  <2>3. /\ RaftType' /\ PersisterType' /\ ReplicatorType' /\ ApplierType'
        /\ faults' \in Nat /\ voted' \subseteq Ballot
        /\ elected' = elected /\ metaLost' = metaLost
    BY <1>1, <2>1, <2>2, RequestVoteType DEF RequestVoteLate
  <2>4. ElectionType' /\ HistoryType'
    BY <1>1, <2>3 DEF RequestVoteLate, TypeOK, ElectionType, HistoryType
  <2> QED BY <2>3, <2>4 DEF TypeOK
<1>2. CASE AppendEntriesLate(m)
  <2>1. m \in AppendRequest
    BY <1>0, <1>2 DEF AppendEntriesLate, VoteRequest, AppendRequest
  <2>2. m.to \in Server
    BY <2>1 DEF AppendRequest
  <2>3. /\ RaftType' /\ PersisterType' /\ ApplierType'
        /\ faults' = faults /\ UNCHANGED historyVars
    BY <1>2, <2>1, <2>2, AppendEntriesType DEF AppendEntriesLate
  <2>4. ElectionType' /\ ReplicatorType' /\ HistoryType'
    BY <1>2, <2>3 DEF AppendEntriesLate, TypeOK, ElectionType, ReplicatorType, HistoryType,
                      historyVars
  <2> QED BY <2>3, <2>4 DEF TypeOK
<1>3. CASE AppendEntriesLateAborts(m)
  <2>1. m.to \in Server
    BY <1>0 DEF VoteRequest, AppendRequest
  <2> QED BY <1>3, <2>1, AbortType DEF AppendEntriesLateAborts, Status
<1> QED BY <1>1, <1>2, <1>3

LEMMA TypeStep == TypeOK /\ [Next]_vars => TypeOK'
<1> SUFFICES ASSUME TypeOK, [Next]_vars PROVE TypeOK'
  OBVIOUS
<1>1. ASSUME NEW s \in Server,
             \/ Kill(s) \/ Shutdown(s) \/ Restart(s)
             \/ ElectionTimeout(s) \/ StartElection(s) \/ StartElectionKilled(s)
             \/ CountVotes(s)
             \/ SendHeartBeats(s) \/ SendHeartBeatsAborts(s)
             \/ GatherForApply(s) \/ GatherForApplyAborts(s) \/ Applied(s)
      PROVE  TypeOK'
  BY <1>1, TypeProcess, TypeElection, TypeLeader, TypeApplier
<1>2. ASSUME NEW s \in Server, NEW c \in Command, Start(s, c)
      PROVE  TypeOK'
  BY <1>2, TypeLeader
<1>3. ASSUME NEW s \in Server, NEW p \in Peers(s),
             \/ RequestVoteCall(s, p) \/ RequestVoteKilled(s, p) \/ RequestVoteFails(s, p)
             \/ ReplicatorCheck(s, p) \/ ReplicatorSend(s, p) \/ ReplicatorSendAborts(s, p)
             \/ ReplicateCall(s, p) \/ ReplicateCallAborts(s, p) \/ ReplicateFails(s, p)
             \/ HandleAccepted(s, p) \/ HandleAcceptedAborts(s, p) \/ HandleRejected(s, p)
      PROVE  TypeOK'
  BY <1>3, TypeVoteCalls, TypeReplicator, TypeReplicateCall, TypeHandleAccepted
<1>4. ASSUME NEW m \in net,
             RequestVoteLate(m) \/ AppendEntriesLate(m) \/ AppendEntriesLateAborts(m)
      PROVE  TypeOK'
  BY <1>4, TypeLate
<1>5. CASE UNCHANGED vars
  BY <1>5 DEF vars, raftVars, persisterVars, threadVars, historyVars, TypeOK, RaftType,
              PersisterType, ElectionType, ReplicatorType, ApplierType, HistoryType
<1> QED BY <1>1, <1>2, <1>3, <1>4, <1>5 DEF Next

(* Every variable of every server keeps its type, whatever calls are late, *)
(* whoever is killed and whatever the undefined reads find; nextIndex_,    *)
(* which followers' rejections lower, never becomes negative.              *)
THEOREM TypeCorrect == Spec => []TypeOK
<1>1. Init => TypeOK
  BY TypeInit
<1>2. TypeOK /\ [Next]_vars => TypeOK'
  BY TypeStep
<1> QED BY <1>1, <1>2, PTL DEF Spec

-----------------------------------------------------------------------------
(***************************************************************************)
(* What a step does to one server t: it may end or start its process, or   *)
(* it lives on.  Then its commit index grows, its applier stays behind the *)
(* commit index, its Persister keeps up with it, and, if it is and stays a *)
(* leader, its log grows.                                                  *)
(***************************************************************************)
MayApply(t) == lastApplied[t] + Len(applier[t].queue) <= commitIndex[t]

InStep(saved, last, commit) == HasNoHole(saved) => last = Len(saved) /\ commit <= Len(saved)

KeepsUp(t) == Up(t) => InStep(Saved(t), lastInBufLogId[t], commitIndex[t])

Unsaved(t) ==
    /\ commitIndex'[t] = commitIndex[t] /\ lastInBufLogId'[t] = lastInBufLogId[t]
    /\ chunks'[t] = chunks[t] /\ logBuf'[t] = logBuf[t]

Unmoved(t) ==
    /\ proc'[t] = proc[t] /\ state'[t] = state[t] /\ logs'[t] = logs[t]
    /\ Unsaved(t) /\ lastApplied'[t] = lastApplied[t]
    /\ applier'[t] = applier[t]

Ends(t) ==
    /\ proc'[t] # "up" /\ state'[t] = FOLLOWER /\ logBuf'[t] = <<>>
    /\ commitIndex'[t] = 0 /\ lastApplied'[t] = 0 /\ applier'[t] = IdleApplier

Starts(t) ==
    /\ ~Up(t)
    /\ state'[t] = state[t] /\ commitIndex'[t] = commitIndex[t]
    /\ chunks'[t] = chunks[t] /\ logBuf'[t] = logBuf[t]
    /\ proc'[t] = "up" => lastInBufLogId'[t] = LastIndex(chunks[t])
    /\ lastApplied'[t] = lastApplied[t] /\ applier'[t] = applier[t]

Lives(t) ==
    /\ proc'[t] = proc[t]
    /\ Up(t) \/ state'[t] = state[t] \/ state'[t] = FOLLOWER
    /\ Up(t) \/ Unsaved(t)
    /\ commitIndex'[t] >= commitIndex[t]
    /\ MayApply(t) => MayApply(t)'
    /\ KeepsUp(t) => KeepsUp(t)'
    /\ state[t] = LEADER /\ state'[t] = LEADER =>
          logs'[t] = logs[t] \/ \E e \in Entry : logs'[t] = Append(logs[t], e)

Moves(t) == Ends(t) \/ Starts(t) \/ Lives(t)

LEMMA CommitIsNat ==
    ASSUME TypeOK, NEW t \in Server
    PROVE  /\ commitIndex[t] \in Nat /\ lastApplied[t] \in Nat /\ logs[t] \in Seq(Entry)
           /\ applier[t].queue \in Seq(Entry) /\ Len(applier[t].queue) \in Nat
BY DEF TypeOK, RaftType, ApplierType

LEMMA KeepsUpStays ==
    ASSUME NEW t \in Server, Unsaved(t), proc'[t] = proc[t]
    PROVE  KeepsUp(t) => KeepsUp(t)'
BY DEF KeepsUp, Unsaved, Saved, Up

LEMMA UnmovedMoves ==
    ASSUME TypeOK, NEW t \in Server, Unmoved(t)
    PROVE  Moves(t)
<1>1. commitIndex[t] \in Nat
  BY CommitIsNat
<1>2. KeepsUp(t) => KeepsUp(t)'
  BY KeepsUpStays DEF Unmoved
<1> QED BY <1>1, <1>2 DEF Unmoved, Unsaved, Moves, Lives, MayApply

LEMMA StopMoves ==
    ASSUME TypeOK, NEW s \in Server, NEW why, why # "up", Stop(s, why), NEW t \in Server,
           t = s \/ chunks'[t] = chunks[t]
    PROVE  Moves(t)
<1> USE DEF TypeOK, RaftType, ApplierType, PersisterType
<1>1. CASE t = s
  <2>1. proc'[s] = why /\ state'[s] = FOLLOWER
    BY DEF Stop
  <2>2. commitIndex'[s] = 0 /\ lastApplied'[s] = 0 /\ applier'[s] = IdleApplier
    BY DEF Stop
  <2>3. logBuf'[s] = <<>>
    BY DEF Stop
  <2> QED BY <1>1, <2>1, <2>2, <2>3 DEF Moves, Ends
<1>2. CASE t # s
  <2>1. proc'[t] = proc[t] /\ state'[t] = state[t] /\ logs'[t] = logs[t]
    BY <1>2 DEF Stop
  <2>2. commitIndex'[t] = commitIndex[t] /\ lastApplied'[t] = lastApplied[t]
        /\ applier'[t] = applier[t]
    BY <1>2 DEF Stop
  <2>3. Unsaved(t)
    <3>1. lastInBufLogId'[t] = lastInBufLogId[t] /\ logBuf'[t] = logBuf[t]
      BY <1>2 DEF Stop
    <3> QED BY <1>2, <2>2, <3>1 DEF Unsaved
  <2> HIDE DEF TypeOK
  <2> QED BY <2>1, <2>2, <2>3, UnmovedMoves DEF Unmoved
<1> QED BY <1>1, <1>2

LEMMA AbortMoves ==
    ASSUME TypeOK, NEW s \in Server, NEW why, why # "up", Abort(s, why), NEW t \in Server
    PROVE  Moves(t)
BY StopMoves DEF Abort

LEMMA Regroup ==
    ASSUME NEW a \in Seq(Entry), NEW b \in Seq(Entry), NEW c \in Seq(Entry)
    PROVE  a \o b \in Seq(Entry) /\ a \o (b \o c) = (a \o b) \o c
OBVIOUS

(* What saveLogs is given is found at the end of what is saved.            *)
LEMMA SaveLogsAdds ==
    ASSUME TypeOK, NEW s \in Server, NEW saved \in Seq(Entry), SaveLogs(s, saved)
    PROVE  /\ Saved(s)' = Saved(s) \o saved
           /\ lastInBufLogId'[s] = IF saved = <<>> THEN lastInBufLogId[s] ELSE saved[Len(saved)].index
           /\ \A t \in Server \ {s} :
                 /\ lastInBufLogId'[t] = lastInBufLogId[t]
                 /\ chunks'[t] = chunks[t] /\ logBuf'[t] = logBuf[t]
<1>0. /\ logBuf \in [Server -> Seq(Entry)] /\ chunks \in [Server -> Seq(Entry)]
      /\ lastInBufLogId \in [Server -> Nat]
  BY DEF TypeOK, PersisterType
<1>1. CASE saved = <<>>
  <2>1. Saved(s) \in Seq(Entry)
    BY <1>0 DEF Saved
  <2>2. Saved(s) \o saved = Saved(s)
    BY <1>1, <2>1
  <2> QED BY <1>1, <2>2 DEF SaveLogs, persisterVars, Saved
<1>2. CASE saved # <<>>
  <2>1. lastInBufLogId' = [lastInBufLogId EXCEPT ![s] = saved[Len(saved)].index]
    BY <1>2 DEF SaveLogs
  <2>2. PICK flushed \in 0..Len(saved) :
          IF flushed = 0
          THEN /\ logBuf' = [logBuf EXCEPT ![s] = @ \o saved]
               /\ UNCHANGED chunks
          ELSE /\ chunks' = [chunks EXCEPT ![s] =
                     @ \o logBuf[s] \o SubSeq(saved, 1, flushed - 1)]
               /\ logBuf' = [logBuf EXCEPT ![s] = SubSeq(saved, flushed, Len(saved))]
    BY <1>2 DEF SaveLogs
  <2>3. \A t \in Server \ {s} : /\ lastInBufLogId'[t] = lastInBufLogId[t]
                                /\ chunks'[t] = chunks[t] /\ logBuf'[t] = logBuf[t]
    BY <1>0, <2>1, <2>2
  <2>4. Saved(s)' = Saved(s) \o saved
    <3>0. chunks[s] \in Seq(Entry) /\ logBuf[s] \in Seq(Entry)
      BY <1>0
    <3>1. CASE flushed = 0
      <4>1. chunks'[s] = chunks[s] /\ logBuf'[s] = logBuf[s] \o saved
        BY <1>0, <2>2, <3>1
      <4>2. chunks[s] \o (logBuf[s] \o saved) = (chunks[s] \o logBuf[s]) \o saved
        BY ONLY <3>0, saved \in Seq(Entry), Regroup, Zenon
      <4> QED BY <4>1, <4>2 DEF Saved
    <3>2. CASE flushed # 0
      <4>1. /\ chunks'[s] = chunks[s] \o logBuf[s] \o SubSeq(saved, 1, flushed - 1)
            /\ logBuf'[s] = SubSeq(saved, flushed, Len(saved))
        BY <1>0, <2>2, <3>2
      <4>2. saved = SubSeq(saved, 1, flushed - 1) \o SubSeq(saved, flushed, Len(saved))
        BY <3>2
      <4>3. SubSeq(saved, 1, flushed - 1) \in Seq(Entry)
            /\ SubSeq(saved, flushed, Len(saved)) \in Seq(Entry)
        BY <3>2
      <4>5. (chunks[s] \o logBuf[s] \o SubSeq(saved, 1, flushed - 1))
                \o SubSeq(saved, flushed, Len(saved))
            = (chunks[s] \o logBuf[s])
                \o (SubSeq(saved, 1, flushed - 1) \o SubSeq(saved, flushed, Len(saved)))
        <5>1. PICK both \in Seq(Entry) : both = chunks[s] \o logBuf[s]
          BY ONLY <3>0, Regroup, Zenon
        <5>2. (both \o SubSeq(saved, 1, flushed - 1)) \o SubSeq(saved, flushed, Len(saved))
              = both \o (SubSeq(saved, 1, flushed - 1) \o SubSeq(saved, flushed, Len(saved)))
          BY ONLY both \in Seq(Entry), <4>3, Regroup, Zenon
        <5> QED BY <5>1, <5>2, Zenon
      <4> QED BY <4>1, <4>2, <4>5 DEF Saved
    <3> QED BY <3>1, <3>2
  <2> QED BY <1>0, <1>2, <2>1, <2>3, <2>4
<1> QED BY <1>1, <1>2

(* A save of all the entries between the last one saved and a new commit   *)
(* index leaves what is saved in step, whichever entries it found there.   *)
LEMMA StaysInStep ==
    ASSUME NEW before \in Seq(Entry), NEW saved \in Seq(Entry),
           NEW last \in Nat, NEW newLast, NEW commit \in Nat, NEW newCommit \in Nat,
           InStep(before, last, commit),
           Len(saved) = IF newCommit > last THEN newCommit - last ELSE 0,
           newLast = IF saved = <<>> THEN last ELSE saved[Len(saved)].index
    PROVE  InStep(before \o saved, newLast, newCommit)
<1> SUFFICES ASSUME HasNoHole(before \o saved)
             PROVE  newLast = Len(before \o saved) /\ newCommit <= Len(before \o saved)
  BY DEF InStep
<1>1. /\ Len(before \o saved) = Len(before) + Len(saved)
      /\ \A k \in 1..Len(before) : (before \o saved)[k] = before[k]
      /\ saved # <<>> => (before \o saved)[Len(before) + Len(saved)] = saved[Len(saved)]
      /\ DOMAIN (before \o saved) = 1..Len(before) + Len(saved)
  OBVIOUS
<1>2. \A k \in 1..Len(before) + Len(saved) : (before \o saved)[k].index = k
  BY ONLY <1>1, HasNoHole(before \o saved), Zenon DEF HasNoHole
<1>3. HasNoHole(before)
  BY <1>1, <1>2 DEF HasNoHole
<1>4. last = Len(before)
  BY <1>3 DEF InStep
<1>5. saved # <<>> => saved[Len(saved)].index = Len(before) + Len(saved)
  BY <1>1, <1>2
<1>6. saved = <<>> <=> Len(saved) = 0
  OBVIOUS
<1> QED BY <1>1, <1>4, <1>5, <1>6

LEMMA UpdateSaves ==
    ASSUME TypeOK, NEW s \in Server, NEW log \in Seq(Entry), NEW newIndex \in Nat,
           UpdateCommitIndex(s, log, newIndex), NEW t \in Server, proc'[t] = proc[t]
    PROVE  /\ KeepsUp(t) => KeepsUp(t)'
           /\ t = s \/ Unsaved(t)
<1>1. CASE CommitAdvances(s, newIndex)
  <2>1. commitIndex' = [commitIndex EXCEPT ![s] = newIndex]
    BY <1>1 DEF UpdateCommitIndex
  <2>2. PICK mem \in MemoryFor(SaveUndefined(log, lastInBufLogId[s], newIndex)) :
           LET saved == SavedEntries(log, lastInBufLogId[s], newIndex, mem)
           IN /\ \A k \in DOMAIN saved : saved[k] # NoEntry
              /\ SaveLogs(s, saved)
    BY <1>1 DEF UpdateCommitIndex
  <2>3. PICK saved : saved = SavedEntries(log, lastInBufLogId[s], newIndex, mem)
    OBVIOUS
  <2>4. SaveLogs(s, saved)
    BY <2>2, <2>3
  <2>5. lastInBufLogId[s] \in Nat /\ commitIndex[s] \in Nat /\ commitIndex \in [Server -> Nat]
    BY DEF TypeOK, RaftType, PersisterType
  <2>6. saved \in Seq(Entry)
    <3>1. mem \in Memory
      BY <2>2, MemoryAssumption DEF MemoryFor
    <3>2. lastInBufLogId[s] \in Int /\ newIndex \in Int
      BY <2>5
    <3> QED BY <2>2, <2>3, <3>1, <3>2, SavedEntriesType
  <2>7. Len(saved) = IF newIndex > lastInBufLogId[s] THEN newIndex - lastInBufLogId[s] ELSE 0
    <3>1. PICK n \in Int : n = newIndex - lastInBufLogId[s]
      BY <2>5
    <3>2. DOMAIN saved = 1..n
      BY <2>3, <3>1 DEF SavedEntries
    <3>3. Len(saved) \in Nat /\ DOMAIN saved = 1..Len(saved)
      BY <2>6
    <3>4. Len(saved) = IF n > 0 THEN n ELSE 0
      BY <3>2, <3>3
    <3> QED BY <2>5, <3>1, <3>4
  <2>8. /\ Saved(s)' = Saved(s) \o saved
        /\ lastInBufLogId'[s] = IF saved = <<>> THEN lastInBufLogId[s] ELSE saved[Len(saved)].index
        /\ \A r \in Server \ {s} :
              /\ lastInBufLogId'[r] = lastInBufLogId[r]
              /\ chunks'[r] = chunks[r] /\ logBuf'[r] = logBuf[r]
    BY <2>4, <2>6, SaveLogsAdds
  <2>9. CASE t = s
    <3>1. Saved(s) \in Seq(Entry)
      BY DEF Saved, TypeOK, PersisterType
    <3>2. commitIndex'[s] = newIndex
      BY <2>1, <2>5
    <3>3. InStep(Saved(s), lastInBufLogId[s], commitIndex[s]) =>
             InStep(Saved(s) \o saved, lastInBufLogId'[s], newIndex)
      BY <2>5, <2>6, <2>7, <2>8, <3>1, StaysInStep
    <3>4. KeepsUp(s)' <=> (proc'[s] = "up" =>
                              InStep(Saved(s) \o saved, lastInBufLogId'[s], newIndex))
      BY <2>8, <3>2 DEF KeepsUp, Up, InStep, HasNoHole
    <3> QED BY <2>9, <3>3, <3>4 DEF KeepsUp, Up
  <2>10. CASE t # s
    <3>1. Unsaved(t)
      BY <2>1, <2>5, <2>8, <2>10 DEF Unsaved
    <3> QED BY <2>10, <3>1, KeepsUpStays
  <2> QED BY <2>9, <2>10
<1>2. CASE ~CommitAdvances(s, newIndex)
  <2>1. Unsaved(t)
    BY <1>2 DEF UpdateCommitIndex, persisterVars, Unsaved
  <2> QED BY <2>1, KeepsUpStays
<1> QED BY <1>1, <1>2

LEMMA UpdateMoves ==
    ASSUME TypeOK, NEW s \in Server, NEW log, NEW newIndex \in Nat,
           UpdateCommitIndex(s, log, newIndex), NEW t \in Server
    PROVE  commitIndex'[t] >= commitIndex[t] /\ applier'[t].queue = applier[t].queue
<1>1. commitIndex[t] \in Nat /\ commitIndex \in [Server -> Nat]
  BY DEF TypeOK, RaftType
<1>2. applier \in [Server -> [pc: {"idle", "gather", "apply"}, queue: Seq(Entry)]]
  BY DEF TypeOK, ApplierType
<1>3. CASE CommitAdvances(s, newIndex)
  <2>1. commitIndex' = [commitIndex EXCEPT ![s] = newIndex] /\ WakeApplier(s)
    BY <1>3 DEF UpdateCommitIndex
  <2>2. commitIndex'[t] >= commitIndex[t]
    BY <1>1, <1>3, <2>1 DEF CommitAdvances
  <2>3. applier'[t].queue = applier[t].queue
    <3>1. CASE UNCHANGED applier
      BY <3>1
    <3>2. CASE applier' = [applier EXCEPT ![s].pc = "gather"]
      <4>1. applier'[t] = IF t = s THEN [applier[t] EXCEPT !.pc = "gather"] ELSE applier[t]
        BY <1>2, <3>2
      <4> QED BY <1>2, <4>1
    <3> QED BY <2>1, <3>1, <3>2 DEF WakeApplier
  <2> QED BY <2>2, <2>3
<1>4. CASE ~CommitAdvances(s, newIndex)
  BY <1>1, <1>4 DEF UpdateCommitIndex
<1> QED BY <1>3, <1>4

LEMMA MayApplyStays ==
    ASSUME TypeOK, NEW t \in Server,
           commitIndex'[t] >= commitIndex[t], commitIndex'[t] \in Nat,
           applier'[t].queue = applier[t].queue, lastApplied'[t] = lastApplied[t]
    PROVE  MayApply(t) => MayApply(t)'
BY CommitIsNat DEF MayApply

LEMMA VoteMoves ==
    ASSUME TypeOK, NEW p \in Server, NEW m, NEW granted, RequestVote(p, m, granted),
           NEW t \in Server
    PROVE  Moves(t)
<1>1. /\ proc' = proc /\ logs' = logs /\ commitIndex' = commitIndex /\ lastApplied' = lastApplied
      /\ applier' = applier
  BY DEF RequestVote
<1>4. Unsaved(t) /\ (KeepsUp(t) => KeepsUp(t)')
  <2>1. Unsaved(t)
    BY DEF RequestVote, persisterVars, Unsaved
  <2> QED BY <1>1, <2>1, KeepsUpStays
<1>2. state'[t] = state[t] \/ state'[t] = FOLLOWER
  BY DEF RequestVote, TypeOK, RaftType
<1>3. commitIndex[t] \in Nat
  BY CommitIsNat
<1> QED BY <1>1, <1>2, <1>3, <1>4 DEF Moves, Lives, MayApply

LEMMA AppendMoves ==
    ASSUME TypeOK, TypeOK', NEW p \in Server, NEW m \in AppendRequest, NEW success,
           Up(p), AppendEntries(p, m, success), NEW t \in Server
    PROVE  Moves(t)
<1>1. CASE UNCHANGED <<raftVars, persisterVars, applier>>
  <2>1. Unmoved(t)
    BY <1>1 DEF Unmoved, Unsaved, raftVars, persisterVars, AppendEntries
  <2> QED BY <2>1, UnmovedMoves
<1>2. CASE AcceptsAppend(p, m) /\ ~UNCHANGED <<raftVars, persisterVars, applier>>
  <2>1. /\ proc' = proc /\ lastApplied' = lastApplied
        /\ state' = [state EXCEPT ![p] =
              IF m.term > currentTerm[p] \/ @ = CANDIDATE THEN FOLLOWER ELSE @]
        /\ IF ~success THEN UNCHANGED <<logs, commitIndex, persisterVars, applier>>
           ELSE \E mem \in MemoryFor(ScanUndefined(KeptLog(p, m), m.entries)),
                   k \in 1..Len(m.entries) + 1 :
                LET log == MergeFrom(KeptLog(p, m), m.entries, k)
                IN /\ logs' = [logs EXCEPT ![p] = log]
                   /\ UpdateCommitIndex(p, log, Smaller(m.leaderCommit, LastIndex(log)))
    BY <1>2 DEF AppendEntries
  <2>2. commitIndex[t] \in Nat /\ commitIndex'[t] \in Nat
    BY DEF TypeOK, RaftType
  <2>3. /\ commitIndex'[t] >= commitIndex[t] /\ applier'[t].queue = applier[t].queue
        /\ t # p => logs'[t] = logs[t]
        /\ KeepsUp(t) => KeepsUp(t)'
        /\ Up(t) \/ Unsaved(t)
    <3>1. CASE ~success
      <4>1. Unsaved(t)
        BY <2>1, <3>1 DEF Unsaved, persisterVars
      <4>2. KeepsUp(t) => KeepsUp(t)'
        BY <2>1, <4>1, KeepsUpStays
      <4> QED BY <2>1, <2>2, <3>1, <4>1, <4>2
    <3>2. CASE success
      <4>1. PICK k \in 1..Len(m.entries) + 1 :
                LET log == MergeFrom(KeptLog(p, m), m.entries, k)
                IN /\ logs' = [logs EXCEPT ![p] = log]
                   /\ UpdateCommitIndex(p, log, Smaller(m.leaderCommit, LastIndex(log)))
        BY <2>1, <3>2
      <4> DEFINE log == MergeFrom(KeptLog(p, m), m.entries, k)
      <4>2. logs' = [logs EXCEPT ![p] = log]
            /\ UpdateCommitIndex(p, log, Smaller(m.leaderCommit, LastIndex(log)))
        BY <4>1
      <4>3. log \in Seq(Entry)
        <5>1. logs[p] \in Seq(Entry) /\ m.prevLogIndex \in Nat /\ m.entries \in Seq(Entry)
          BY CommitIsNat DEF AppendRequest
        <5>2. KeptLog(p, m) \in Seq(Entry)
          BY <5>1, AfterPrevCheckType DEF KeptLog
        <5> QED BY <5>1, <5>2, MergeFromType
      <4> HIDE DEF log
      <4>4. Smaller(m.leaderCommit, LastIndex(log)) \in Nat
        BY <4>3, LastIndexType DEF Smaller, AppendRequest
      <4>5. commitIndex'[t] >= commitIndex[t] /\ applier'[t].queue = applier[t].queue
        BY <4>2, <4>4, UpdateMoves
      <4>6. (KeepsUp(t) => KeepsUp(t)') /\ (t = p \/ Unsaved(t))
        BY <2>1, <4>2, <4>3, <4>4, UpdateSaves
      <4>7. t # p => logs'[t] = logs[t]
        BY <4>2 DEF TypeOK, RaftType
      <4> QED BY <4>5, <4>6, <4>7
    <3> QED BY <3>1, <3>2
  <2>4. state'[t] = state[t] \/ state'[t] = FOLLOWER
    BY <2>1 DEF TypeOK, RaftType
  <2>5. t = p => ~(state[t] = LEADER /\ state'[t] = LEADER)
    BY <1>2, <2>1 DEF AcceptsAppend, TypeOK, RaftType, LEADER, FOLLOWER
  <2>6. MayApply(t) => MayApply(t)'
    BY <2>1, <2>2, <2>3, MayApplyStays
  <2> QED BY <2>1, <2>3, <2>4, <2>5, <2>6 DEF Moves, Lives
<1> QED BY <1>1, <1>2 DEF AppendEntries


LEMMA SameMoves ==
    ASSUME TypeOK, NEW t \in Server, UNCHANGED <<proc, raftVars, persisterVars, applier>>
    PROVE  Moves(t)
<1>1. Unmoved(t)
  BY DEF Unmoved, Unsaved, raftVars, persisterVars
<1> QED BY <1>1, UnmovedMoves

LEMMA SaveMoves ==
    ASSUME TypeOK, NEW s \in Server, KilledInSave(s), NEW t \in Server
    PROVE  Moves(t)
BY StopMoves DEF KilledInSave

LEMMA ServerMovesOn ==
    ASSUME TypeOK, TypeOK', NEW s \in Server, NEW t \in Server,
           \/ Kill(s) \/ Shutdown(s) \/ Restart(s)
           \/ ElectionTimeout(s) \/ StartElection(s) \/ StartElectionKilled(s)
           \/ CountVotes(s)
           \/ SendHeartBeats(s) \/ SendHeartBeatsAborts(s)
    PROVE  Moves(t)
<1>1. CASE Kill(s) \/ Shutdown(s)
  <2>1. t = s \/ chunks'[t] = chunks[t]
    BY <1>1 DEF Kill, Shutdown, TypeOK, PersisterType
  <2> QED BY <1>1, <2>1, StopMoves DEF Kill, Shutdown
<1>2. CASE Restart(s)
  <2>1. UNCHANGED <<state, commitIndex, lastApplied, applier, chunks, logBuf>>
    BY <1>2 DEF Restart, threadVars
  <2>2. CASE t = s
    <3>1. proc'[t] = "up" => lastInBufLogId'[t] = LastIndex(chunks[t])
      BY <1>2, <2>2 DEF Restart, TypeOK, RaftType, PersisterType
    <3>2. Starts(t)
      BY <1>2, <2>1, <2>2, <3>1 DEF Restart, Starts
    <3> QED BY <3>2 DEF Moves
  <2>3. CASE t # s
    <3>1. proc'[t] = proc[t] /\ logs'[t] = logs[t]
      BY <1>2, <2>3, ZenonT(30) DEF Restart, TypeOK, RaftType
    <3>3. lastInBufLogId'[t] = lastInBufLogId[t]
      BY <1>2, <2>3, ZenonT(30) DEF Restart, TypeOK, PersisterType
    <3>2. Unmoved(t)
      BY <2>1, <3>1, <3>3 DEF Unmoved, Unsaved
    <3> QED BY <3>2, UnmovedMoves
  <2> QED BY <2>2, <2>3
<1>3. CASE ElectionTimeout(s)
  <2>1. UNCHANGED <<proc, logs, commitIndex, lastApplied, applier, persisterVars>>
    BY <1>3 DEF ElectionTimeout, threadVars
  <2>2. IF t = s THEN Up(t) /\ state'[t] # LEADER ELSE state'[t] = state[t]
    BY <1>3 DEF ElectionTimeout, TypeOK, RaftType, CANDIDATE, LEADER
  <2>3. commitIndex[t] \in Nat
    BY CommitIsNat
  <2>4. Unsaved(t) /\ (KeepsUp(t) => KeepsUp(t)')
    BY <2>1, KeepsUpStays DEF persisterVars, Unsaved
  <2> QED BY <2>1, <2>2, <2>3, <2>4 DEF Moves, Lives, MayApply
<1>4. CASE StartElection(s)
  <2>1. Unmoved(t)
    BY <1>4 DEF StartElection, Unmoved, Unsaved, persisterVars
  <2> QED BY <2>1, UnmovedMoves
<1>5. CASE StartElectionKilled(s)
  BY <1>5, SaveMoves DEF StartElectionKilled
<1>6. CASE CountVotes(s)
  <2>1. UNCHANGED <<proc, logs, commitIndex, lastApplied, applier, persisterVars>>
    BY <1>6 DEF CountVotes
  <2>2. Up(t) \/ state'[t] = state[t]
    BY <1>6 DEF CountVotes, TypeOK, RaftType
  <2>3. commitIndex[t] \in Nat
    BY CommitIsNat
  <2>4. Unsaved(t) /\ (KeepsUp(t) => KeepsUp(t)')
    BY <2>1, KeepsUpStays DEF persisterVars, Unsaved
  <2> QED BY <2>1, <2>2, <2>3, <2>4 DEF Moves, Lives, MayApply
<1>7. CASE SendHeartBeats(s)
  BY <1>7, SameMoves DEF SendHeartBeats, threadVars
<1>8. CASE SendHeartBeatsAborts(s)
  BY <1>8, AbortMoves DEF SendHeartBeatsAborts
<1> QED BY <1>1, <1>2, <1>3, <1>4, <1>5, <1>6, <1>7, <1>8

LEMMA ApplierMoves ==
    ASSUME TypeOK, TypeOK', NEW s \in Server, NEW t \in Server,
           GatherForApply(s) \/ GatherForApplyAborts(s) \/ Applied(s)
    PROVE  Moves(t)
<1>0. commitIndex[t] \in Nat /\ lastApplied[t] \in Nat /\ Len(applier[t].queue) \in Nat
  BY CommitIsNat
<1>1. CASE GatherForApply(s)
  <2>1. PICK mem \in ApplyMemory(s) :
          LET queue == EntriesOf(logs[s], lastApplied[s] + 1, ApplyLimit(s), mem)
          IN /\ \A k \in DOMAIN queue : queue[k] # NoEntry
             /\ applier' = [applier EXCEPT ![s] =
                   IF queue = <<>> THEN IdleApplier ELSE [pc |-> "apply", queue |-> queue]]
    BY <1>1 DEF GatherForApply
  <2>2. PICK queue : queue = EntriesOf(logs[s], lastApplied[s] + 1, ApplyLimit(s), mem)
    OBVIOUS
  <2>3. /\ \A k \in DOMAIN queue : queue[k] # NoEntry
        /\ applier' = [applier EXCEPT ![s] =
              IF queue = <<>> THEN IdleApplier ELSE [pc |-> "apply", queue |-> queue]]
    BY <2>1, <2>2
  <2>4. mem \in Memory
    BY <2>1, MemoryAssumption DEF ApplyMemory, MemoryFor
  <2>5. /\ logs[s] \in Seq(Entry) /\ lastApplied[s] \in Nat /\ lastApplied[s] + 1 \in Int
        /\ ApplyLimit(s) \in Int /\ ApplyLimit(s) <= commitIndex[s] /\ commitIndex[s] \in Nat
    <3>1. logs[s] \in Seq(Entry) /\ lastApplied[s] \in Nat /\ commitIndex[s] \in Nat
      BY CommitIsNat
    <3>2. \A a, b \in Nat : Smaller(a + 20, b) \in Int /\ Smaller(a + 20, b) <= b /\ a + 1 \in Int
      BY DEF Smaller
    <3> QED BY <3>1, <3>2 DEF ApplyLimit, MaxLogsPerApply
  <2>6. /\ queue \in Seq(Entry)
        /\ Len(queue) = IF ApplyLimit(s) >= lastApplied[s] + 1
                        THEN ApplyLimit(s) - (lastApplied[s] + 1) + 1 ELSE 0
    BY <2>2, <2>3, <2>4, <2>5, EntriesOfType
  <2>7. MayApply(s) => lastApplied[s] + Len(queue) <= commitIndex[s]
    <3>1. MayApply(s) => lastApplied[s] <= commitIndex[s]
      <4>1. Len(applier[s].queue) \in Nat
        BY CommitIsNat
      <4> QED BY <2>5, <4>1 DEF MayApply
    <3>2. \A a, c \in Nat, l \in Int :
             a <= c /\ l <= c => a + (IF l >= a + 1 THEN l - (a + 1) + 1 ELSE 0) <= c
      OBVIOUS
    <3>3. lastApplied[s] <= commitIndex[s] => lastApplied[s] + Len(queue) <= commitIndex[s]
      BY <2>5, <2>6, <3>2, Zenon
    <3> QED BY <3>1, <3>3
  <2>8. IF t = s THEN applier'[t].queue = queue ELSE applier'[t] = applier[t]
    BY <2>3 DEF IdleApplier, TypeOK, ApplierType
  <2>9. UNCHANGED <<proc, state, logs, commitIndex, lastApplied, persisterVars>>
    BY <1>1 DEF GatherForApply, raftVars
  <2>10. MayApply(t) => MayApply(t)'
    BY <2>7, <2>8, <2>9 DEF MayApply
  <2>11. Unsaved(t) /\ (KeepsUp(t) => KeepsUp(t)')
    BY <2>9, KeepsUpStays DEF persisterVars, Unsaved
  <2> QED BY <1>0, <2>9, <2>10, <2>11 DEF Moves, Lives
<1>2. CASE GatherForApplyAborts(s)
  BY <1>2, AbortMoves DEF GatherForApplyAborts
<1>3. CASE Applied(s)
  <2>1. UNCHANGED <<proc, state, logs, commitIndex, persisterVars>>
    BY <1>3 DEF Applied
  <2>2. IF t = s THEN /\ lastApplied'[t] = lastApplied[t] + Len(applier[t].queue)
                      /\ applier'[t].queue = <<>>
        ELSE lastApplied'[t] = lastApplied[t] /\ applier'[t] = applier[t]
    BY <1>3 DEF Applied, TypeOK, RaftType, ApplierType
  <2>3. MayApply(t) => MayApply(t)'
    BY <1>0, <2>1, <2>2 DEF MayApply
  <2>4. Unsaved(t) /\ (KeepsUp(t) => KeepsUp(t)')
    BY <2>1, KeepsUpStays DEF persisterVars, Unsaved
  <2> QED BY <1>0, <2>1, <2>3, <2>4 DEF Moves, Lives
<1> QED BY <1>1, <1>2, <1>3

LEMMA StartMoves ==
    ASSUME TypeOK, NEW s \in Server, NEW c \in Command, Start(s, c), NEW t \in Server
    PROVE  Moves(t)
<1>1. UNCHANGED <<proc, state, commitIndex, lastApplied, applier, persisterVars>>
  BY DEF Start
<1>2. PICK e : /\ e = [index |-> LastIndex(logs[s]) + 1, term |-> currentTerm[s], command |-> c]
               /\ logs' = [logs EXCEPT ![s] = Append(@, e)]
  BY DEF Start
<1>3. e \in Entry
  <2>1. LastIndex(logs[s]) \in Nat /\ currentTerm[s] \in Term
    BY CommitIsNat, LastIndexType DEF TypeOK, RaftType
  <2> QED BY <1>2, <2>1 DEF Entry
<1>4. logs'[t] = logs[t] \/ logs'[t] = Append(logs[t], e)
  BY <1>2 DEF TypeOK, RaftType
<1>5. commitIndex[t] \in Nat
  BY CommitIsNat
<1>6. Unsaved(t) /\ (KeepsUp(t) => KeepsUp(t)')
  BY <1>1, KeepsUpStays DEF persisterVars, Unsaved
<1> QED BY <1>1, <1>3, <1>4, <1>5, <1>6 DEF Moves, Lives, MayApply

LEMMA PeerMovesOn ==
    ASSUME TypeOK, TypeOK', NEW s \in Server, NEW p \in Peers(s), NEW t \in Server,
           \/ RequestVoteCall(s, p) \/ RequestVoteKilled(s, p) \/ RequestVoteFails(s, p)
           \/ ReplicatorCheck(s, p) \/ ReplicatorSend(s, p) \/ ReplicatorSendAborts(s, p)
           \/ ReplicateCall(s, p) \/ ReplicateCallAborts(s, p) \/ ReplicateFails(s, p)
           \/ HandleAccepted(s, p) \/ HandleAcceptedAborts(s, p) \/ HandleRejected(s, p)
    PROVE  Moves(t)
<1>0. p \in Server
  BY DEF Peers
<1>1. CASE RequestVoteCall(s, p)
  BY <1>0, <1>1, VoteMoves DEF RequestVoteCall
<1>2. CASE RequestVoteKilled(s, p)
  BY <1>0, <1>2, SaveMoves DEF RequestVoteKilled
<1>3. CASE RequestVoteFails(s, p) \/ ReplicatorCheck(s, p) \/ ReplicatorSend(s, p)
           \/ ReplicateFails(s, p)
  BY <1>3, SameMoves DEF RequestVoteFails, ReplicatorCheck, ReplicatorSend, ReplicateFails
<1>4. CASE ReplicatorSendAborts(s, p)
  BY <1>4, AbortMoves DEF ReplicatorSendAborts
<1>5. CASE ReplicateCall(s, p)
  <2>1. repl[s][p].req \in AppendRequest
    BY <1>0, <1>5 DEF ReplicateCall, TypeOK, ReplicatorType
  <2> QED BY <1>0, <1>5, <2>1, AppendMoves DEF ReplicateCall
<1>6. CASE ReplicateCallAborts(s, p)
  <2>1. PICK why \in {"two leaders", "unexpected log"} : Stop(p, why)
    BY <1>6 DEF ReplicateCallAborts
  <2>2. chunks' = chunks
    BY <1>6 DEF ReplicateCallAborts
  <2> QED BY <1>0, <2>1, <2>2, StopMoves
<1>7. CASE HandleAccepted(s, p)
  <2>1. UNCHANGED <<proc, state, logs, lastApplied>>
    BY <1>7 DEF HandleAccepted
  <2>2. /\ commitIndex'[t] >= commitIndex[t] /\ applier'[t].queue = applier[t].queue
        /\ KeepsUp(t) => KeepsUp(t)'
        /\ Up(t) \/ Unsaved(t)
    <3>1. CASE UNCHANGED <<commitIndex, applier, persisterVars>>
      <4>1. Unsaved(t)
        BY <3>1 DEF Unsaved, persisterVars
      <4>2. KeepsUp(t) => KeepsUp(t)'
        BY <2>1, <4>1, KeepsUpStays
      <4> QED BY <3>1, <4>1, <4>2, CommitIsNat
    <3>2. CASE \E agree \in Nat : UpdateCommitIndex(s, logs[s], agree)
      <4>1. PICK agree \in Nat : UpdateCommitIndex(s, logs[s], agree)
        BY <3>2
      <4>2. logs[s] \in Seq(Entry)
        BY CommitIsNat
      <4>3. (KeepsUp(t) => KeepsUp(t)') /\ (t = s \/ Unsaved(t))
        BY <2>1, <4>1, <4>2, UpdateSaves
      <4>4. Up(s)
        BY <1>7 DEF HandleAccepted
      <4> QED BY <4>1, <4>3, <4>4, UpdateMoves
    <3>3. \/ UNCHANGED <<commitIndex, applier, persisterVars>>
          \/ \E agree \in Nat : UpdateCommitIndex(s, logs[s], agree)
      <4>1. CASE repl[s][p].req.entries = <<>>
        BY <1>7, <4>1 DEF HandleAccepted
      <4>2. CASE repl[s][p].req.entries # <<>>
        <5> DEFINE match == [matchIndex[s] EXCEPT ![p] = Matched(s, p)]
                   held == Held(s, match)
        <5>1. PICK agree \in {held[q] : q \in Server} :
                 \/ UpdateCommitIndex(s, logs[s], agree)
                 \/ UNCHANGED <<commitIndex, applier, persisterVars>>
          BY <1>7, <4>2 DEF HandleAccepted
        <5>2. held \in [Server -> Nat]
          <6>1. repl[s][p].req \in AppendRequest
            BY <1>0, <1>7 DEF HandleAccepted, TypeOK, ReplicatorType
          <6>2. repl[s][p].req.prevLogIndex \in Nat /\ Len(repl[s][p].req.entries) \in Nat
            BY <6>1, SMTT(30) DEF AppendRequest
          <6>3. Matched(s, p) \in Nat
            BY <6>2, SMTT(30) DEF Matched
          <6>4. match \in [Server -> Nat]
            BY <6>3 DEF TypeOK, RaftType
          <6> HIDE DEF match
          <6> QED BY <6>4, HeldType
        <5> HIDE DEF held
        <5> QED BY <5>1, <5>2
      <4> QED BY <4>1, <4>2
    <3> QED BY <3>1, <3>2, <3>3
  <2>3. commitIndex'[t] \in Nat /\ lastApplied'[t] = lastApplied[t]
    BY <2>1 DEF TypeOK, RaftType
  <2>4. MayApply(t) => MayApply(t)'
    BY <2>2, <2>3, MayApplyStays
  <2> QED BY <2>1, <2>2, <2>4 DEF Moves, Lives
<1>8. CASE HandleAcceptedAborts(s, p)
  BY <1>8, AbortMoves DEF HandleAcceptedAborts
<1>9. CASE HandleRejected(s, p)
  <2>1. Unmoved(t)
    BY <1>9 DEF HandleRejected, Unmoved, Unsaved, persisterVars
  <2> QED BY <2>1, UnmovedMoves
<1> QED BY <1>1, <1>2, <1>3, <1>4, <1>5, <1>6, <1>7, <1>8, <1>9

LEMMA LateMovesOn ==
    ASSUME TypeOK, TypeOK', NEW m \in net, NEW t \in Server,
           RequestVoteLate(m) \/ AppendEntriesLate(m) \/ AppendEntriesLateAborts(m)
    PROVE  Moves(t)
<1>0. m \in VoteRequest \cup AppendRequest
  BY DEF TypeOK, HistoryType
<1>1. m.to \in Server
  BY <1>0 DEF VoteRequest, AppendRequest
<1>2. CASE RequestVoteLate(m)
  BY <1>1, <1>2, VoteMoves DEF RequestVoteLate
<1>3. CASE AppendEntriesLate(m)
  <2>1. m \in AppendRequest
    BY <1>0, <1>3 DEF AppendEntriesLate, VoteRequest, AppendRequest
  <2> QED BY <1>1, <1>3, <2>1, AppendMoves DEF AppendEntriesLate
<1>4. CASE AppendEntriesLateAborts(m)
  <2>1. PICK why \in {"two leaders", "unexpected log"} : Abort(m.to, why)
    BY <1>4 DEF AppendEntriesLateAborts
  <2> QED BY <1>1, <2>1, AbortMoves
<1> QED BY <1>2, <1>3, <1>4

LEMMA NextMoves ==
    ASSUME TypeOK, TypeOK', [Next]_vars, NEW t \in Server
    PROVE  Moves(t)
<1>1. ASSUME NEW s \in Server,
             \/ Kill(s) \/ Shutdown(s) \/ Restart(s)
             \/ ElectionTimeout(s) \/ StartElection(s) \/ StartElectionKilled(s)
             \/ CountVotes(s)
             \/ SendHeartBeats(s) \/ SendHeartBeatsAborts(s)
             \/ GatherForApply(s) \/ GatherForApplyAborts(s) \/ Applied(s)
      PROVE  Moves(t)
  BY <1>1, ServerMovesOn, ApplierMoves
<1>2. ASSUME NEW s \in Server, NEW c \in Command, Start(s, c)
      PROVE  Moves(t)
  BY <1>2, StartMoves
<1>3. ASSUME NEW s \in Server, NEW p \in Peers(s),
             \/ RequestVoteCall(s, p) \/ RequestVoteKilled(s, p) \/ RequestVoteFails(s, p)
             \/ ReplicatorCheck(s, p) \/ ReplicatorSend(s, p) \/ ReplicatorSendAborts(s, p)
             \/ ReplicateCall(s, p) \/ ReplicateCallAborts(s, p) \/ ReplicateFails(s, p)
             \/ HandleAccepted(s, p) \/ HandleAcceptedAborts(s, p) \/ HandleRejected(s, p)
      PROVE  Moves(t)
  BY <1>3, PeerMovesOn
<1>4. ASSUME NEW m \in net,
             RequestVoteLate(m) \/ AppendEntriesLate(m) \/ AppendEntriesLateAborts(m)
      PROVE  Moves(t)
  BY <1>4, LateMovesOn
<1>5. CASE UNCHANGED vars
  BY <1>5, SameMoves DEF vars, raftVars, threadVars
<1> QED BY <1>1, <1>2, <1>3, <1>4, <1>5 DEF Next

-----------------------------------------------------------------------------
(***************************************************************************)
(* Of a process that has ended no state is left but its files.             *)
(***************************************************************************)
Gone(t) == ~Up(t) => state[t] = FOLLOWER /\ commitIndex[t] = 0 /\ logBuf[t] = <<>>

AppliedInv ==
    /\ TypeOK
    /\ \A t \in Server : Gone(t)
    /\ \A t \in Server : MayApply(t)
    /\ \A t \in Server : KeepsUp(t)

(* A process that starts is in step with the files it starts from.         *)
LEMMA StartsInStep ==
    ASSUME TypeOK, NEW t \in Server, Starts(t), Gone(t)
    PROVE  KeepsUp(t)'
<1> SUFFICES ASSUME proc'[t] = "up"
             PROVE  InStep(Saved(t)', lastInBufLogId'[t], commitIndex'[t])
  BY DEF KeepsUp, Up
<1>1. chunks[t] \in Seq(Entry)
  BY DEF TypeOK, PersisterType
<1>2. /\ chunks'[t] = chunks[t] /\ logBuf'[t] = <<>> /\ commitIndex'[t] = 0
      /\ lastInBufLogId'[t] = LastIndex(chunks[t])
  BY DEF Starts, Gone
<1>3. Saved(t)' = chunks[t]
  BY <1>1, <1>2 DEF Saved
<1>4. HasNoHole(chunks[t]) => LastIndex(chunks[t]) = Len(chunks[t])
  BY <1>1 DEF HasNoHole, LastIndex, SnapshotIndex
<1> QED BY <1>1, <1>2, <1>3, <1>4 DEF InStep

LEMMA AppliedInvariant == Spec => []AppliedInv
<1>1. Init => AppliedInv
  <2> SUFFICES ASSUME Init PROVE AppliedInv
    OBVIOUS
  <2>1. TypeOK
    BY TypeInit
  <2>2. \A t \in Server : Gone(t)
    BY DEF Init, Gone, Up
  <2>3. \A t \in Server : MayApply(t)
    <3> SUFFICES ASSUME NEW t \in Server PROVE MayApply(t)
      OBVIOUS
    <3>1. lastApplied[t] = 0 /\ commitIndex[t] = 0 /\ applier[t].queue = <<>>
      BY DEF Init, IdleApplier
    <3> QED BY <3>1 DEF MayApply
  <2>4. \A t \in Server : KeepsUp(t)
    <3> SUFFICES ASSUME NEW t \in Server PROVE KeepsUp(t)
      OBVIOUS
    <3>1. chunks[t] = <<>> /\ logBuf[t] = <<>> /\ lastInBufLogId[t] = 0 /\ commitIndex[t] = 0
      BY DEF Init
    <3>2. Saved(t) = <<>>
      BY <3>1 DEF Saved
    <3> QED BY <3>1, <3>2 DEF KeepsUp, InStep
  <2> QED BY <2>1, <2>2, <2>3, <2>4 DEF AppliedInv
<1>2. AppliedInv /\ [Next]_vars => AppliedInv'
  <2> SUFFICES ASSUME AppliedInv, [Next]_vars PROVE AppliedInv'
    OBVIOUS
  <2>1. TypeOK /\ TypeOK'
    BY TypeStep DEF AppliedInv
  <2>2. ASSUME NEW t \in Server PROVE Gone(t)' /\ MayApply(t)' /\ KeepsUp(t)'
    <3>1. Moves(t) /\ Gone(t) /\ MayApply(t) /\ KeepsUp(t)
      BY <2>1, NextMoves DEF AppliedInv
    <3>2. CASE Ends(t)
      <4>1. Gone(t)' /\ MayApply(t)'
        BY <3>2 DEF Ends, IdleApplier, MayApply, Gone
      <4>2. KeepsUp(t)'
        BY <3>2 DEF Ends, KeepsUp, Up
      <4> QED BY <4>1, <4>2
    <3>3. CASE Starts(t)
      <4>1. KeepsUp(t)'
        BY <2>1, <3>1, <3>3, StartsInStep
      <4> QED BY <3>1, <3>3, <4>1 DEF Starts, MayApply, Gone
    <3>4. CASE Lives(t)
      BY <3>1, <3>4 DEF Lives, Up, Gone, Unsaved
    <3> QED BY <3>1, <3>2, <3>3, <3>4 DEF Moves
  <2> QED BY <2>1, <2>2 DEF AppliedInv
<1> QED BY <1>1, <1>2, PTL DEF Spec

(* What the applier thread has handed, and is handing, to the state        *)
(* machine was committed before, whatever happens to the log meanwhile.    *)
THEOREM AppliesCommitted == Spec => []AppliesOnlyCommitted
<1>1. AppliedInv => AppliesOnlyCommitted
  BY DEF AppliedInv, AppliesOnlyCommitted, MayApply
<1> QED BY <1>1, AppliedInvariant, PTL

(* Whatever is killed, lost or saved in part, what a state machine has     *)
(* been handed was given to the Persister before: the commit index that    *)
(* releases an entry to the applier has put it in the buffer or the files. *)
THEOREM StateMachinesAreBehind == Spec => []AppliedIsSaved
<1>1. AppliedInv => AppliedIsSaved
  <2> SUFFICES ASSUME AppliedInv, NEW s \in Server, Up(s), HasNoHole(Saved(s))
               PROVE  lastApplied[s] + Len(applier[s].queue) <= Len(Saved(s))
    BY DEF AppliedIsSaved
  <2>1. lastApplied[s] + Len(applier[s].queue) <= commitIndex[s]
    BY DEF AppliedInv, MayApply
  <2>2. commitIndex[s] <= Len(Saved(s))
    BY DEF AppliedInv, KeepsUp, InStep
  <2>3. /\ lastApplied[s] \in Nat /\ commitIndex[s] \in Nat /\ Len(applier[s].queue) \in Nat
        /\ Saved(s) \in Seq(Entry)
    BY CommitIsNat DEF AppliedInv, TypeOK, PersisterType, Saved
  <2>4. Len(Saved(s)) \in Nat
    BY <2>3
  <2> QED BY <2>1, <2>2, <2>3, <2>4
<1> QED BY <1>1, AppliedInvariant, PTL

(* No call of another leader, of a former one or of its own earlier reign  *)
(* takes an entry from a server that is leader.                            *)
THEOREM LeadersOnlyAppend == Spec => LeaderAppendOnly
<1>1. ASSUME AppliedInv, AppliedInv', [Next]_vars, NEW s \in Server,
             state[s] = LEADER, state'[s] = LEADER
      PROVE  /\ Len(logs'[s]) >= Len(logs[s])
             /\ SubSeq(logs'[s], 1, Len(logs[s])) = logs[s]
  <2>1. Moves(s) /\ logs[s] \in Seq(Entry)
    BY <1>1, NextMoves, CommitIsNat DEF AppliedInv
  <2>2. Up(s) /\ LEADER # FOLLOWER
    BY <1>1 DEF AppliedInv, Gone, LEADER, FOLLOWER
  <2>3. logs'[s] = logs[s] \/ \E e \in Entry : logs'[s] = Append(logs[s], e)
    BY <1>1, <2>1, <2>2 DEF Moves, Ends, Starts, Lives
  <2> QED BY <2>1, <2>3
<1>2. AppliedInv /\ AppliedInv' /\ [Next]_vars =>
         [\A s \in Server :
             state[s] = LEADER /\ state'[s] = LEADER =>
                /\ Len(logs'[s]) >= Len(logs[s])
                /\ SubSeq(logs'[s], 1, Len(logs[s])) = logs[s]]_vars
  BY <1>1
<1>3. Spec => []AppliedInv
  BY AppliedInvariant
<1> QED BY <1>2, <1>3, PTL DEF Spec, LeaderAppendOnly

-----------------------------------------------------------------------------
(***************************************************************************)
(* Commits by a majority.                                                  *)
(***************************************************************************)
LEMMA StopLowersCommit ==
    ASSUME TypeOK, NEW s \in Server, NEW why, Stop(s, why), NEW t \in Server
    PROVE  ~(commitIndex'[t] > commitIndex[t])
<1>1. commitIndex'[t] = commitIndex[t] \/ commitIndex'[t] = 0
  BY DEF Stop, TypeOK, RaftType
<1>2. commitIndex[t] \in Nat
  BY CommitIsNat
<1> QED BY <1>1, <1>2

LEMMA CommitGrowsIn ==
    ASSUME TypeOK, TypeOK', [Next]_vars, NEW s \in Server, NEW p \in Peers(s),
           repl[s][p].pc = "accepted", repl'[s][p].pc = "check",
           commitIndex'[s] > commitIndex[s]
    PROVE  HandleAccepted(s, p)
<1>0. commitIndex'[s] # commitIndex[s] /\ commitIndex' # commitIndex /\ p \in Server
  BY CommitIsNat DEF Peers
<1>1. ASSUME NEW t \in Server,
             \/ Kill(t) \/ Shutdown(t) \/ Restart(t)
             \/ ElectionTimeout(t) \/ StartElection(t) \/ StartElectionKilled(t)
             \/ CountVotes(t)
             \/ SendHeartBeats(t) \/ SendHeartBeatsAborts(t)
             \/ GatherForApply(t) \/ GatherForApplyAborts(t) \/ Applied(t)
      PROVE  FALSE
  <2>1. ~(\E why : Stop(t, why))
    BY StopLowersCommit
  <2>2. CASE Kill(t) \/ Shutdown(t) \/ StartElectionKilled(t) \/ SendHeartBeatsAborts(t)
             \/ GatherForApplyAborts(t)
    BY <2>1, <2>2 DEF Kill, Shutdown, StartElectionKilled, KilledInSave, SendHeartBeatsAborts,
                      GatherForApplyAborts, Abort
  <2>3. CASE Restart(t) \/ ElectionTimeout(t) \/ StartElection(t) \/ CountVotes(t)
             \/ SendHeartBeats(t) \/ GatherForApply(t) \/ Applied(t)
    BY <1>0, <2>3 DEF Restart, ElectionTimeout, StartElection, CountVotes, SendHeartBeats,
                      GatherForApply, Applied, raftVars
  <2> QED BY <1>1, <2>2, <2>3
<1>2. ASSUME NEW t \in Server, NEW c \in Command, Start(t, c)
      PROVE  FALSE
  BY <1>0, <1>2 DEF Start
<1>3. ASSUME NEW t \in Server, NEW q \in Peers(t),
             \/ RequestVoteCall(t, q) \/ RequestVoteKilled(t, q) \/ RequestVoteFails(t, q)
             \/ ReplicatorCheck(t, q) \/ ReplicatorSend(t, q) \/ ReplicatorSendAborts(t, q)
             \/ ReplicateCall(t, q) \/ ReplicateCallAborts(t, q) \/ ReplicateFails(t, q)
             \/ HandleAccepted(t, q) \/ HandleAcceptedAborts(t, q) \/ HandleRejected(t, q)
      PROVE  HandleAccepted(s, p)
  <2>0. q \in Server
    BY DEF Peers
  <2>1. \A x \in Server : ~(\E why : Stop(x, why))
    BY StopLowersCommit
  <2>2. CASE RequestVoteKilled(t, q) \/ ReplicatorSendAborts(t, q) \/ ReplicateCallAborts(t, q)
             \/ HandleAcceptedAborts(t, q)
    BY <2>0, <2>1, <2>2 DEF RequestVoteKilled, KilledInSave, ReplicatorSendAborts,
                            ReplicateCallAborts, HandleAcceptedAborts, Abort
  <2>3. CASE RequestVoteCall(t, q) \/ RequestVoteFails(t, q) \/ ReplicatorCheck(t, q)
             \/ ReplicatorSend(t, q) \/ ReplicateFails(t, q) \/ HandleRejected(t, q)
    BY <1>0, <2>3 DEF RequestVoteCall, RequestVote, RequestVoteFails, ReplicatorCheck,
                      ReplicatorSend, ReplicateFails, HandleRejected, raftVars
  <2>4. CASE ReplicateCall(t, q)
    <3>1. PICK success \in BOOLEAN :
             repl' = [repl EXCEPT ![t][q].pc = IF success THEN "accepted" ELSE "rejected"]
      BY <2>4 DEF ReplicateCall
    <3>2. repl'[s][p].pc \in {repl[s][p].pc, "accepted", "rejected"}
      BY <1>0, <2>0, <3>1 DEF TypeOK, ReplicatorType
    <3> QED BY <3>2
  <2>5. CASE HandleAccepted(t, q)
    <3>1. t = s
      <4> SUFFICES ASSUME t # s PROVE FALSE
        OBVIOUS
      <4>1. \/ commitIndex' = commitIndex
            \/ \E agree, log : UpdateCommitIndex(t, log, agree)
        BY <2>5 DEF HandleAccepted
      <4>2. commitIndex'[s] = commitIndex[s]
        BY <4>1 DEF UpdateCommitIndex, TypeOK, RaftType
      <4> QED BY <1>0, <4>2
    <3>2. q = p
      BY <1>0, <2>0, <2>5, <3>1 DEF HandleAccepted, TypeOK, ReplicatorType
    <3> QED BY <2>5, <3>1, <3>2
  <2> QED BY <1>3, <2>2, <2>3, <2>4, <2>5
<1>4. ASSUME NEW m \in net,
             RequestVoteLate(m) \/ AppendEntriesLate(m) \/ AppendEntriesLateAborts(m)
      PROVE  FALSE
  <2>0. m.to \in Server
    BY DEF TypeOK, HistoryType, VoteRequest, AppendRequest
  <2>1. ~(\E why : Stop(m.to, why))
    BY <2>0, StopLowersCommit
  <2>2. CASE RequestVoteLate(m)
    BY <1>0, <2>2 DEF RequestVoteLate, RequestVote
  <2>3. CASE AppendEntriesLate(m)
    BY <2>3 DEF AppendEntriesLate
  <2>4. CASE AppendEntriesLateAborts(m)
    BY <2>1, <2>4 DEF AppendEntriesLateAborts, Abort
  <2> QED BY <1>4, <2>2, <2>3, <2>4
<1>5. CASE UNCHANGED vars
  BY <1>0, <1>5 DEF vars, raftVars
<1> QED BY <1>1, <1>2, <1>3, <1>4, <1>5 DEF Next

OddGroup == \E half \in Nat : Cardinality(Server) = 2 * half + 1

LEMMA AgreedByMajority ==
    ASSUME OddGroup, NEW held \in [Server -> Nat], NEW n \in Nat, IsAgreeIndex(n, held)
    PROVE  IsMajority(Cardinality({q \in Server : held[q] >= n}))
<1>1. PICK half \in Nat : Cardinality(Server) = 2 * half + 1
  BY DEF OddGroup
<1> QED BY <1>1, ServerAssumption, AgreeIndexMajority DEF IsMajority

LEMMA CommitIsAgreed ==
    ASSUME TypeOK, OddGroup, NEW s \in Server, NEW p \in Peers(s), HandleAccepted(s, p),
           commitIndex'[s] > commitIndex[s]
    PROVE  IsMajority(Cardinality({q \in Server :
              Held(s, matchIndex'[s])[q] >= commitIndex'[s]}))
<1> DEFINE match == [matchIndex[s] EXCEPT ![p] = Matched(s, p)]
<1>0. p \in Server /\ commitIndex[s] \in Nat
  BY CommitIsNat DEF Peers
<1>1. repl[s][p].req.entries # <<>>
  BY <1>0 DEF HandleAccepted
<1>2. /\ matchIndex' = [matchIndex EXCEPT ![s] = match]
      /\ \E agree \in {Held(s, match)[q] : q \in Server} :
            /\ IsAgreeIndex(agree, Held(s, match))
            /\ UpdateCommitIndex(s, logs[s], agree) \/ commitIndex' = commitIndex
  BY <1>1 DEF HandleAccepted
<1>3. match \in [Server -> Nat]
  <2>1. repl[s][p].req \in AppendRequest
    BY <1>0 DEF HandleAccepted, TypeOK, ReplicatorType
  <2>2. repl[s][p].req.prevLogIndex \in Nat /\ Len(repl[s][p].req.entries) \in Nat
    BY <2>1 DEF AppendRequest
  <2>3. Matched(s, p) \in Nat
    BY <2>2 DEF Matched
  <2> QED BY <2>3 DEF TypeOK, RaftType
<1>4. matchIndex'[s] = match
  BY <1>2 DEF TypeOK, RaftType
<1> HIDE DEF match
<1>5. PICK held : held = Held(s, match)
  OBVIOUS
<1>6. held \in [Server -> Nat]
  BY <1>3, <1>5, HeldType
<1>7. PICK agree \in {held[q] : q \in Server} :
         /\ IsAgreeIndex(agree, held)
         /\ UpdateCommitIndex(s, logs[s], agree) \/ commitIndex' = commitIndex
  BY <1>2, <1>5
<1>8. agree \in Nat /\ commitIndex'[s] = agree
  <2>1. agree \in Nat
    BY <1>6, <1>7
  <2>2. UpdateCommitIndex(s, logs[s], agree)
    BY <1>0, <1>7
  <2>3. commitIndex' = [commitIndex EXCEPT ![s] = agree] \/ commitIndex' = commitIndex
    BY <2>2 DEF UpdateCommitIndex
  <2>4. commitIndex \in [Server -> Nat]
    BY DEF TypeOK, RaftType
  <2>5. ~(commitIndex' = commitIndex)
    BY <1>0
  <2> QED BY <2>1, <2>3, <2>4, <2>5
<1>9. IsMajority(Cardinality({q \in Server : held[q] >= agree}))
  BY <1>6, <1>7, <1>8, AgreedByMajority
<1> QED BY <1>4, <1>5, <1>8, <1>9

(* In a group of an odd number of servers a leader commits an index only   *)
(* when a majority, itself included, is known to hold it.                  *)
THEOREM OddGroupsCommitWithMajority ==
    ASSUME OddGroup
    PROVE  Spec => CommitsWithMajority
<1>1. ASSUME TypeOK, TypeOK', [Next]_vars, NEW s \in Server, NEW p \in Peers(s),
             repl[s][p].pc = "accepted", repl'[s][p].pc = "check",
             commitIndex'[s] > commitIndex[s]
      PROVE  IsMajority(Cardinality({q \in Server :
                Held(s, matchIndex'[s])[q] >= commitIndex'[s]}))
  BY <1>1, CommitGrowsIn, CommitIsAgreed
<1>2. TypeOK /\ TypeOK' /\ [Next]_vars =>
         [\A s \in Server : \A p \in Peers(s) :
             /\ repl[s][p].pc = "accepted" /\ repl'[s][p].pc = "check"
             /\ commitIndex'[s] > commitIndex[s]
             => IsMajority(Cardinality({q \in Server :
                   Held(s, matchIndex'[s])[q] >= commitIndex'[s]}))]_vars
  BY <1>1
<1>3. Spec => []TypeOK
  BY TypeCorrect
<1> QED BY <1>2, <1>3, PTL DEF Spec, CommitsWithMajority

-----------------------------------------------------------------------------
(***************************************************************************)
(* Acknowledged entries.  In a log without holes an index is a position;   *)
(* what is shown of every position is shown of the least for which it      *)
(* would be false.                                                         *)
(***************************************************************************)
LEMMA IndexIsPosition ==
    ASSUME NEW log \in Seq(Entry), Contiguous(log)
    PROVE  \A k \in 1..Len(log) : log[k].index \in Nat /\ log[k].index = log[1].index + k - 1
<1>1. Len(log) \in Nat /\ \A k \in 1..Len(log) : log[k].index \in Nat
  <2>1. Len(log) \in Nat /\ \A k \in 1..Len(log) : log[k] \in Entry
    OBVIOUS
  <2> QED BY <2>1 DEF Entry
<1> DEFINE Bad == {k \in 1..Len(log) : log[k].index # log[1].index + k - 1}
<1> SUFFICES ASSUME Bad # {} PROVE FALSE
  BY <1>1
<1>2. PICK k \in Bad : \A j \in Bad : k <= j
  <2>1. Bad \subseteq Nat
    OBVIOUS
  <2> HIDE DEF Bad
  <2> QED BY <2>1, LeastOf
<1>3. k \in 1..Len(log) /\ log[k].index # log[1].index + k - 1
  OBVIOUS
<1>4. \A j \in 1..Len(log) : j < k => log[j].index = log[1].index + j - 1
  BY <1>2
<1> HIDE DEF Bad
<1>5. k # 1
  BY <1>1, <1>3
<1>6. PICK j \in 1..Len(log) - 1 : j + 1 = k
  BY <1>1, <1>3, <1>5
<1>7. j \in 1..Len(log) /\ j < k
  BY <1>1, <1>6
<1>8. log[k].index = log[j].index + 1
  BY <1>6 DEF Contiguous
<1>9. log[j].index = log[1].index + j - 1
  BY <1>4, <1>7
<1>10. log[1].index \in Nat
  BY <1>1, <1>3
<1> QED BY <1>3, <1>6, <1>8, <1>9, <1>10

(* Popping the entries from an index on keeps every entry before it.       *)
LEMMA PopFromKeeps ==
    ASSUME NEW log \in Seq(Entry), Contiguous(log), NEW i \in Nat
    PROVE  /\ Contiguous(PopFrom(log, i))
           /\ \A k \in 1..Len(PopFrom(log, i)) : k \in 1..Len(log) /\ PopFrom(log, i)[k] = log[k]
           /\ \A k \in 1..Len(log) : log[k].index < i => k \in 1..Len(PopFrom(log, i))
<1> DEFINE D == {k \in 1..Len(log) : log[k].index < i}
<1>1. PICK n : n = Cardinality(D)
  OBVIOUS
<1>2. IsFiniteSet(1..Len(log)) /\ Cardinality(1..Len(log)) = Len(log) /\ Len(log) \in Nat
  <2>1. Len(log) \in Nat
    OBVIOUS
  <2> QED BY <2>1, FS_Interval, SMTT(30)
<1>3. IsFiniteSet(D) /\ n \in Nat /\ n <= Len(log)
  BY <1>1, <1>2, FS_Subset, FS_CardinalityType
<1>4. PICK short : short = PopFrom(log, i)
  OBVIOUS
<1>5. short = SubSeq(log, 1, n)
  BY <1>1, <1>4 DEF PopFrom
<1>6. /\ Len(short) = n
      /\ \A k \in 1..n : k \in 1..Len(log) /\ short[k] = log[k]
  BY <1>2, <1>3, <1>5
<1>7. \A k \in 1..Len(log) : log[k].index < i => k \in 1..n
  <2> SUFFICES ASSUME NEW k \in 1..Len(log), log[k].index < i PROVE k \in 1..n
    OBVIOUS
  <2>1. \A j \in 1..k : j \in D
    <3> SUFFICES ASSUME NEW j \in 1..k PROVE j \in 1..Len(log) /\ log[j].index < i
      OBVIOUS
    <3>1. j \in 1..Len(log)
      BY <1>2
    <3>2. PICK a \in Nat : a = log[1].index
      <4>1. 1 \in 1..Len(log)
        BY <1>2
      <4> QED BY <4>1, IndexIsPosition
    <3>3. log[j].index = a + j - 1 /\ log[k].index = a + k - 1
      BY <3>1, <3>2, IndexIsPosition
    <3> QED BY <3>1, <3>2, <3>3
  <2>2. 1..k \in SUBSET D
    BY <2>1
  <2>3. Cardinality(1..k) = k
    BY FS_Interval
  <2> HIDE DEF D
  <2>4. Cardinality(1..k) <= Cardinality(D)
    BY <1>3, <2>2, FS_Subset
  <2> QED BY <1>1, <1>3, <2>3, <2>4
<1>8. Contiguous(short)
  <2> SUFFICES ASSUME NEW k \in 1..n - 1 PROVE short[k + 1].index = short[k].index + 1
    BY <1>6 DEF Contiguous
  <2>1. PICK j : j = k + 1
    OBVIOUS
  <2>2. k \in 1..n /\ j \in 1..n /\ k \in 1..Len(log) - 1
    BY <1>2, <1>3, <2>1
  <2>3. short[k] = log[k] /\ short[j] = log[j]
    BY <1>6, <2>2
  <2>4. log[j].index = log[k].index + 1
    BY <2>1, <2>2 DEF Contiguous
  <2> QED BY <2>1, <2>3, <2>4
<1> QED BY <1>4, <1>6, <1>7, <1>8

LEMMA ContiguousLast ==
    ASSUME NEW log \in Seq(Entry), Contiguous(log), NEW i \in Nat, i > 0, i <= LastIndex(log)
    PROVE  ~PastEnd(log, i)
<1>1. CASE log = <<>>
  BY <1>1 DEF LastIndex, SnapshotIndex
<1>2. CASE log # <<>>
  <2>1. Len(log) \in Nat /\ Len(log) \in 1..Len(log) /\ 1 \in 1..Len(log)
    BY <1>2
  <2>2. LastIndex(log) = log[1].index + Len(log) - 1 /\ log[1].index \in Nat
    BY <1>2, <2>1, IndexIsPosition DEF LastIndex
  <2>3. FrontIndex(log) = log[1].index
    BY <1>2 DEF FrontIndex
  <2> QED BY <2>1, <2>2, <2>3 DEF PastEnd, Position
<1> QED BY <1>1, <1>2

(* What the scan of appendEntries passes over is in the log already.       *)
LEMMA ScannedIsThere ==
    ASSUME NEW log \in Seq(Entry), Contiguous(log), NEW e \in Entry, e.index > 0, NEW mem,
           ScannedPast(log, e, mem)
    PROVE  \E q \in 1..Len(log) : log[q].index = e.index /\ log[q].term = e.term
<1>1. e.index \in Nat /\ e.index <= LastIndex(log)
  BY DEF ScannedPast, Entry
<1>2. ~PastEnd(log, e.index)
  BY <1>1, ContiguousLast
<1>3. PICK mine : mine = GetLog(log, e.index, mem)
  OBVIOUS
<1>4. mine # NoEntry /\ mine.term = e.term
  BY <1>3 DEF ScannedPast
<1>5. Inside(log, e.index) /\ mine = EntryAt(log, e.index, mem) /\ mine.index = e.index
  BY <1>2, <1>3, <1>4 DEF GetLog
<1>6. PICK q : q = Position(log, e.index) + 1
  OBVIOUS
<1>7. q \in 1..Len(log) /\ mine = log[q]
  <2>1. mine = log[q]
    BY <1>5, <1>6 DEF EntryAt
  <2>2. Position(log, e.index) \in 0..Len(log) - 1 /\ Len(log) \in Nat
    BY <1>5 DEF Inside
  <2> QED BY <1>6, <2>1, <2>2
<1> QED BY <1>4, <1>5, <1>7

LEMMA MergeStores ==
    ASSUME NEW log \in Seq(Entry), Contiguous(log), NEW entries \in Seq(Entry),
           NEW prev \in Nat, \A j \in DOMAIN entries : entries[j].index = prev + j,
           NEW mem, NEW k \in 1..Len(entries) + 1, ScanStopsAt(log, entries, mem, k),
           NEW j \in DOMAIN entries
    PROVE  StoredIn(MergeFrom(log, entries, k), entries[j])
<1>1. Len(entries) \in Nat /\ DOMAIN entries = 1..Len(entries) /\ DOMAIN log = 1..Len(log)
      /\ Len(log) \in Nat /\ entries[j] \in Entry
  OBVIOUS
<1>2. entries[j].index = prev + j /\ entries[j].index > 0
  BY <1>1
<1>3. CASE j < k
  <2>1. ScannedPast(log, entries[j], mem)
    BY <1>1, <1>3 DEF ScanStopsAt
  <2>2. PICK q \in 1..Len(log) : log[q].index = entries[j].index /\ log[q].term = entries[j].term
    BY <1>1, <1>2, <2>1, ScannedIsThere
  <2>3. CASE k > Len(entries)
    BY <1>1, <2>2, <2>3 DEF MergeFrom, StoredIn
  <2>4. CASE ~(k > Len(entries))
    <3>1. PICK i \in Nat : i = entries[k].index
      <4>1. k \in DOMAIN entries
        BY <1>1, <2>4
      <4> QED BY <1>1, <4>1
    <3>2. log[q].index < i
      <4>1. k \in DOMAIN entries
        BY <1>1, <2>4
      <4>2. i = prev + k
        BY <3>1, <4>1
      <4> QED BY <1>1, <1>2, <1>3, <2>2, <4>2
    <3>3. PICK short \in Seq(Entry) : short = PopFrom(log, i)
      BY PopFromType
    <3>4. q \in 1..Len(short) /\ short[q] = log[q]
      BY <2>2, <3>2, <3>3, PopFromKeeps
    <3>5. PICK rest \in Seq(Entry) : rest = SubSeq(entries, k, Len(entries))
      <4>1. Len(entries) \in 0..Len(entries)
        BY <1>1
      <4>2. SubSeq(entries, k, Len(entries)) \in Seq(Entry)
        BY <4>1, SubSeqType
      <4> QED BY <4>2
    <3>6. MergeFrom(log, entries, k) = short \o rest
      BY <2>4, <3>1, <3>3, <3>5 DEF MergeFrom
    <3>7. q \in DOMAIN (short \o rest) /\ (short \o rest)[q] = short[q]
      BY <3>4
    <3> QED BY <2>2, <3>4, <3>6, <3>7 DEF StoredIn
  <2> QED BY <2>3, <2>4
<1>4. CASE ~(j < k)
  <2>1. j \in k..Len(entries) /\ k \in 1..Len(entries)
    BY <1>1, <1>4
  <2>2. PICK i \in Nat : i = entries[k].index
    BY <1>1, <2>1
  <2>3. PICK short \in Seq(Entry) : short = PopFrom(log, i)
    BY PopFromType
  <2>4. PICK rest \in Seq(Entry) : rest = SubSeq(entries, k, Len(entries))
    <3>1. Len(entries) \in 0..Len(entries)
      BY <1>1
    <3>2. SubSeq(entries, k, Len(entries)) \in Seq(Entry)
      BY <3>1, SubSeqType
    <3> QED BY <3>2
  <2>5. MergeFrom(log, entries, k) = short \o rest
    <3>1. ~ (k > Len(entries))
      BY <1>1, <2>1
    <3> QED BY ONLY <2>2, <2>3, <2>4, <3>1, Zenon DEF MergeFrom
  <2>6. PICK r : r = j - k + 1
    OBVIOUS
  <2>7. r \in 1..Len(rest) /\ rest[r] = entries[j]
    BY <1>1, <2>1, <2>4, <2>6, SMTT(30)
  <2>8. Len(short) + r \in DOMAIN (short \o rest) /\ (short \o rest)[Len(short) + r] = rest[r]
    BY <2>7
  <2> QED BY <2>5, <2>7, <2>8 DEF StoredIn
<1> QED BY <1>3, <1>4

LEMMA AcceptedIn ==
    ASSUME TypeOK, [Next]_vars, NEW s \in Server, NEW p \in Peers(s),
           repl[s][p].pc = "sent", repl'[s][p].pc = "accepted"
    PROVE  \E success : success /\ AppendEntries(p, repl[s][p].req, success)
<1>0. p \in Server /\ repl' # repl
  BY DEF Peers
<1>1. repl \in [Server -> [Server ->
          [pc: {"idle", "check", "send", "sent", "accepted", "rejected"},
           req: AppendRequest \cup {NoRequest}]]]
  BY DEF TypeOK, ReplicatorType
<1>2. ASSUME NEW t \in Server,
             \/ Kill(t) \/ Shutdown(t) \/ Restart(t)
             \/ ElectionTimeout(t) \/ StartElection(t) \/ StartElectionKilled(t)
             \/ CountVotes(t)
             \/ SendHeartBeats(t) \/ SendHeartBeatsAborts(t)
             \/ GatherForApply(t) \/ GatherForApplyAborts(t) \/ Applied(t)
      PROVE  FALSE
  <2>1. repl' = repl \/ repl' = [repl EXCEPT ![t] = [q \in Server |-> Replicator("idle")]]
    BY <1>2 DEF Kill, Shutdown, Restart, ElectionTimeout, StartElection, StartElectionKilled,
                CountVotes, SendHeartBeats, SendHeartBeatsAborts, GatherForApply,
                GatherForApplyAborts, Applied, Abort, ThreadsEnd, threadVars
  <2>2. repl'[s][p].pc \in {repl[s][p].pc, "idle"}
    <3>1. CASE repl' = repl
      BY <3>1
    <3>2. CASE repl' = [repl EXCEPT ![t] = [q \in Server |-> Replicator("idle")]]
      <4>1. repl'[s][p] = IF s = t THEN Replicator("idle") ELSE repl[s][p]
        BY <1>0, <1>1, <3>2
      <4> QED BY <4>1 DEF Replicator
    <3> QED BY <2>1, <3>1, <3>2
  <2> QED BY <2>2
<1>3. ASSUME NEW t \in Server, NEW c \in Command, Start(t, c)
      PROVE  FALSE
  <2>1. PICK woken \in SUBSET {q \in Peers(t) : repl[t][q].pc = "idle"} :
           repl' = [repl EXCEPT ![t] =
              [q \in Server |-> IF q \in woken THEN Replicator("check") ELSE repl[t][q]]]
    BY <1>3 DEF Start
  <2> QED BY <1>0, <1>1, <2>1 DEF Replicator
<1>4. ASSUME NEW t \in Server, NEW q \in Peers(t),
             \/ RequestVoteCall(t, q) \/ RequestVoteKilled(t, q) \/ RequestVoteFails(t, q)
             \/ ReplicatorCheck(t, q) \/ ReplicatorSend(t, q) \/ ReplicatorSendAborts(t, q)
             \/ ReplicateCall(t, q) \/ ReplicateCallAborts(t, q) \/ ReplicateFails(t, q)
             \/ HandleAccepted(t, q) \/ HandleAcceptedAborts(t, q) \/ HandleRejected(t, q)
      PROVE  \E success : success /\ AppendEntries(p, repl[s][p].req, success)
  <2>0. q \in Server
    BY DEF Peers
  <2>1. CASE RequestVoteCall(t, q) \/ RequestVoteFails(t, q)
    BY <1>0, <2>1 DEF RequestVoteCall, RequestVote, RequestVoteFails
  <2>2. CASE RequestVoteKilled(t, q)
    <3>1. repl' = [repl EXCEPT ![q] = [x \in Server |-> Replicator("idle")]]
      BY <2>2 DEF RequestVoteKilled
    <3> QED BY <1>0, <1>1, <2>0, <3>1 DEF Replicator
  <2>3. CASE ReplicatorSendAborts(t, q) \/ HandleAcceptedAborts(t, q)
    <3>1. repl' = [repl EXCEPT ![t] = [x \in Server |-> Replicator("idle")]]
      BY <2>3 DEF ReplicatorSendAborts, HandleAcceptedAborts, Abort, ThreadsEnd
    <3> QED BY <1>0, <1>1, <3>1 DEF Replicator
  <2>4. CASE ReplicatorCheck(t, q)
    <3>1. PICK pc \in {"send", "idle"} : repl' = [repl EXCEPT ![t][q].pc = pc]
      BY <2>4 DEF ReplicatorCheck
    <3>2. repl'[s][p].pc \in {repl[s][p].pc, pc}
      BY <1>0, <1>1, <2>0, <3>1
    <3> QED BY <3>2
  <2>5. CASE ReplicatorSend(t, q)
    <3>1. PICK m : repl' = [repl EXCEPT ![t][q] = [pc |-> "sent", req |-> m]]
      BY <2>5 DEF ReplicatorSend
    <3>2. repl'[s][p].pc \in {repl[s][p].pc, "sent"}
      BY <1>0, <1>1, <2>0, <3>1
    <3> QED BY <3>2
  <2>6. CASE ReplicateFails(t, q) \/ HandleAccepted(t, q) \/ HandleRejected(t, q)
    <3>1. repl' = [repl EXCEPT ![t][q] = Replicator("check")]
      BY <2>6 DEF ReplicateFails, HandleAccepted, HandleRejected
    <3>2. repl'[s][p].pc \in {repl[s][p].pc, "check"}
      BY <1>0, <1>1, <2>0, <3>1 DEF Replicator
    <3> QED BY <3>2
  <2>7. CASE ReplicateCallAborts(t, q)
    <3>1. repl' = [repl EXCEPT ![q] = [x \in Server |-> Replicator("idle")],
                              ![t][q] = Replicator("check")]
      BY <2>7 DEF ReplicateCallAborts
    <3>2. repl'[s][p].pc \in {repl[s][p].pc, "check", "idle"}
      BY <1>0, <1>1, <2>0, <3>1 DEF Replicator
    <3> QED BY <3>2
  <2>8. CASE ReplicateCall(t, q)
    <3>1. PICK success \in BOOLEAN :
             /\ AppendEntries(q, repl[t][q].req, success)
             /\ repl' = [repl EXCEPT ![t][q].pc = IF success THEN "accepted" ELSE "rejected"]
      BY <2>8 DEF ReplicateCall
    <3>2. s = t /\ p = q
      BY <1>0, <1>1, <2>0, <3>1
    <3>3. success
      BY <1>0, <1>1, <2>0, <3>1, <3>2
    <3> QED BY <3>1, <3>2, <3>3
  <2> QED BY <1>4, <2>1, <2>2, <2>3, <2>4, <2>5, <2>6, <2>7, <2>8
<1>5. ASSUME NEW m \in net,
             RequestVoteLate(m) \/ AppendEntriesLate(m) \/ AppendEntriesLateAborts(m)
      PROVE  FALSE
  <2>0. m.to \in Server
    BY DEF TypeOK, HistoryType, VoteRequest, AppendRequest
  <2>1. repl' = repl \/ repl' = [repl EXCEPT ![m.to] = [q \in Server |-> Replicator("idle")]]
    BY <1>5 DEF RequestVoteLate, RequestVote, AppendEntriesLate, AppendEntriesLateAborts, Abort,
                ThreadsEnd
  <2>2. repl'[s][p].pc \in {repl[s][p].pc, "idle"}
    <3>1. CASE repl' = repl
      BY <3>1
    <3>2. CASE repl' = [repl EXCEPT ![m.to] = [q \in Server |-> Replicator("idle")]]
      <4>1. repl'[s][p] = IF s = m.to THEN Replicator("idle") ELSE repl[s][p]
        BY <1>0, <1>1, <2>0, <3>2
      <4> QED BY <4>1 DEF Replicator
    <3> QED BY <2>1, <3>1, <3>2
  <2> QED BY <2>2
<1>6. CASE UNCHANGED vars
  BY <1>0, <1>6 DEF vars, threadVars
<1> QED BY <1>2, <1>3, <1>4, <1>5, <1>6 DEF Next

LEMMA KeptIsContiguous ==
    ASSUME NEW log \in Seq(Entry), Contiguous(log), NEW i \in Nat, NEW term
    PROVE  /\ AfterPrevCheck(log, i, term) \in Seq(Entry)
           /\ Contiguous(AfterPrevCheck(log, i, term))
BY PopFromType, PopFromKeeps DEF AfterPrevCheck

Merges(p, m) ==
    \E mem : \E k \in 1..Len(m.entries) + 1 :
        /\ ScanStopsAt(KeptLog(p, m), m.entries, mem, k)
        /\ logs' = [logs EXCEPT ![p] = MergeFrom(KeptLog(p, m), m.entries, k)]

LEMMA MergesWhenAccepted ==
    ASSUME NEW p \in Server, NEW m, NEW success, success, AppendEntries(p, m, success)
    PROVE  Merges(p, m)
<1>1. CASE m.term < currentTerm[p] /\ ~success
  BY <1>1
<1>2. CASE ~(m.term < currentTerm[p] /\ ~success)
  <2>1. IF ~success THEN UNCHANGED <<logs, commitIndex, persisterVars, applier>>
        ELSE \E mem \in MemoryFor(ScanUndefined(KeptLog(p, m), m.entries)),
                k \in 1..Len(m.entries) + 1 :
             LET log == MergeFrom(KeptLog(p, m), m.entries, k)
             IN /\ ScanStopsAt(KeptLog(p, m), m.entries, mem, k)
                /\ ~ScanDies(KeptLog(p, m), m.entries, mem, k)
                /\ logs' = [logs EXCEPT ![p] = log]
                /\ UpdateCommitIndex(p, log, Smaller(m.leaderCommit, LastIndex(log)))
    BY <1>2 DEF AppendEntries
  <2>2. \E mem \in MemoryFor(ScanUndefined(KeptLog(p, m), m.entries)),
           k \in 1..Len(m.entries) + 1 :
           /\ ScanStopsAt(KeptLog(p, m), m.entries, mem, k)
           /\ logs' = [logs EXCEPT ![p] = MergeFrom(KeptLog(p, m), m.entries, k)]
    BY <2>1, ZenonT(30)
  <2> QED BY <2>2 DEF Merges
<1> QED BY <1>1, <1>2

(* What a follower acknowledges is in its log, also when entries in        *)
(* conflict were deleted on the way, if the log had no hole and the        *)
(* indexes of the call are consecutive.                                    *)
THEOREM AcknowledgedIsStored == Spec => AckMeansStored
<1>1. ASSUME TypeOK, [Next]_vars, NEW s \in Server, NEW p \in Peers(s), Acknowledged(s, p),
             NEW j \in DOMAIN repl[s][p].req.entries
      PROVE  StoredIn(logs'[p], repl[s][p].req.entries[j])
  <2>1. repl[s][p].pc = "sent" /\ repl'[s][p].pc = "accepted" /\ p \in Server
    BY <1>1 DEF Acknowledged, Peers
  <2>2. PICK m \in AppendRequest : m = repl[s][p].req
    BY <1>1, <2>1 DEF TypeOK, ReplicatorType
  <2>3. \E success : success /\ AppendEntries(p, m, success)
    BY <1>1, <2>1, <2>2, AcceptedIn
  <2>3a. Merges(p, m)
    BY <2>1, <2>3, MergesWhenAccepted
  <2>3b. PICK mem : \E k \in 1..Len(m.entries) + 1 :
            /\ ScanStopsAt(KeptLog(p, m), m.entries, mem, k)
            /\ logs' = [logs EXCEPT ![p] = MergeFrom(KeptLog(p, m), m.entries, k)]
    BY <2>3a DEF Merges
  <2>4. PICK k \in 1..Len(m.entries) + 1 :
            /\ ScanStopsAt(KeptLog(p, m), m.entries, mem, k)
            /\ logs' = [logs EXCEPT ![p] = MergeFrom(KeptLog(p, m), m.entries, k)]
    BY <2>3b
  <2>5. logs[p] \in Seq(Entry) /\ m.entries \in Seq(Entry) /\ m.prevLogIndex \in Nat
    BY <1>1, <2>1, CommitIsNat DEF AppendRequest
  <2>6. KeptLog(p, m) \in Seq(Entry) /\ Contiguous(KeptLog(p, m))
    BY <1>1, <2>5, KeptIsContiguous DEF KeptLog, Acknowledged
  <2>7. \A i \in DOMAIN m.entries : m.entries[i].index = m.prevLogIndex + i
    BY <1>1, <2>2 DEF Acknowledged, WellFormedCall
  <2>8. StoredIn(MergeFrom(KeptLog(p, m), m.entries, k), m.entries[j])
    BY <1>1, <2>2, <2>4, <2>5, <2>6, <2>7, MergeStores
  <2>9. logs'[p] = MergeFrom(KeptLog(p, m), m.entries, k)
    BY <1>1, <2>1, <2>4 DEF TypeOK, RaftType
  <2> QED BY <2>2, <2>8, <2>9
<1>2. TypeOK /\ [Next]_vars =>
         [\A s \in Server : \A p \in Peers(s) :
             Acknowledged(s, p) => \A k \in DOMAIN repl[s][p].req.entries :
                                      StoredIn(logs'[p], repl[s][p].req.entries[k])]_vars
  BY <1>1
<1>3. Spec => []TypeOK
  BY TypeCorrect
<1> QED BY <1>2, <1>3, PTL DEF Spec, AckMeansStored

-----------------------------------------------------------------------------
(***************************************************************************)
(* Elections.                                                              *)
(***************************************************************************)
BallotOf(v, t, c) == [voter |-> v, term |-> t, cand |-> c]

\* A server that kept its meta.dat has saved its latest vote.
SavedVotes ==
    \A b \in voted : b.voter \notin metaLost =>
        /\ b.term <= md[b.voter].term
        /\ b.term = md[b.voter].term => b.cand = md[b.voter].vote

\* In its saved term, a running server remembers the saved vote.
SavedState ==
    \A s \in Server : Up(s) =>
        /\ md[s].term <= currentTerm[s]
        /\ md[s].term = currentTerm[s] => votedFor[s] = md[s].vote

\* The votes an election thread has counted were given.
CountedVotes ==
    \A s \in Server : election[s].pc = "collect" =>
        \A v \in election[s].votes : BallotOf(v, election[s].term, s) \in voted

\* A winner has the votes of a majority.
WonByMajority ==
    \A w \in elected : \E Q \in SUBSET Server :
        /\ IsMajority(Cardinality(Q))
        /\ \A v \in Q : BallotOf(v, w.term, w.server) \in voted

ElectionInv ==
    /\ TypeOK
    /\ SavedVotes
    /\ SavedState
    /\ OneVotePerTerm
    /\ CountedVotes
    /\ WonByMajority

electionVars == <<proc, currentTerm, votedFor, md, election, voted, elected, metaLost>>

-----------------------------------------------------------------------------
(***************************************************************************)
(* What each kind of step does to the invariant.                           *)
(***************************************************************************)
(* A step that touches neither terms nor votes.                            *)
LEMMA FrameStep ==
    ASSUME ElectionInv, TypeOK', UNCHANGED electionVars
    PROVE  ElectionInv'
BY DEF ElectionInv, electionVars, SavedVotes, SavedState, OneVotePerTerm, CountedVotes,
       WonByMajority, Up

(* Votes once given stay given.                                            *)
LEMMA VotesStay ==
    ASSUME ElectionInv, voted \subseteq voted'
    PROVE  /\ elected' = elected => WonByMajority'
           /\ \A s \in Server : election'[s] = election[s] /\ election[s].pc = "collect" =>
                 \A v \in election'[s].votes : BallotOf(v, election'[s].term, s) \in voted'
BY DEF ElectionInv, CountedVotes, WonByMajority

(* A process ends without a save under way.                                *)
LEMMA StopStep ==
    ASSUME ElectionInv, TypeOK', NEW s \in Server, NEW why, why # "up", Stop(s, why),
           election' = [election EXCEPT ![s] = NoElection],
           UNCHANGED <<md, voted, elected, metaLost>>
    PROVE  ElectionInv'
<1>0. TypeOK /\ SavedVotes /\ SavedState /\ OneVotePerTerm
  BY DEF ElectionInv
<1>1. SavedVotes' /\ OneVotePerTerm'
  BY <1>0 DEF SavedVotes, OneVotePerTerm
<1>2. SavedState'
  <2> SUFFICES ASSUME NEW t \in Server, Up(t)'
               PROVE  /\ md'[t].term <= currentTerm'[t]
                      /\ md'[t].term = currentTerm'[t] => votedFor'[t] = md'[t].vote
    BY DEF SavedState
  <2>1. t # s
    BY <1>0 DEF Stop, Up, TypeOK, RaftType
  <2>2. proc'[t] = proc[t] /\ currentTerm'[t] = currentTerm[t] /\ votedFor'[t] = votedFor[t]
    BY <1>0, <2>1 DEF Stop, TypeOK, RaftType
  <2> QED BY <1>0, <2>2 DEF SavedState, Up
<1>3. CountedVotes'
  <2> SUFFICES ASSUME NEW t \in Server, election'[t].pc = "collect", NEW v \in election'[t].votes
               PROVE  BallotOf(v, election'[t].term, t) \in voted'
    BY DEF CountedVotes
  <2>1. t # s
    BY <1>0 DEF NoElection, TypeOK, ElectionType
  <2>2. election'[t] = election[t]
    BY <1>0, <2>1 DEF TypeOK, ElectionType
  <2> QED BY <2>2, VotesStay
<1>4. WonByMajority'
  BY VotesStay
<1> QED BY <1>1, <1>2, <1>3, <1>4 DEF ElectionInv

LEMMA AbortStep ==
    ASSUME ElectionInv, TypeOK', NEW s \in Server, NEW why, why # "up", Abort(s, why)
    PROVE  ElectionInv'
BY StopStep DEF Abort, ThreadsEnd, historyVars

(* The saved vote is lost: the server is bound by nothing from then on.    *)
LEMMA KilledStep ==
    ASSUME ElectionInv, TypeOK', NEW s \in Server, KilledInSave(s),
           election'[s] = NoElection,
           \A t \in Server \ {s} : election'[t].pc = "collect" =>
               /\ election[t].pc = "collect"
               /\ election'[t].term = election[t].term
               /\ election'[t].votes \subseteq election[t].votes
    PROVE  ElectionInv'
<1>0. TypeOK /\ SavedVotes /\ SavedState /\ OneVotePerTerm /\ CountedVotes
  BY DEF ElectionInv
<1>1. /\ Stop(s, "down")
      /\ md' = [md EXCEPT ![s] = EmptyMeta]
      /\ metaLost' = metaLost \cup {s}
      /\ voted' = voted /\ elected' = elected
  BY DEF KilledInSave
<1>2. SavedVotes'
  BY <1>0, <1>1 DEF SavedVotes, TypeOK, PersisterType, HistoryType, Ballot
<1>3. OneVotePerTerm'
  BY <1>0, <1>1 DEF OneVotePerTerm
<1>4. SavedState'
  <2> SUFFICES ASSUME NEW t \in Server, Up(t)'
               PROVE  /\ md'[t].term <= currentTerm'[t]
                      /\ md'[t].term = currentTerm'[t] => votedFor'[t] = md'[t].vote
    BY DEF SavedState
  <2>1. t # s
    BY <1>0, <1>1 DEF Stop, Up, TypeOK, RaftType
  <2>2. /\ proc'[t] = proc[t] /\ currentTerm'[t] = currentTerm[t]
        /\ votedFor'[t] = votedFor[t] /\ md'[t] = md[t]
    BY <1>0, <1>1, <2>1 DEF Stop, TypeOK, RaftType, PersisterType
  <2> QED BY <1>0, <2>2 DEF SavedState, Up
<1>5. CountedVotes'
  <2> SUFFICES ASSUME NEW t \in Server, election'[t].pc = "collect", NEW v \in election'[t].votes
               PROVE  BallotOf(v, election'[t].term, t) \in voted'
    BY DEF CountedVotes
  <2>1. t # s
    BY DEF NoElection
  <2>2. election[t].pc = "collect" /\ election'[t].term = election[t].term /\ v \in election[t].votes
    BY <2>1
  <2> QED BY <1>0, <1>1, <2>2 DEF CountedVotes
<1>6. WonByMajority'
  BY <1>1, VotesStay
<1> QED BY <1>2, <1>3, <1>4, <1>5, <1>6 DEF ElectionInv

(* requestVote: a vote in the saved term repeats the saved vote.           *)
LEMMA RequestVoteStep ==
    ASSUME ElectionInv, NEW p \in Server, Up(p), NEW m \in VoteRequest, NEW granted \in BOOLEAN,
           RequestVote(p, m, granted)
    PROVE  /\ SavedVotes' /\ SavedState' /\ OneVotePerTerm' /\ WonByMajority'
           /\ voted \subseteq voted'
           /\ granted => BallotOf(p, m.term, m.cand) \in voted'
<1>0. TypeOK /\ SavedVotes /\ SavedState /\ OneVotePerTerm
  BY DEF ElectionInv
<1>1. UNCHANGED <<proc, elected, metaLost>>
  BY DEF RequestVote
<1>2. CASE ~granted
  <2>1. UNCHANGED <<currentTerm, votedFor, md, voted>>
    BY <1>2 DEF RequestVote
  <2>2. SavedVotes' /\ SavedState' /\ OneVotePerTerm'
    BY <1>0, <1>1, <2>1 DEF SavedVotes, SavedState, OneVotePerTerm, Up
  <2> QED BY <1>1, <1>2, <2>1, <2>2, VotesStay
<1>3. CASE granted
  <2>1. /\ currentTerm' = [currentTerm EXCEPT ![p] = m.term]
        /\ votedFor' = [votedFor EXCEPT ![p] = m.cand]
        /\ md' = [md EXCEPT ![p] = [term |-> m.term, vote |-> m.cand]]
        /\ voted' = voted \cup {BallotOf(p, m.term, m.cand)}
        /\ Grants(p, m)
    BY <1>3 DEF RequestVote, SaveTermAndVote, BallotOf
  <2>2. m.term \in Nat /\ m.cand \in Server /\ m.cand # NoHost
    BY ServerAssumption, BoundsAssumption DEF VoteRequest, Term
  <2>3. md'[p].term = m.term /\ md'[p].vote = m.cand
    BY <1>0, <2>1 DEF TypeOK, PersisterType
  <2>4. /\ currentTerm[p] \in Nat /\ md[p].term \in Nat
        /\ \A b \in voted : b.term \in Nat /\ b.voter \in Server /\ b.cand \in Server
    <3>1. currentTerm[p] \in Term /\ md[p].term \in Term /\ voted \subseteq Ballot
      BY <1>0 DEF TypeOK, RaftType, PersisterType, HistoryType
    <3> QED BY <3>1, BoundsAssumption DEF Ballot, Term
  <2>5. md[p].term <= currentTerm[p] /\ currentTerm[p] <= m.term
    BY <1>0, <2>1, <2>2, <2>4 DEF Grants, SavedState
  <2>6. ASSUME NEW b \in voted, b.voter = p, p \notin metaLost
        PROVE  b.term <= m.term /\ (b.term = m.term => b.cand = m.cand)
    <3>1. b.term <= md[p].term /\ (b.term = md[p].term => b.cand = md[p].vote)
      BY <1>0, <2>6 DEF SavedVotes
    <3>2. b.term <= m.term
      BY <2>2, <2>4, <2>5, <3>1
    <3>3. ASSUME b.term = m.term
          PROVE  b.cand = m.cand
      <4>1. md[p].term = currentTerm[p] /\ m.term = currentTerm[p] /\ b.term = md[p].term
        BY <2>2, <2>4, <2>5, <3>1, <3>3
      <4>2. b.cand = votedFor[p]
        BY <1>0, <3>1, <4>1 DEF SavedState
      <4>3. votedFor[p] \in {NoHost, m.cand}
        BY <2>1, <2>2, <4>1 DEF Grants
      <4>4. b.cand # NoHost
        BY <2>4, ServerAssumption
      <4> QED BY <4>2, <4>3, <4>4
    <3> QED BY <3>2, <3>3
  <2>7. SavedVotes'
    <3> SUFFICES ASSUME NEW b \in voted', b.voter \notin metaLost'
                 PROVE  /\ b.term <= md'[b.voter].term
                        /\ b.term = md'[b.voter].term => b.cand = md'[b.voter].vote
      BY DEF SavedVotes
    <3>1. CASE b = BallotOf(p, m.term, m.cand)
      BY <2>2, <2>3, <3>1 DEF BallotOf
    <3>2. CASE b \in voted /\ b.voter = p
      BY <1>1, <2>3, <2>6, <3>2
    <3>3. CASE b \in voted /\ b.voter # p
      <4>1. md'[b.voter] = md[b.voter]
        BY <1>0, <2>1, <2>4, <3>3 DEF TypeOK, PersisterType
      <4> QED BY <1>0, <1>1, <3>3, <4>1 DEF SavedVotes
    <3> QED BY <2>1, <3>1, <3>2, <3>3
  <2>8. SavedState'
    <3> SUFFICES ASSUME NEW t \in Server, Up(t)'
                 PROVE  /\ md'[t].term <= currentTerm'[t]
                        /\ md'[t].term = currentTerm'[t] => votedFor'[t] = md'[t].vote
      BY DEF SavedState
    <3>1. CASE t = p
      BY <1>0, <2>1, <2>2, <2>3, <3>1, SMTT(30) DEF TypeOK, RaftType
    <3>2. CASE t # p
      BY <1>0, <1>1, <2>1, <3>2 DEF TypeOK, RaftType, PersisterType, SavedState, Up
    <3> QED BY <3>1, <3>2
  <2>9. OneVotePerTerm'
    <3> SUFFICES ASSUME NEW a \in voted', NEW b \in voted',
                        a.voter = b.voter, a.term = b.term, a.voter \notin metaLost'
                 PROVE  a.cand = b.cand
      BY DEF OneVotePerTerm
    <3>1. CASE a \in voted /\ b \in voted
      BY <1>0, <1>1, <3>1 DEF OneVotePerTerm
    <3>2. CASE a \notin voted \/ b \notin voted
      BY <1>1, <2>1, <2>6, <3>2 DEF BallotOf
    <3> QED BY <3>1, <3>2
  <2> QED BY <1>1, <2>1, <2>7, <2>8, <2>9, VotesStay
<1> QED BY <1>2, <1>3
(* appendEntries raises the term of the memory above the saved one.        *)
LEMMA AppendEntriesStep ==
    ASSUME ElectionInv, TypeOK', NEW p \in Server, NEW m \in AppendRequest, NEW success,
           AppendEntries(p, m, success), UNCHANGED election
    PROVE  ElectionInv'
<1>0. TypeOK /\ SavedVotes /\ SavedState /\ OneVotePerTerm
  BY DEF ElectionInv
<1>1. UNCHANGED <<proc, md, voted, elected, metaLost>>
  BY DEF AppendEntries, historyVars
<1>2. SavedVotes' /\ OneVotePerTerm'
  BY <1>0, <1>1 DEF SavedVotes, OneVotePerTerm
<1>3. \/ currentTerm' = currentTerm /\ votedFor' = votedFor
      \/ /\ m.term >= currentTerm[p]
         /\ currentTerm' = [currentTerm EXCEPT ![p] = m.term]
         /\ votedFor' = [votedFor EXCEPT ![p] = IF m.term > currentTerm[p] THEN NoHost ELSE @]
  <2>1. m.term \in Term /\ currentTerm[p] \in Term
    BY <1>0 DEF AppendRequest, TypeOK, RaftType
  <2>2. AcceptsAppend(p, m) => m.term >= currentTerm[p]
    BY <2>1, BoundsAssumption DEF AcceptsAppend, Term
  <2> QED BY <2>2 DEF AppendEntries, raftVars
<1>4. SavedState'
  <2> SUFFICES ASSUME NEW t \in Server, Up(t)'
               PROVE  /\ md'[t].term <= currentTerm'[t]
                      /\ md'[t].term = currentTerm'[t] => votedFor'[t] = md'[t].vote
    BY DEF SavedState
  <2>1. /\ md[t].term <= currentTerm[t]
        /\ md[t].term = currentTerm[t] => votedFor[t] = md[t].vote
    BY <1>0, <1>1 DEF SavedState, Up
  <2>2. m.term \in Nat /\ md[t].term \in Nat /\ currentTerm[t] \in Nat
    <3>1. m.term \in Term /\ md[t].term \in Term /\ currentTerm[t] \in Term
      BY <1>0 DEF AppendRequest, TypeOK, RaftType, PersisterType
    <3> QED BY <3>1, BoundsAssumption DEF Term
  <2>3. CASE t = p /\ m.term > currentTerm[p]
    <3>1. \/ currentTerm'[t] = m.term
          \/ currentTerm'[t] = currentTerm[t] /\ votedFor'[t] = votedFor[t]
      BY <1>0, <1>3, <2>3 DEF TypeOK, RaftType
    <3> QED BY <1>1, <2>1, <2>2, <2>3, <3>1
  <2>4. CASE t = p /\ ~(m.term > currentTerm[p])
    <3>1. currentTerm'[t] = currentTerm[t] /\ votedFor'[t] = votedFor[t]
      <4>1. m.term >= currentTerm[p] => m.term = currentTerm[p]
        BY <2>2, <2>4
      <4> QED BY <1>0, <1>3, <2>4, <4>1 DEF TypeOK, RaftType
    <3> QED BY <1>1, <2>1, <3>1
  <2>5. CASE t # p
    <3>1. currentTerm'[t] = currentTerm[t] /\ votedFor'[t] = votedFor[t]
      BY <1>0, <1>3, <2>5 DEF TypeOK, RaftType
    <3> QED BY <1>1, <2>1, <3>1
  <2> QED BY <2>3, <2>4, <2>5
<1>5. CountedVotes' /\ WonByMajority'
  BY <1>1 DEF ElectionInv, CountedVotes, WonByMajority
<1> QED BY <1>2, <1>4, <1>5 DEF ElectionInv

(* A new campaign: its term is above every vote the server is bound by.    *)
LEMMA NewTerm ==
    ASSUME ElectionInv, NEW s \in Server, Up(s), s \notin metaLost,
           NEW b \in voted, b.voter = s
    PROVE  b.term < currentTerm[s] + 1
<1>1. b.term \in Term /\ md[s].term \in Term /\ currentTerm[s] \in Term
  BY DEF ElectionInv, TypeOK, RaftType, PersisterType, HistoryType, Ballot
<1>2. b.term <= md[s].term /\ md[s].term <= currentTerm[s]
  BY DEF ElectionInv, SavedVotes, SavedState
<1> QED BY <1>1, <1>2, BoundsAssumption DEF Term

LEMMA StartElectionStep ==
    ASSUME ElectionInv, TypeOK', NEW s \in Server, StartElection(s)
    PROVE  ElectionInv'
<1> DEFINE term == currentTerm[s] + 1
<1>0. TypeOK /\ SavedVotes /\ SavedState /\ OneVotePerTerm /\ CountedVotes
  BY DEF ElectionInv
<1>1. currentTerm[s] \in Nat /\ Up(s)
  <2>1. currentTerm[s] \in Term
    BY <1>0 DEF TypeOK, RaftType
  <2> QED BY <2>1, BoundsAssumption DEF Term, StartElection, MayStartElection
<1>2. term \in Nat
  BY <1>1
<1>3. ASSUME NEW b \in voted, b.voter = s, s \notin metaLost
      PROVE  b.term < term
  BY <1>1, <1>3, NewTerm
<1> HIDE DEF term
<1>4. /\ currentTerm' = [currentTerm EXCEPT ![s] = term]
      /\ votedFor' = [votedFor EXCEPT ![s] = s]
      /\ md' = [md EXCEPT ![s] = [term |-> term, vote |-> s]]
      /\ voted' = voted \cup {BallotOf(s, term, s)}
      /\ UNCHANGED <<proc, elected, metaLost>>
  BY DEF StartElection, SaveTermAndVote, BallotOf, term
<1>5. /\ election'[s].term = term /\ election'[s].votes = {s}
      /\ \A t \in Server \ {s} : election'[t] = election[t]
  BY <1>0 DEF StartElection, term, TypeOK, ElectionType
<1>6. md'[s].term = term /\ md'[s].vote = s
  BY <1>0, <1>4 DEF TypeOK, PersisterType
<1>7. \A b \in voted : b.voter \in Server /\ b.term \in Nat
  <2>1. voted \subseteq Ballot
    BY <1>0 DEF TypeOK, HistoryType
  <2> QED BY <2>1, BoundsAssumption DEF Ballot, Term
<1>8. SavedVotes'
  <2> SUFFICES ASSUME NEW b \in voted', b.voter \notin metaLost'
               PROVE  /\ b.term <= md'[b.voter].term
                      /\ b.term = md'[b.voter].term => b.cand = md'[b.voter].vote
    BY DEF SavedVotes
  <2>1. CASE b = BallotOf(s, term, s)
    BY <1>2, <1>6, <2>1 DEF BallotOf
  <2>2. CASE b \in voted /\ b.voter = s
    <3>1. b.term < term
      BY <1>3, <1>4, <2>2
    <3> QED BY <1>2, <1>6, <1>7, <2>2, <3>1
  <2>3. CASE b \in voted /\ b.voter # s
    <3>1. md'[b.voter] = md[b.voter]
      BY <1>0, <1>4, <1>7, <2>3 DEF TypeOK, PersisterType
    <3> QED BY <1>0, <1>4, <2>3, <3>1 DEF SavedVotes
  <2> QED BY <1>4, <2>1, <2>2, <2>3
<1>9. SavedState'
  <2> SUFFICES ASSUME NEW t \in Server, Up(t)'
               PROVE  /\ md'[t].term <= currentTerm'[t]
                      /\ md'[t].term = currentTerm'[t] => votedFor'[t] = md'[t].vote
    BY DEF SavedState
  <2>1. CASE t = s
    BY <1>0, <1>2, <1>4, <1>6, <2>1 DEF TypeOK, RaftType
  <2>2. CASE t # s
    BY <1>0, <1>4, <2>2 DEF TypeOK, RaftType, PersisterType, SavedState, Up
  <2> QED BY <2>1, <2>2
<1>10. OneVotePerTerm'
  <2> SUFFICES ASSUME NEW a \in voted', NEW b \in voted',
                      a.voter = b.voter, a.term = b.term, a.voter \notin metaLost'
               PROVE  a.cand = b.cand
    BY DEF OneVotePerTerm
  <2>1. CASE a \in voted /\ b \in voted
    BY <1>0, <1>4, <2>1 DEF OneVotePerTerm
  <2>2. CASE a \notin voted /\ b \in voted
    BY <1>2, <1>3, <1>4, <1>7, <2>2 DEF BallotOf
  <2>3. CASE a \in voted /\ b \notin voted
    BY <1>2, <1>3, <1>4, <1>7, <2>3 DEF BallotOf
  <2>4. CASE a \notin voted /\ b \notin voted
    BY <1>4, <2>4
  <2> QED BY <2>1, <2>2, <2>3, <2>4
<1>11. CountedVotes'
  <2> SUFFICES ASSUME NEW t \in Server, election'[t].pc = "collect", NEW v \in election'[t].votes
               PROVE  BallotOf(v, election'[t].term, t) \in voted'
    BY DEF CountedVotes
  <2>1. CASE t = s
    BY <1>4, <1>5, <2>1
  <2>2. CASE t # s
    BY <1>0, <1>4, <1>5, <2>2 DEF CountedVotes
  <2> QED BY <2>1, <2>2
<1>12. WonByMajority'
  BY <1>4, VotesStay
<1> QED BY <1>8, <1>9, <1>10, <1>11, <1>12 DEF ElectionInv
(* The wait on cv returns; the votes of the winner are a majority.         *)
LEMMA CountVotesStep ==
    ASSUME ElectionInv, TypeOK', NEW s \in Server, CountVotes(s)
    PROVE  ElectionInv'
<1>0. TypeOK /\ SavedVotes /\ SavedState /\ OneVotePerTerm /\ CountedVotes /\ WonByMajority
  BY DEF ElectionInv
<1>1. UNCHANGED <<proc, currentTerm, votedFor, md, voted, metaLost>>
  BY DEF CountVotes
<1>2. SavedVotes' /\ SavedState' /\ OneVotePerTerm'
  BY <1>0, <1>1 DEF SavedVotes, SavedState, OneVotePerTerm, Up
<1>3. CountedVotes'
  <2> SUFFICES ASSUME NEW t \in Server, election'[t].pc = "collect", NEW v \in election'[t].votes
               PROVE  BallotOf(v, election'[t].term, t) \in voted'
    BY DEF CountedVotes
  <2>1. t # s
    BY <1>0 DEF CountVotes, NoElection, TypeOK, ElectionType
  <2>2. election'[t] = election[t]
    BY <1>0, <2>1 DEF CountVotes, TypeOK, ElectionType
  <2> QED BY <1>0, <1>1, <2>2 DEF CountedVotes
<1>4. WonByMajority'
  <2> SUFFICES ASSUME NEW w \in elected'
               PROVE  \E Q \in SUBSET Server :
                         /\ IsMajority(Cardinality(Q))
                         /\ \A v \in Q : BallotOf(v, w.term, w.server) \in voted'
    BY DEF WonByMajority, IsMajority
  <2>1. CASE w \in elected
    BY <1>0, <1>1, <2>1 DEF WonByMajority
  <2>2. CASE w \notin elected
    <3>1. /\ w.server = s /\ w.term = election[s].term
          /\ IsMajority(Cardinality(election[s].votes)) /\ election[s].pc = "collect"
      BY <2>2 DEF CountVotes
    <3>2. election[s].votes \in SUBSET Server
      BY <1>0 DEF TypeOK, ElectionType
    <3>3. \A v \in election[s].votes : BallotOf(v, w.term, w.server) \in voted'
      BY <1>0, <1>1, <3>1 DEF CountedVotes
    <3> QED BY <3>1, <3>2, <3>3
  <2> QED BY <2>1, <2>2
<1> QED BY <1>2, <1>3, <1>4 DEF ElectionInv

LEMMA RestartStep ==
    ASSUME ElectionInv, TypeOK', NEW s \in Server, Restart(s)
    PROVE  ElectionInv'
<1>0. TypeOK /\ SavedVotes /\ SavedState /\ OneVotePerTerm
  BY DEF ElectionInv
<1>1. UNCHANGED <<md, election, voted, elected, metaLost>>
  BY DEF Restart, threadVars, historyVars
<1>2. SavedVotes' /\ OneVotePerTerm'
  BY <1>0, <1>1 DEF SavedVotes, OneVotePerTerm
<1>3. CountedVotes' /\ WonByMajority'
  BY <1>1 DEF ElectionInv, CountedVotes, WonByMajority
<1>4. SavedState'
  <2> SUFFICES ASSUME NEW t \in Server, Up(t)'
               PROVE  /\ md'[t].term <= currentTerm'[t]
                      /\ md'[t].term = currentTerm'[t] => votedFor'[t] = md'[t].vote
    BY DEF SavedState
  <2>1. CASE t = s
    <3>1. proc'[s] = "up"
      BY <2>1 DEF Up
    <3>2. Contiguous(chunks[s])
      BY <1>0, <3>1 DEF Restart, TypeOK, RaftType
    <3>3. currentTerm'[s] = md[s].term /\ votedFor'[s] = md[s].vote
      BY <1>0, <3>2 DEF Restart, TypeOK, RaftType
    <3>4. md[s].term \in Nat
      <4>1. md[s].term \in Term
        BY <1>0 DEF TypeOK, PersisterType
      <4> QED BY <4>1, BoundsAssumption DEF Term
    <3> QED BY <1>1, <2>1, <3>3, <3>4
  <2>2. CASE t # s
    BY <1>0, <1>1, <2>2, ZenonT(30) DEF Restart, TypeOK, RaftType, SavedState, Up
  <2> QED BY <2>1, <2>2
<1> QED BY <1>2, <1>3, <1>4 DEF ElectionInv

(* A call of an election returns, dies with its callee, or fails.          *)
LEMMA VoteCallsStep ==
    ASSUME ElectionInv, TypeOK', NEW s \in Server, NEW p \in Peers(s),
           \/ RequestVoteCall(s, p) \/ RequestVoteKilled(s, p) \/ RequestVoteFails(s, p)
    PROVE  ElectionInv'
<1>0. TypeOK /\ CountedVotes /\ p \in Server /\ p # s
  BY DEF ElectionInv, Peers
<1>1. ASSUME NEW granted, election'[s] = CallDone(election[s], p, granted),
             election'[s].pc = "collect"
      PROVE  /\ election[s].pc = "collect"
             /\ election'[s].term = election[s].term
             /\ election'[s].votes = IF granted THEN election[s].votes \cup {p}
                                     ELSE election[s].votes
  BY <1>0, <1>1 DEF CallDone, NoElection, TypeOK, ElectionType
<1>2. CASE RequestVoteCall(s, p)
  <2>1. PICK granted \in BOOLEAN :
          /\ RequestVote(p, VoteRequestOf(s, p), granted)
          /\ election' = [election EXCEPT ![s] = CallDone(@, p, granted)]
    BY <1>2 DEF RequestVoteCall
  <2>2. VoteRequestOf(s, p) \in VoteRequest
    BY <1>0, VoteRequestOfType
  <2>3. /\ VoteRequestOf(s, p).term = election[s].term
        /\ VoteRequestOf(s, p).cand = s
    BY DEF VoteRequestOf
  <2>4. Up(p)
    BY <1>2 DEF RequestVoteCall
  <2>5. /\ SavedVotes' /\ SavedState' /\ OneVotePerTerm' /\ WonByMajority'
        /\ voted \subseteq voted'
        /\ granted => BallotOf(p, election[s].term, s) \in voted'
    BY <1>0, <2>1, <2>2, <2>3, <2>4, RequestVoteStep
  <2>6. CountedVotes'
    <3> SUFFICES ASSUME NEW t \in Server, election'[t].pc = "collect", NEW v \in election'[t].votes
                 PROVE  BallotOf(v, election'[t].term, t) \in voted'
      BY DEF CountedVotes
    <3>1. CASE t = s
      <4>1. election'[s] = CallDone(election[s], p, granted)
        BY <1>0, <2>1 DEF TypeOK, ElectionType
      <4> QED BY <1>0, <1>1, <2>5, <3>1, <4>1 DEF CountedVotes
    <3>2. CASE t # s
      <4>1. election'[t] = election[t]
        BY <1>0, <2>1, <3>2 DEF TypeOK, ElectionType
      <4> QED BY <1>0, <2>5, <4>1 DEF CountedVotes
    <3> QED BY <3>1, <3>2
  <2> QED BY <2>5, <2>6 DEF ElectionInv
<1>3. CASE RequestVoteKilled(s, p)
  <2>1. /\ KilledInSave(p)
        /\ election' = [election EXCEPT ![p] = NoElection, ![s] = CallDone(@, p, FALSE)]
    BY <1>3 DEF RequestVoteKilled
  <2>2. /\ election'[p] = NoElection
        /\ election'[s] = CallDone(election[s], p, FALSE)
        /\ \A t \in Server \ {s, p} : election'[t] = election[t]
    BY <1>0, <2>1 DEF TypeOK, ElectionType
  <2>3. \A t \in Server \ {p} : election'[t].pc = "collect" =>
               /\ election[t].pc = "collect"
               /\ election'[t].term = election[t].term
               /\ election'[t].votes \subseteq election[t].votes
    BY <1>1, <2>2
  <2> QED BY <1>0, <2>1, <2>2, <2>3, KilledStep
<1>4. CASE RequestVoteFails(s, p)
  <2>1. /\ election' = [election EXCEPT ![s] = CallDone(@, p, FALSE)]
        /\ UNCHANGED <<proc, currentTerm, votedFor, md, elected, metaLost>>
    BY <1>4 DEF RequestVoteFails, raftVars, historyVars
  <2>2. voted' = voted
    BY <1>4 DEF RequestVoteFails, historyVars
  <2>3. CountedVotes'
    <3> SUFFICES ASSUME NEW t \in Server, election'[t].pc = "collect", NEW v \in election'[t].votes
                 PROVE  BallotOf(v, election'[t].term, t) \in voted'
      BY DEF CountedVotes
    <3>1. CASE t = s
      <4>1. election'[s] = CallDone(election[s], p, FALSE)
        BY <1>0, <2>1 DEF TypeOK, ElectionType
      <4>2. /\ election[s].pc = "collect" /\ election'[s].term = election[s].term
            /\ election'[s].votes = election[s].votes
        BY <1>1, <3>1, <4>1
      <4>3. BallotOf(v, election[s].term, s) \in voted
        BY <1>0, <3>1, <4>2 DEF CountedVotes
      <4> QED BY <2>2, <3>1, <4>2, <4>3
    <3>2. CASE t # s
      <4>1. election'[t] = election[t]
        BY <1>0, <2>1, <3>2 DEF TypeOK, ElectionType
      <4>2. BallotOf(v, election[t].term, t) \in voted
        BY <1>0, <4>1 DEF CountedVotes
      <4> QED BY <2>2, <4>1, <4>2
    <3> QED BY <3>1, <3>2
  <2> QED BY <2>1, <2>2, <2>3
         DEF ElectionInv, SavedVotes, SavedState, OneVotePerTerm, WonByMajority, Up
<1> QED BY <1>2, <1>3, <1>4

(* A vote given to a candidate that no longer waits for it.                *)
LEMMA LateVoteStep ==
    ASSUME ElectionInv, TypeOK', NEW m \in net, RequestVoteLate(m)
    PROVE  ElectionInv'
<1>1. TypeOK
  BY DEF ElectionInv
<1>2. m \in VoteRequest /\ m.to \in Server /\ Up(m.to)
  BY <1>1 DEF RequestVoteLate, TypeOK, HistoryType, VoteRequest, AppendRequest
<1>3. PICK granted \in BOOLEAN : RequestVote(m.to, m, granted)
  BY DEF RequestVoteLate
<1>4. SavedVotes' /\ SavedState' /\ OneVotePerTerm' /\ WonByMajority' /\ voted \subseteq voted'
  BY <1>2, <1>3, RequestVoteStep
<1>5. election' = election
  BY DEF RequestVoteLate
<1>6. CountedVotes'
  BY <1>4, <1>5 DEF ElectionInv, CountedVotes
<1> QED BY <1>4, <1>6 DEF ElectionInv

-----------------------------------------------------------------------------
(***************************************************************************)
(* The invariant.                                                          *)
(***************************************************************************)
LEMMA ElectionInit == Init => ElectionInv
<1> SUFFICES ASSUME Init
             PROVE  ElectionInv
  OBVIOUS
<1>1. TypeOK
  BY TypeInit
<1>2. voted = {} /\ elected = {}
  BY DEF Init
<1>3. SavedVotes /\ OneVotePerTerm /\ WonByMajority
  BY <1>2 DEF SavedVotes, OneVotePerTerm, WonByMajority
<1>4. SavedState
  BY DEF Init, SavedState, EmptyMeta
<1>5. CountedVotes
  BY DEF Init, CountedVotes, NoElection
<1> QED BY <1>1, <1>3, <1>4, <1>5 DEF ElectionInv

(* The step of one server, of a server and a peer, or of a late call.      *)
LEMMA ServerStep ==
    ASSUME ElectionInv, TypeOK', NEW s \in Server,
           \/ Kill(s) \/ Shutdown(s) \/ Restart(s)
           \/ ElectionTimeout(s) \/ StartElection(s) \/ StartElectionKilled(s)
           \/ CountVotes(s)
           \/ SendHeartBeats(s) \/ SendHeartBeatsAborts(s)
           \/ GatherForApply(s) \/ GatherForApplyAborts(s) \/ Applied(s)
    PROVE  ElectionInv'
<1>1. CASE Kill(s)
  BY <1>1, StopStep DEF Kill, ThreadsEnd, historyVars
<1>2. CASE Shutdown(s)
  BY <1>2, StopStep DEF Shutdown, ThreadsEnd, historyVars
<1>3. CASE Restart(s)
  BY <1>3, RestartStep
<1>4. CASE ElectionTimeout(s)
  BY <1>4, FrameStep DEF ElectionTimeout, threadVars, historyVars, electionVars
<1>5. CASE StartElection(s)
  BY <1>5, StartElectionStep
<1>6. CASE StartElectionKilled(s)
  <2>1. TypeOK
    BY DEF ElectionInv
  <2>2. election'[s] = NoElection /\ \A t \in Server \ {s} : election'[t] = election[t]
    BY <1>6, <2>1 DEF StartElectionKilled, ThreadsEnd, TypeOK, ElectionType
  <2>3. KilledInSave(s)
    BY <1>6 DEF StartElectionKilled
  <2> QED BY <2>2, <2>3, KilledStep
<1>7. CASE CountVotes(s)
  BY <1>7, CountVotesStep
<1>8. CASE SendHeartBeats(s)
  BY <1>8, FrameStep DEF SendHeartBeats, raftVars, threadVars, historyVars, electionVars
<1>9. CASE SendHeartBeatsAborts(s) \/ GatherForApplyAborts(s)
  BY <1>9, AbortStep DEF SendHeartBeatsAborts, GatherForApplyAborts
<1>10. CASE GatherForApply(s)
  BY <1>10, FrameStep DEF GatherForApply, raftVars, historyVars, electionVars
<1>11. CASE Applied(s)
  BY <1>11, FrameStep DEF Applied, historyVars, electionVars
<1> QED BY <1>1, <1>2, <1>3, <1>4, <1>5, <1>6, <1>7, <1>8, <1>9, <1>10, <1>11

LEMMA PeerStep ==
    ASSUME ElectionInv, TypeOK', NEW s \in Server, NEW p \in Peers(s),
           \/ RequestVoteCall(s, p) \/ RequestVoteKilled(s, p) \/ RequestVoteFails(s, p)
           \/ ReplicatorCheck(s, p) \/ ReplicatorSend(s, p) \/ ReplicatorSendAborts(s, p)
           \/ ReplicateCall(s, p) \/ ReplicateCallAborts(s, p) \/ ReplicateFails(s, p)
           \/ HandleAccepted(s, p) \/ HandleAcceptedAborts(s, p) \/ HandleRejected(s, p)
    PROVE  ElectionInv'
<1>0. p \in Server /\ TypeOK
  BY DEF Peers, ElectionInv
<1>1. CASE RequestVoteCall(s, p) \/ RequestVoteKilled(s, p) \/ RequestVoteFails(s, p)
  BY <1>1, VoteCallsStep
<1>2. CASE ReplicatorCheck(s, p)
  BY <1>2, FrameStep DEF ReplicatorCheck, raftVars, historyVars, electionVars
<1>3. CASE ReplicatorSend(s, p)
  BY <1>3, FrameStep DEF ReplicatorSend, raftVars, historyVars, electionVars
<1>4. CASE ReplicatorSendAborts(s, p) \/ HandleAcceptedAborts(s, p)
  BY <1>4, AbortStep DEF ReplicatorSendAborts, HandleAcceptedAborts
<1>5. CASE ReplicateCall(s, p)
  <2>1. repl[s][p].req \in AppendRequest
    BY <1>0, <1>5 DEF ReplicateCall, TypeOK, ReplicatorType
  <2>2. PICK success \in BOOLEAN : AppendEntries(p, repl[s][p].req, success)
    BY <1>5 DEF ReplicateCall
  <2>3. UNCHANGED election
    BY <1>5 DEF ReplicateCall
  <2> QED BY <1>0, <2>1, <2>2, <2>3, AppendEntriesStep
<1>6. CASE ReplicateCallAborts(s, p)
  <2>1. PICK why \in {"two leaders", "unexpected log"} : Stop(p, why)
    BY <1>6 DEF ReplicateCallAborts
  <2> QED BY <1>0, <1>6, <2>1, StopStep DEF ReplicateCallAborts, historyVars
<1>7. CASE ReplicateFails(s, p)
  BY <1>7, FrameStep DEF ReplicateFails, raftVars, historyVars, electionVars
<1>8. CASE HandleAccepted(s, p)
  BY <1>8, FrameStep DEF HandleAccepted, historyVars, electionVars
<1>9. CASE HandleRejected(s, p)
  BY <1>9, FrameStep DEF HandleRejected, historyVars, electionVars
<1> QED BY <1>1, <1>2, <1>3, <1>4, <1>5, <1>6, <1>7, <1>8, <1>9

LEMMA LateStep ==
    ASSUME ElectionInv, TypeOK', NEW m \in net,
           RequestVoteLate(m) \/ AppendEntriesLate(m) \/ AppendEntriesLateAborts(m)
    PROVE  ElectionInv'
<1>0. TypeOK
  BY DEF ElectionInv
<1>1. CASE RequestVoteLate(m)
  BY <1>1, LateVoteStep
<1>2. CASE AppendEntriesLate(m)
  <2>1. m \in AppendRequest /\ m.to \in Server
    BY <1>0, <1>2 DEF AppendEntriesLate, TypeOK, HistoryType, VoteRequest, AppendRequest
  <2>2. PICK success \in BOOLEAN : AppendEntries(m.to, m, success)
    BY <1>2 DEF AppendEntriesLate
  <2>3. UNCHANGED election
    BY <1>2 DEF AppendEntriesLate
  <2> QED BY <2>1, <2>2, <2>3, AppendEntriesStep
<1>3. CASE AppendEntriesLateAborts(m)
  <2>1. m.to \in Server
    BY <1>0, <1>3 DEF AppendEntriesLateAborts, TypeOK, HistoryType, VoteRequest, AppendRequest
  <2>2. PICK why \in {"two leaders", "unexpected log"} : Abort(m.to, why)
    BY <1>3 DEF AppendEntriesLateAborts
  <2> QED BY <2>1, <2>2, AbortStep
<1> QED BY <1>1, <1>2, <1>3

LEMMA ElectionStep == ElectionInv /\ [Next]_vars => ElectionInv'
<1> SUFFICES ASSUME ElectionInv, [Next]_vars
             PROVE  ElectionInv'
  OBVIOUS
<1>1. TypeOK'
  BY TypeStep DEF ElectionInv
<1>2. CASE UNCHANGED vars
  BY <1>1, <1>2, FrameStep DEF vars, raftVars, threadVars, historyVars, electionVars
<1>3. CASE \E s \in Server :
              \/ Kill(s) \/ Shutdown(s) \/ Restart(s)
              \/ ElectionTimeout(s) \/ StartElection(s) \/ StartElectionKilled(s)
              \/ CountVotes(s)
              \/ SendHeartBeats(s) \/ SendHeartBeatsAborts(s)
              \/ GatherForApply(s) \/ GatherForApplyAborts(s) \/ Applied(s)
  BY <1>1, <1>3, ServerStep
<1>4. CASE \E s \in Server, c \in Command : Start(s, c)
  BY <1>1, <1>4, FrameStep DEF Start, historyVars, electionVars
<1>5. CASE \E s \in Server : \E p \in Peers(s) :
              \/ RequestVoteCall(s, p) \/ RequestVoteKilled(s, p) \/ RequestVoteFails(s, p)
              \/ ReplicatorCheck(s, p) \/ ReplicatorSend(s, p) \/ ReplicatorSendAborts(s, p)
              \/ ReplicateCall(s, p) \/ ReplicateCallAborts(s, p) \/ ReplicateFails(s, p)
              \/ HandleAccepted(s, p) \/ HandleAcceptedAborts(s, p) \/ HandleRejected(s, p)
  BY <1>1, <1>5, PeerStep
<1>6. CASE \E m \in net :
              RequestVoteLate(m) \/ AppendEntriesLate(m) \/ AppendEntriesLateAborts(m)
  BY <1>1, <1>6, LateStep
<1> QED BY <1>2, <1>3, <1>4, <1>5, <1>6 DEF Next

LEMMA ElectionInvariant == Spec => []ElectionInv
BY ElectionInit, ElectionStep, PTL DEF Spec

(* What a step does to the history: nothing, one vote, one winner, or one  *)
(* more lost meta.dat.                                                     *)
Votes(v, t, c) == voted' = voted \cup {BallotOf(v, t, c)} /\ UNCHANGED <<elected, metaLost>>
Wins(c, t)     == elected' = elected \cup {[server |-> c, term |-> t]}
                  /\ UNCHANGED <<voted, metaLost>>
Loses(s)       == metaLost' = metaLost \cup {s} /\ UNCHANGED <<voted, elected>>

HistoryMove ==
    \/ UNCHANGED historyVars
    \/ \E v, c \in Server, t \in Term : Votes(v, t, c)
    \/ \E c \in Server, t \in Term : Wins(c, t)
    \/ \E s \in Server : Loses(s)

LEMMA RequestVoteMoves ==
    ASSUME NEW p \in Server, NEW m \in VoteRequest, NEW granted \in BOOLEAN,
           RequestVote(p, m, granted)
    PROVE  HistoryMove
<1>1. m.term \in Term /\ m.cand \in Server
  BY DEF VoteRequest
<1>2. Votes(p, m.term, m.cand) \/ UNCHANGED historyVars
  BY DEF RequestVote, Votes, BallotOf, historyVars
<1> QED BY <1>1, <1>2 DEF HistoryMove

LEMMA ServerMoves ==
    ASSUME TypeOK, TypeOK', NEW s \in Server,
           \/ Kill(s) \/ Shutdown(s) \/ Restart(s)
           \/ ElectionTimeout(s) \/ StartElection(s) \/ StartElectionKilled(s)
           \/ CountVotes(s)
           \/ SendHeartBeats(s) \/ SendHeartBeatsAborts(s)
           \/ GatherForApply(s) \/ GatherForApplyAborts(s) \/ Applied(s)
    PROVE  HistoryMove
<1>1. CASE Kill(s) \/ Shutdown(s) \/ Restart(s) \/ ElectionTimeout(s)
  BY <1>1 DEF Kill, Shutdown, Restart, ElectionTimeout, HistoryMove
<1>2. CASE StartElection(s)
  <2>1. currentTerm'[s] \in Term
    BY DEF TypeOK, RaftType
  <2>2. currentTerm'[s] = currentTerm[s] + 1
    BY <1>2 DEF StartElection, TypeOK, RaftType
  <2>3. Votes(s, currentTerm[s] + 1, s)
    BY <1>2 DEF StartElection, Votes, BallotOf
  <2> QED BY <2>1, <2>2, <2>3 DEF HistoryMove
<1>3. CASE StartElectionKilled(s)
  BY <1>3 DEF StartElectionKilled, KilledInSave, Loses, HistoryMove
<1>4. CASE CountVotes(s)
  <2>1. election[s].term \in Term
    BY DEF TypeOK, ElectionType
  <2>2. Wins(s, election[s].term) \/ UNCHANGED historyVars
    BY <1>4 DEF CountVotes, Wins, historyVars
  <2> QED BY <2>1, <2>2 DEF HistoryMove
<1>5. CASE SendHeartBeats(s) \/ GatherForApply(s) \/ Applied(s)
  BY <1>5 DEF SendHeartBeats, GatherForApply, Applied, HistoryMove
<1>6. CASE SendHeartBeatsAborts(s) \/ GatherForApplyAborts(s)
  BY <1>6 DEF SendHeartBeatsAborts, GatherForApplyAborts, Abort, HistoryMove
<1> QED BY <1>1, <1>2, <1>3, <1>4, <1>5, <1>6

LEMMA PeerMoves ==
    ASSUME TypeOK, NEW s \in Server, NEW p \in Peers(s),
           \/ RequestVoteCall(s, p) \/ RequestVoteKilled(s, p) \/ RequestVoteFails(s, p)
           \/ ReplicatorCheck(s, p) \/ ReplicatorSend(s, p) \/ ReplicatorSendAborts(s, p)
           \/ ReplicateCall(s, p) \/ ReplicateCallAborts(s, p) \/ ReplicateFails(s, p)
           \/ HandleAccepted(s, p) \/ HandleAcceptedAborts(s, p) \/ HandleRejected(s, p)
    PROVE  HistoryMove
<1>0. p \in Server
  BY DEF Peers
<1>1. CASE RequestVoteCall(s, p)
  <2>1. VoteRequestOf(s, p) \in VoteRequest
    BY <1>0, VoteRequestOfType
  <2> QED BY <1>0, <1>1, <2>1, RequestVoteMoves DEF RequestVoteCall
<1>2. CASE RequestVoteKilled(s, p)
  BY <1>0, <1>2 DEF RequestVoteKilled, KilledInSave, Loses, HistoryMove
<1>3. CASE RequestVoteFails(s, p) \/ ReplicatorCheck(s, p) \/ ReplicatorSend(s, p)
           \/ ReplicateCallAborts(s, p) \/ ReplicateFails(s, p)
  BY <1>3 DEF RequestVoteFails, ReplicatorCheck, ReplicatorSend, ReplicateCallAborts,
              ReplicateFails, HistoryMove
<1>4. CASE ReplicatorSendAborts(s, p) \/ HandleAcceptedAborts(s, p)
  BY <1>4 DEF ReplicatorSendAborts, HandleAcceptedAborts, Abort, HistoryMove
<1>5. CASE ReplicateCall(s, p)
  BY <1>5 DEF ReplicateCall, AppendEntries, HistoryMove
<1>6. CASE HandleAccepted(s, p) \/ HandleRejected(s, p)
  BY <1>6 DEF HandleAccepted, HandleRejected, HistoryMove
<1> QED BY <1>1, <1>2, <1>3, <1>4, <1>5, <1>6

LEMMA LateMoves ==
    ASSUME TypeOK, NEW m \in net,
           RequestVoteLate(m) \/ AppendEntriesLate(m) \/ AppendEntriesLateAborts(m)
    PROVE  HistoryMove
<1>1. CASE RequestVoteLate(m)
  <2>1. m \in VoteRequest /\ m.to \in Server
    BY <1>1 DEF RequestVoteLate, TypeOK, HistoryType, VoteRequest, AppendRequest
  <2> QED BY <1>1, <2>1, RequestVoteMoves DEF RequestVoteLate
<1>2. CASE AppendEntriesLate(m)
  BY <1>2 DEF AppendEntriesLate, AppendEntries, HistoryMove
<1>3. CASE AppendEntriesLateAborts(m)
  BY <1>3 DEF AppendEntriesLateAborts, Abort, HistoryMove
<1> QED BY <1>1, <1>2, <1>3

LEMMA StepMoves ==
    ASSUME TypeOK, [Next]_vars
    PROVE  HistoryMove
<1>1. TypeOK'
  BY TypeStep
<1>2. CASE UNCHANGED vars
  BY <1>2 DEF vars, HistoryMove
<1>3. CASE \E s \in Server, c \in Command : Start(s, c)
  BY <1>3 DEF Start, HistoryMove
<1> QED BY <1>1, <1>2, <1>3, ServerMoves, PeerMoves, LateMoves DEF Next

-----------------------------------------------------------------------------
(***************************************************************************)
(* The theorems.                                                           *)
(***************************************************************************)
(* requestVote and async_startElection give one vote in a term, across     *)
(* restarts, unless saveTermAndVote was cut off by a kill.                 *)
THEOREM VotesOnce == Spec => []OneVotePerTerm
BY ElectionInvariant, PTL DEF ElectionInv

LEMMA MajoritiesMeet ==
    ASSUME NEW P \in SUBSET Server, NEW Q \in SUBSET Server,
           IsMajority(Cardinality(P)), IsMajority(Cardinality(Q))
    PROVE  P \cap Q # {}
<1>1. /\ Cardinality(P) \in Nat /\ Cardinality(Q) \in Nat /\ Cardinality(Server) \in Nat
  BY ServerAssumption, FS_Subset, FS_CardinalityType
<1>2. Cardinality(P) + Cardinality(Q) > Cardinality(Server)
  BY <1>1 DEF IsMajority
<1> QED BY <1>2, ServerAssumption, FS_MajoritiesIntersect

LEMMA WinnersUnique == ElectionInv => UniqueWinners
<1> SUFFICES ASSUME ElectionInv, metaLost = {}, NEW a \in elected, NEW b \in elected,
                    a.term = b.term
             PROVE  a.server = b.server
  BY DEF UniqueWinners
<1>1. PICK P \in SUBSET Server :
        /\ IsMajority(Cardinality(P))
        /\ \A v \in P : BallotOf(v, a.term, a.server) \in voted
  BY DEF ElectionInv, WonByMajority
<1>2. PICK Q \in SUBSET Server :
        /\ IsMajority(Cardinality(Q))
        /\ \A v \in Q : BallotOf(v, b.term, b.server) \in voted
  BY DEF ElectionInv, WonByMajority
<1>3. PICK v \in Server : v \in P /\ v \in Q
  BY <1>1, <1>2, MajoritiesMeet
<1>4. BallotOf(v, a.term, a.server) \in voted /\ BallotOf(v, a.term, b.server) \in voted
  BY <1>1, <1>2, <1>3
<1> QED BY <1>4 DEF ElectionInv, OneVotePerTerm, BallotOf

(* Two candidates never both count a majority of the votes of one term.    *)
THEOREM WinnersAreUnique == Spec => []UniqueWinners
BY ElectionInvariant, WinnersUnique, PTL

(* Only StartElection begins to collect votes.                             *)
LEMMA CollectsAfterStart ==
    ASSUME TypeOK, Next, NEW s \in Server,
           election[s].pc = "idle", election'[s].pc = "collect"
    PROVE  StartElection(s)
<1>1. ASSUME NEW t \in Server, NEW p \in Server, NEW granted,
             election' = [election EXCEPT ![t] = CallDone(@, p, granted)]
      PROVE  FALSE
  BY <1>1 DEF CallDone, NoElection, TypeOK, ElectionType
<1>2. ASSUME NEW t \in Server, election' = [election EXCEPT ![t] = NoElection]
      PROVE  FALSE
  BY <1>2 DEF NoElection, TypeOK, ElectionType
<1>3. election' # election
  OBVIOUS
<1>4. CASE \E t \in Server :
              \/ Kill(t) \/ Shutdown(t) \/ StartElectionKilled(t)
              \/ SendHeartBeatsAborts(t) \/ GatherForApplyAborts(t)
  BY <1>2, <1>4 DEF Kill, Shutdown, StartElectionKilled, SendHeartBeatsAborts,
                    GatherForApplyAborts, Abort, ThreadsEnd
<1>5. CASE \E t \in Server :
              \/ Restart(t) \/ ElectionTimeout(t) \/ SendHeartBeats(t) \/ GatherForApply(t)
              \/ Applied(t)
  BY <1>3, <1>5 DEF Restart, ElectionTimeout, SendHeartBeats, GatherForApply, Applied, threadVars
<1>6. CASE \E t \in Server : StartElection(t)
  BY <1>6 DEF StartElection, TypeOK, ElectionType
<1>7. CASE \E t \in Server : CountVotes(t)
  BY <1>7 DEF CountVotes, NoElection, TypeOK, ElectionType
<1>8. CASE \E t \in Server, c \in Command : Start(t, c)
  BY <1>3, <1>8 DEF Start
<1>9. CASE \E t \in Server : \E p \in Peers(t) :
              \/ ReplicatorCheck(t, p) \/ ReplicatorSend(t, p) \/ ReplicateCall(t, p)
              \/ ReplicateFails(t, p) \/ HandleAccepted(t, p) \/ HandleRejected(t, p)
  BY <1>3, <1>9 DEF ReplicatorCheck, ReplicatorSend, ReplicateCall, ReplicateFails,
                    HandleAccepted, HandleRejected
<1>10. CASE \E t \in Server : \E p \in Peers(t) :
              \/ ReplicatorSendAborts(t, p) \/ ReplicateCallAborts(t, p)
              \/ HandleAcceptedAborts(t, p)
  BY <1>2, <1>10 DEF ReplicatorSendAborts, ReplicateCallAborts, HandleAcceptedAborts, Abort,
                     ThreadsEnd, Peers
<1>11. CASE \E t \in Server : \E p \in Peers(t) : RequestVoteCall(t, p) \/ RequestVoteFails(t, p)
  BY <1>1, <1>11 DEF RequestVoteCall, RequestVoteFails, Peers
<1>12. CASE \E t \in Server : \E p \in Peers(t) : RequestVoteKilled(t, p)
  <2>1. PICK t \in Server : \E p \in Peers(t) : RequestVoteKilled(t, p)
    BY <1>12
  <2>2. PICK p \in Peers(t) : RequestVoteKilled(t, p)
    BY <2>1
  <2>3. election' = [election EXCEPT ![p] = NoElection, ![t] = CallDone(@, p, FALSE)]
    BY <2>2 DEF RequestVoteKilled
  <2> QED BY <2>3 DEF CallDone, NoElection, TypeOK, ElectionType, Peers
<1>13. CASE \E m \in net : RequestVoteLate(m) \/ AppendEntriesLate(m)
  BY <1>3, <1>13 DEF RequestVoteLate, AppendEntriesLate
<1>14. CASE \E m \in net : AppendEntriesLateAborts(m)
  <2>1. PICK m \in net : AppendEntriesLateAborts(m)
    BY <1>14
  <2>2. m.to \in Server
    BY <2>1 DEF AppendEntriesLateAborts, TypeOK, HistoryType, VoteRequest, AppendRequest
  <2> QED BY <1>2, <2>1, <2>2 DEF AppendEntriesLateAborts, Abort, ThreadsEnd
<1> QED BY <1>4, <1>5, <1>6, <1>7, <1>8, <1>9, <1>10, <1>11, <1>12, <1>13, <1>14 DEF Next

LEMMA CampaignStep ==
    ASSUME ElectionInv, [Next]_vars, NEW s \in Server,
           election[s].pc = "idle", election'[s].pc = "collect", s \notin metaLost,
           NEW b \in voted, b.voter = s
    PROVE  b.term < election'[s].term
<1>1. TypeOK
  BY DEF ElectionInv
<1>2. StartElection(s)
  BY <1>1, CollectsAfterStart DEF vars, threadVars
<1>3. Up(s) /\ election'[s].term = currentTerm[s] + 1
  BY <1>1, <1>2 DEF StartElection, MayStartElection, TypeOK, ElectionType
<1> QED BY <1>3, NewTerm

(* async_startElection campaigns above every vote the server has given.    *)
THEOREM CampaignsAreNew == Spec => CampaignsInNewTerms
<1>1. ElectionInv /\ [Next]_vars =>
        [\A s \in Server :
            election[s].pc = "idle" /\ election'[s].pc = "collect" /\ s \notin metaLost =>
               \A b \in voted : b.voter = s => b.term < election'[s].term]_vars
  BY CampaignStep
<1> QED BY <1>1, ElectionInvariant, PTL DEF Spec, CampaignsInNewTerms

LEMMA VotingInit == Init => Ballots!Init
BY DEF Init, Ballots!Init

LEMMA VotingStep ==
    ASSUME ElectionInv, ElectionInv', [Next]_vars
    PROVE  [Ballots!Next]_(Ballots!vars)
<1>1. HistoryMove
  BY StepMoves DEF ElectionInv
<1>2. CASE UNCHANGED historyVars
  BY <1>2 DEF historyVars, Ballots!vars
<1>3. CASE \E v, c \in Server, t \in Term : Votes(v, t, c)
  <2>1. PICK v \in Server, c \in Server, t \in Term : Votes(v, t, c)
    BY <1>3
  <2>2. BallotOf(v, t, c) \in voted' /\ metaLost' = metaLost /\ voted \subseteq voted'
    BY <2>1 DEF Votes
  <2>3. ASSUME v \notin metaLost, NEW b \in voted, b.voter = v, b.term = t
        PROVE  b.cand = c
    BY <2>2, <2>3 DEF ElectionInv, OneVotePerTerm, BallotOf
  <2>4. Ballots!Vote(v, t, c)
    BY <2>1, <2>3 DEF Votes, BallotOf, Ballots!Vote, Ballots!MayVote
  <2> QED BY <2>4 DEF Ballots!Next
<1>4. CASE \E c \in Server, t \in Term : Wins(c, t)
  <2>1. PICK c \in Server, t \in Term : Wins(c, t)
    BY <1>4
  <2>2. [server |-> c, term |-> t] \in elected' /\ voted' = voted
    BY <2>1 DEF Wins
  <2>3. \E Q \in SUBSET Server :
           /\ IsMajority(Cardinality(Q))
           /\ \A v \in Q : BallotOf(v, t, c) \in voted
    BY <2>2 DEF ElectionInv, WonByMajority, IsMajority
  <2>4. ASSUME NEW Q
        PROVE  Ballots!Cardinality(Q) = Cardinality(Q)
    BY DEF Cardinality, Ballots!Cardinality
  <2>5. Ballots!Win(c, t)
    BY <2>1, <2>3, <2>4 DEF Wins, BallotOf, IsMajority, Ballots!Win, Ballots!Majority
  <2> QED BY <2>5 DEF Ballots!Next
<1>5. CASE \E s \in Server : Loses(s)
  BY <1>5 DEF Loses, Ballots!Next, Ballots!Forget
<1> QED BY <1>1, <1>2, <1>3, <1>4, <1>5 DEF HistoryMove

(* The elections of raft.cpp, with their threads, late calls and restarts, *)
(* implement Voting.                                                       *)
THEOREM ElectionsImplementVoting == Spec => ImplementsVoting
<1>1. ElectionInv /\ ElectionInv' /\ [Next]_vars => [Ballots!Next]_(Ballots!vars)
  BY VotingStep
<1> QED BY <1>1, VotingInit, ElectionInvariant, PTL DEF Spec, ImplementsVoting
=============================================================================
