-------------------------------- MODULE Raft --------------------------------
(***************************************************************************)
(* RaftHandler (raft.cpp) on every server of one group, with the Persister *)
(* it saves through and the RPCs between the servers.                      *)
(*                                                                         *)
(* Every section of code that holds raftLock_ is one action; the threads   *)
(* of a server interleave between their sections.  An RPC is a call: the   *)
(* caller's thread blocks until the reply or a TException.  A call that    *)
(* ended in a TException may still be executed later: it is then in `net'. *)
(* Time is not modelled, so a timeout may fire at any moment.              *)
(*                                                                         *)
(* Operators named Mutant... are no part of the specification: each is the *)
(* operator after it with a plausible bug, that a property must catch.     *)
(***************************************************************************)
EXTENDS RaftLog

CONSTANTS
    Server,
    NoHost,        \* NULL_HOST
    NoRequest,     \* a replicator thread with no call under way
    MaxLate,       \* bound: calls given up by their callers and still on the wire
    MaxFaults      \* bound: kills, shutdowns, restarts and failed calls

ASSUME ServerAssumption ==
    /\ IsFiniteSet(Server)
    /\ NoHost \notin Server

VARIABLES
    \* members of RaftHandler, lost with the process
    proc,          \* "up", or why the process is not running
    currentTerm, votedFor, state, logs,
    commitIndex, lastApplied,
    nextIndex, matchIndex,
    logBuf, lastInBufLogId,     \* of its Persister
    \* files
    md,            \* meta.dat: the last saved term and vote
    chunks,        \* logChunks/: the entries of the chunk files, in order
    \* threads
    election,      \* the one thread inside async_startElection
    repl,          \* async_replicateLogTo, one thread for each peer
    applier,       \* async_applyMsg
    net,           \* calls on the wire whose caller has gone
    \* history
    faults,        \* kills, shutdowns, restarts and failed calls so far
    voted,         \* ballots: every vote granted
    elected,       \* every switchToLeader
    metaLost       \* servers killed while they replaced meta.dat

raftVars      == <<currentTerm, votedFor, state, logs, commitIndex, lastApplied, nextIndex, matchIndex>>
persisterVars == <<logBuf, lastInBufLogId, chunks>>
threadVars    == <<election, repl, applier>>
historyVars   == <<voted, elected, metaLost>>
vars == <<proc, raftVars, persisterVars, md, threadVars, net, faults, historyVars>>

FOLLOWER == "FOLLOWER"
CANDIDATE == "CANDIDATE"
LEADER == "LEADER"

Up(s)    == proc[s] = "up"
Peers(s) == Server \ {s}
Ballot   == [voter: Server, term: Term, cand: Server]
EmptyMeta == [term |-> 0, vote |-> NoHost]

VoteRequest ==
    [type: {"RV"}, to: Server, term: Term, cand: Server, lastLogIndex: Nat, lastLogTerm: Term]
AppendRequest ==
    [type: {"AE"}, to: Server, term: Term, leader: Server, prevLogIndex: Nat, prevLogTerm: Term,
     leaderCommit: Nat, entries: Seq(Entry)]

NoElection == [pc |-> "idle", term |-> 0, lastLogIndex |-> 0, lastLogTerm |-> 0,
               pending |-> {}, votes |-> {}]
Replicator(pc) == [pc |-> pc, req |-> NoRequest]
IdleApplier == [pc |-> "idle", queue |-> <<>>]

Init ==
    /\ proc = [s \in Server |-> "up"]
    /\ currentTerm = [s \in Server |-> 0]
    /\ votedFor = [s \in Server |-> NoHost]
    /\ state = [s \in Server |-> FOLLOWER]
    /\ logs = [s \in Server |-> <<>>]
    /\ commitIndex = [s \in Server |-> 0]
    /\ lastApplied = [s \in Server |-> 0]
    /\ nextIndex = [s \in Server |-> [p \in Server |-> 0]]
    /\ matchIndex = [s \in Server |-> [p \in Server |-> 0]]
    /\ logBuf = [s \in Server |-> <<>>]
    /\ lastInBufLogId = [s \in Server |-> 0]
    /\ md = [s \in Server |-> EmptyMeta]
    /\ chunks = [s \in Server |-> <<>>]
    /\ election = [s \in Server |-> NoElection]
    /\ repl = [s \in Server |-> [p \in Server |-> Replicator("idle")]]
    /\ applier = [s \in Server |-> IdleApplier]
    /\ net = {}
    /\ faults = 0
    /\ voted = {}
    /\ elected = {}
    /\ metaLost = {}
-----------------------------------------------------------------------------
(***************************************************************************)
(* The end of a process: killed, or a LOG(FATAL), or an undefined read.    *)
(* Its memory is gone and so are the calls it had not begun to execute;    *)
(* of its own calls those that had left may still be executed.             *)
(***************************************************************************)
VoteRequestOf(s, p) ==
    [type |-> "RV", to |-> p, term |-> election[s].term, cand |-> s,
     lastLogIndex |-> election[s].lastLogIndex, lastLogTerm |-> election[s].lastLogTerm]

OwnCalls(s) ==
    {VoteRequestOf(s, p) : p \in election[s].pending}
    \cup {repl[s][p].req : p \in {q \in Peers(s) : repl[s][q].pc = "sent"}}

Stop(s, why) ==
    /\ proc' = [proc EXCEPT ![s] = why]
    /\ currentTerm' = [currentTerm EXCEPT ![s] = 0]
    /\ votedFor' = [votedFor EXCEPT ![s] = NoHost]
    /\ state' = [state EXCEPT ![s] = FOLLOWER]
    /\ logs' = [logs EXCEPT ![s] = <<>>]
    /\ commitIndex' = [commitIndex EXCEPT ![s] = 0]
    /\ lastApplied' = [lastApplied EXCEPT ![s] = 0]
    /\ nextIndex' = [nextIndex EXCEPT ![s] = [p \in Server |-> 0]]
    /\ matchIndex' = [matchIndex EXCEPT ![s] = [p \in Server |-> 0]]
    /\ logBuf' = [logBuf EXCEPT ![s] = <<>>]
    /\ lastInBufLogId' = [lastInBufLogId EXCEPT ![s] = 0]
    /\ applier' = [applier EXCEPT ![s] = IdleApplier]
    /\ \E left \in SUBSET {m \in OwnCalls(s) : Up(m.to)} :
          /\ net' = {m \in net : m.to # s} \cup left
          /\ left # {} => Cardinality(net') <= MaxLate

ThreadsEnd(s) ==
    /\ election' = [election EXCEPT ![s] = NoElection]
    /\ repl' = [repl EXCEPT ![s] = [p \in Server |-> Replicator("idle")]]

\* A LOG(FATAL) or an undefined read in a section of s that touches no file.
Abort(s, why) ==
    /\ Stop(s, why)
    /\ ThreadsEnd(s)
    /\ UNCHANGED <<md, chunks, faults, historyVars>>

\* SIGKILL, which is how the tests and the scripts stop a server.
Kill(s) ==
    /\ Up(s)
    /\ faults < MaxFaults
    /\ faults' = faults + 1
    /\ Stop(s, "down")
    /\ ThreadsEnd(s)
    /\ UNCHANGED <<md, chunks, historyVars>>

\* The destructors of RaftHandler and Persister, which flush the log buffer.
Shutdown(s) ==
    /\ Up(s)
    /\ faults < MaxFaults
    /\ faults' = faults + 1
    /\ chunks' = [chunks EXCEPT ![s] = @ \o logBuf[s]]
    /\ Stop(s, "down")
    /\ ThreadsEnd(s)
    /\ UNCHANGED <<md, historyVars>>

\* Persister::saveTermAndVote, when the process lives on.
MutantSaveTermAndVote(s, term, voteFor) == md' = [md EXCEPT ![s].vote = voteFor]

SaveTermAndVote(s, term, voteFor) ==
    md' = [md EXCEPT ![s] = [term |-> term, vote |-> voteFor]]

(***************************************************************************)
(* saveTermAndVote renames the temporary file over meta.dat before the     *)
(* stream's buffer is written to it (the stream is destroyed, and so       *)
(* flushed, at the end of the function).  A kill in between leaves an      *)
(* empty meta.dat, which the next start reads as term 0 and no vote.       *)
(***************************************************************************)
KilledInSave(s) ==
    /\ faults < MaxFaults
    /\ faults' = faults + 1
    /\ md' = [md EXCEPT ![s] = EmptyMeta]
    /\ metaLost' = metaLost \cup {s}
    /\ Stop(s, "down")
    /\ UNCHANGED <<chunks, voted, elected>>

\* The constructors of Persister and RaftHandler.
Restart(s) ==
    /\ ~Up(s)
    /\ faults < MaxFaults
    /\ faults' = faults + 1
    /\ IF Contiguous(chunks[s])
       THEN /\ proc' = [proc EXCEPT ![s] = "up"]
            /\ currentTerm' = [currentTerm EXCEPT ![s] = md[s].term]
            /\ votedFor' = [votedFor EXCEPT ![s] = md[s].vote]
            /\ logs' = [logs EXCEPT ![s] = chunks[s]]
            /\ lastInBufLogId' = [lastInBufLogId EXCEPT ![s] = LastIndex(chunks[s])]
       ELSE /\ proc' = [proc EXCEPT ![s] = "invalid log sequence"]
            /\ UNCHANGED <<currentTerm, votedFor, logs, lastInBufLogId>>
    /\ UNCHANGED <<state, commitIndex, lastApplied, nextIndex, matchIndex, logBuf, chunks, md,
                   threadVars, net, historyVars>>
-----------------------------------------------------------------------------
(***************************************************************************)
(* Elections.                                                              *)
(***************************************************************************)
\* async_checkLeaderStatus finds the leader silent for too long.
ElectionTimeout(s) ==
    /\ Up(s)
    /\ state[s] = FOLLOWER
    /\ state' = [state EXCEPT ![s] = CANDIDATE]
    /\ UNCHANGED <<proc, currentTerm, votedFor, logs, commitIndex, lastApplied, nextIndex,
                   matchIndex, persisterVars, md, threadVars, net, faults, historyVars>>

MayStartElection(s) ==
    /\ Up(s)
    /\ election[s].pc = "idle"
    /\ state[s] = CANDIDATE
    /\ currentTerm[s] < MaxTerm

(***************************************************************************)
(* async_startElection up to the calls.  switchToCandidate starts a thread *)
(* at every timeout of a candidate, so one is always there to find         *)
(* inElection_ false.                                                      *)
(***************************************************************************)
StartElection(s) ==
    /\ MayStartElection(s)
    /\ LET term == currentTerm[s] + 1
       IN /\ currentTerm' = [currentTerm EXCEPT ![s] = term]
          /\ votedFor' = [votedFor EXCEPT ![s] = s]
          /\ SaveTermAndVote(s, term, s)
          /\ voted' = voted \cup {[voter |-> s, term |-> term, cand |-> s]}
          /\ election' = [election EXCEPT ![s] =
                [pc |-> "collect", term |-> term, lastLogIndex |-> LastIndex(logs[s]),
                 lastLogTerm |-> LastTerm(logs[s]), pending |-> Peers(s), votes |-> {s}]]
    /\ UNCHANGED <<proc, state, logs, commitIndex, lastApplied, nextIndex, matchIndex,
                   persisterVars, repl, applier, net, faults, elected, metaLost>>

StartElectionKilled(s) ==
    /\ MayStartElection(s)
    /\ KilledInSave(s)
    /\ ThreadsEnd(s)

MutantGrants(p, m) == m.term >= currentTerm[p]

\* The tests of requestVote that end in a return.  The comparison of the logs only logs.
Grants(p, m) ==
    \/ m.term > currentTerm[p]
    \/ m.term = currentTerm[p] /\ votedFor[p] \in {NoHost, m.cand}

\* requestVote on p, to its reply.
RequestVote(p, m, granted) ==
    /\ granted = Grants(p, m)
    /\ IF granted
       THEN /\ currentTerm' = [currentTerm EXCEPT ![p] = m.term]
            /\ state' = [state EXCEPT ![p] = IF m.term > currentTerm[p] THEN FOLLOWER ELSE @]
            /\ votedFor' = [votedFor EXCEPT ![p] = m.cand]
            /\ SaveTermAndVote(p, m.term, m.cand)
            /\ voted' = voted \cup {[voter |-> p, term |-> m.term, cand |-> m.cand]}
       ELSE UNCHANGED <<currentTerm, state, votedFor, md, voted>>
    /\ UNCHANGED <<proc, logs, commitIndex, lastApplied, nextIndex, matchIndex, persisterVars,
                   repl, applier, faults, elected, metaLost>>

(***************************************************************************)
(* One of the calling threads of s is done.  While the election thread     *)
(* waits on cv a vote counts; once it only joins its threads the votes are *)
(* not looked at, and after the last of them inElection_ is cleared.       *)
(***************************************************************************)
MutantCallDone(e, p, granted) ==
    IF e.pc = "join" /\ e.pending = {p} THEN NoElection
    ELSE [e EXCEPT !.pending = @ \ {p}, !.votes = @ \cup {p}]

CallDone(e, p, granted) ==
    IF e.pc = "join" /\ e.pending = {p} THEN NoElection
    ELSE [e EXCEPT !.pending = @ \ {p},
                   !.votes = IF granted /\ e.pc = "collect" THEN @ \cup {p} ELSE @]

\* The call of s to p returns; the calling thread counts the vote.
RequestVoteCall(s, p) ==
    /\ Up(s) /\ Up(p)
    /\ p \in election[s].pending
    /\ \E granted \in BOOLEAN :
          /\ RequestVote(p, VoteRequestOf(s, p), granted)
          /\ election' = [election EXCEPT ![s] = CallDone(@, p, granted)]
    /\ UNCHANGED net

RequestVoteLate(m) ==
    /\ m \in net /\ m.type = "RV"
    /\ Up(m.to)
    /\ \E granted \in BOOLEAN : RequestVote(m.to, m, granted)
    /\ net' = net \ {m}
    /\ UNCHANGED election

\* p is killed while it saves the vote s asked for; s sees its call fail.
RequestVoteKilled(s, p) ==
    /\ Up(s) /\ Up(p)
    /\ p \in election[s].pending
    /\ Grants(p, VoteRequestOf(s, p))
    /\ KilledInSave(p)
    /\ election' = [election EXCEPT ![p] = NoElection, ![s] = CallDone(@, p, FALSE)]
    /\ repl' = [repl EXCEPT ![p] = [q \in Server |-> Replicator("idle")]]

(***************************************************************************)
(* A call to p ends in a TException: p is down, or the call is lost, or it *)
(* timed out and will be late.                                             *)
(***************************************************************************)
CallFails(p, m) ==
    \/ ~Up(p) /\ UNCHANGED <<net, faults>>
    \/ /\ Up(p)
       /\ faults < MaxFaults
       /\ faults' = faults + 1
       /\ \/ UNCHANGED net
          \/ net' = net \cup {m} /\ Cardinality(net') <= MaxLate

\* The calling thread catches the exception and counts no vote.
RequestVoteFails(s, p) ==
    /\ Up(s)
    /\ p \in election[s].pending
    /\ election' = [election EXCEPT ![s] = CallDone(@, p, FALSE)]
    /\ CallFails(p, VoteRequestOf(s, p))
    /\ UNCHANGED <<proc, raftVars, persisterVars, md, repl, applier, historyVars>>

MutantIsMajority(n) == n >= Cardinality(Server) \div 2

IsMajority(n) == n > Cardinality(Server) \div 2

\* The wait on cv returns, and a candidate with a majority becomes leader.
CountVotes(s) ==
    /\ Up(s)
    /\ election[s].pc = "collect"
    /\ IsMajority(Cardinality(election[s].votes)) \/ election[s].pending = {}
    /\ election' = [election EXCEPT ![s] =
          IF @.pending = {} THEN NoElection ELSE [@ EXCEPT !.pc = "join", !.votes = {}]]
    /\ IF IsMajority(Cardinality(election[s].votes)) /\ state[s] = CANDIDATE
       THEN /\ state' = [state EXCEPT ![s] = LEADER]
            /\ nextIndex' = [nextIndex EXCEPT ![s] = [p \in Server |-> LastIndex(logs[s]) + 1]]
            /\ matchIndex' = [matchIndex EXCEPT ![s] = [p \in Server |-> 0]]
            /\ elected' = elected \cup {[server |-> s, term |-> election[s].term]}
       ELSE UNCHANGED <<state, nextIndex, matchIndex, elected>>
    /\ UNCHANGED <<proc, currentTerm, votedFor, logs, commitIndex, lastApplied, persisterVars,
                   md, repl, applier, net, faults, voted, metaLost>>
-----------------------------------------------------------------------------
(***************************************************************************)
(* Replication.  A notify of a condition variable reaches only threads     *)
(* that already wait; an idle thread may not have reached its wait, so     *)
(* each notify wakes any of the idle threads, or none.                     *)
(***************************************************************************)
\* saveLogs: a flush may come before any of the entries it adds to the buffer.
SaveLogs(s, saved) ==
    IF saved = <<>> THEN UNCHANGED persisterVars
    ELSE /\ lastInBufLogId' = [lastInBufLogId EXCEPT ![s] = saved[Len(saved)].index]
         /\ \E flushed \in 0..Len(saved) :
               IF flushed = 0
               THEN /\ logBuf' = [logBuf EXCEPT ![s] = @ \o saved]
                    /\ UNCHANGED chunks
               ELSE /\ chunks' = [chunks EXCEPT ![s] =
                          @ \o logBuf[s] \o SubSeq(saved, 1, flushed - 1)]
                    /\ logBuf' = [logBuf EXCEPT ![s] = SubSeq(saved, flushed, Len(saved))]

WakeApplier(s) ==
    \/ UNCHANGED applier
    \/ /\ applier[s].pc = "idle"
       /\ applier' = [applier EXCEPT ![s].pc = "gather"]

MutantCommitAdvances(s, newIndex) == newIndex # commitIndex[s]

CommitAdvances(s, newIndex) == newIndex > commitIndex[s]

\* updateCommitIndex, where `log' is logs_; it survives if every saved read does.
UpdateCommitIndex(s, log, newIndex) ==
    IF CommitAdvances(s, newIndex)
    THEN /\ commitIndex' = [commitIndex EXCEPT ![s] = newIndex]
         /\ WakeApplier(s)
         /\ \E mem \in MemoryFor(SaveUndefined(log, lastInBufLogId[s], newIndex)) :
               LET saved == SavedEntries(log, lastInBufLogId[s], newIndex, mem)
               IN /\ \A k \in DOMAIN saved : saved[k] # NoEntry
                  /\ SaveLogs(s, saved)
    ELSE UNCHANGED <<commitIndex, applier, persisterVars>>

UpdateCommitIndexDies(s, log, newIndex) ==
    CommitAdvances(s, newIndex) /\ SaveUndefined(log, lastInBufLogId[s], newIndex)

\* start: the command of a client.
Start(s, c) ==
    /\ Up(s)
    /\ state[s] = LEADER
    /\ LastIndex(logs[s]) < MaxLogIndex
    /\ logs' = [logs EXCEPT ![s] =
          Append(@, [index |-> LastIndex(@) + 1, term |-> currentTerm[s], command |-> c])]
    /\ \E woken \in SUBSET {p \in Peers(s) : repl[s][p].pc = "idle"} :
          repl' = [repl EXCEPT ![s] =
             [p \in Server |-> IF p \in woken THEN Replicator("check") ELSE repl[s][p]]]
    /\ UNCHANGED <<proc, currentTerm, votedFor, state, commitIndex, lastApplied, nextIndex,
                   matchIndex, persisterVars, md, election, applier, net, faults, historyVars>>

\* buildAppendEntriesParamsFor, once the previous entry has been read.
ParamsFor(s, p, prev, entries) ==
    [type |-> "AE", to |-> p, term |-> currentTerm[s], leader |-> s,
     prevLogIndex |-> prev.index, prevLogTerm |-> prev.term,
     leaderCommit |-> commitIndex[s], entries |-> entries]

ReadPrev(s, p, mem) == PrevOf(logs[s], nextIndex[s][p], mem)
PrevMemory(s, p) ==
    MemoryFor(/\ ReadsPrev(logs[s], nextIndex[s][p])
              /\ PastEnd(logs[s], nextIndex[s][p] - 1))

(***************************************************************************)
(* One round of async_sendHeartBeats to the peers in `reached'; the calls  *)
(* to the others are lost.  The replies are not looked at, so each call is *)
(* on its own from here on.                                                *)
(***************************************************************************)
SendHeartBeats(s) ==
    /\ Up(s)
    /\ state[s] = LEADER
    /\ \E mem \in UNION {PrevMemory(s, p) : p \in Peers(s)} :
       \E reached \in SUBSET {p \in Peers(s) : Up(p)} :
          /\ reached # {}
          /\ \A p \in Peers(s) : ReadPrev(s, p, mem) # NoEntry
          /\ net' = net \cup {ParamsFor(s, p, ReadPrev(s, p, mem), <<>>) : p \in reached}
          /\ Cardinality(net') <= MaxLate
    /\ UNCHANGED <<proc, raftVars, persisterVars, md, threadVars, faults, historyVars>>

SendHeartBeatsAborts(s) ==
    /\ Up(s)
    /\ state[s] = LEADER
    /\ \E p \in Peers(s), mem \in Memory :
          mem \in PrevMemory(s, p) /\ ReadPrev(s, p, mem) = NoEntry
    /\ Abort(s, "unexpected log")

\* async_replicateLogTo: the first locked section of its loop.
ReplicatorCheck(s, p) ==
    /\ Up(s)
    /\ repl[s][p].pc = "check"
    /\ repl' = [repl EXCEPT ![s][p].pc =
          IF state[s] = LEADER /\ nextIndex[s][p] <= LastIndex(logs[s]) THEN "send" ELSE "idle"]
    /\ UNCHANGED <<proc, raftVars, persisterVars, md, election, applier, net, faults, historyVars>>

SendMemory(s, p) ==
    MemoryFor(\/ ReadsPrev(logs[s], nextIndex[s][p]) /\ PastEnd(logs[s], nextIndex[s][p] - 1)
              \/ \E i \in GatheredIndexes(logs[s], nextIndex[s][p]) : PastEnd(logs[s], i))

GatherFor(s, p, mem) ==
    EntriesOf(logs[s], nextIndex[s][p],
              Smaller(LastIndex(logs[s]), nextIndex[s][p] + MaxLogsPerRequest - 1), mem)

(***************************************************************************)
(* The second locked section builds the call.  It does not look at state_  *)
(* again: the server may have lost the leadership and follow another term. *)
(***************************************************************************)
ReplicatorSend(s, p) ==
    /\ Up(s)
    /\ repl[s][p].pc = "send"
    /\ \E mem \in SendMemory(s, p) :
          LET entries == GatherFor(s, p, mem)
          IN /\ ReadPrev(s, p, mem) # NoEntry
             /\ \A k \in DOMAIN entries : entries[k] # NoEntry
             /\ repl' = [repl EXCEPT ![s][p] =
                   [pc |-> "sent", req |-> ParamsFor(s, p, ReadPrev(s, p, mem), entries)]]
    /\ UNCHANGED <<proc, raftVars, persisterVars, md, election, applier, net, faults, historyVars>>

ReplicatorSendAborts(s, p) ==
    /\ Up(s)
    /\ repl[s][p].pc = "send"
    /\ \E mem \in SendMemory(s, p) :
          LET entries == GatherFor(s, p, mem)
          IN \/ ReadPrev(s, p, mem) = NoEntry
             \/ \E k \in DOMAIN entries : entries[k] = NoEntry
    /\ Abort(s, "unexpected log")

MutantAcceptsAppend(p, m) == m.term >= currentTerm[p]

AcceptsAppend(p, m) ==
    \/ m.term > currentTerm[p]
    \/ m.term = currentTerm[p] /\ state[p] # LEADER

KeptLog(p, m) == AfterPrevCheck(logs[p], m.prevLogIndex, m.prevLogTerm)

\* appendEntries on p, to its reply.
AppendEntries(p, m, success) ==
    /\ \/ /\ m.term < currentTerm[p]
          /\ ~success
          /\ UNCHANGED <<raftVars, persisterVars, applier>>
       \/ /\ AcceptsAppend(p, m)
          /\ currentTerm' = [currentTerm EXCEPT ![p] = m.term]
          /\ votedFor' = [votedFor EXCEPT ![p] = IF m.term > currentTerm[p] THEN NoHost ELSE @]
          /\ state' = [state EXCEPT ![p] =
                IF m.term > currentTerm[p] \/ @ = CANDIDATE THEN FOLLOWER ELSE @]
          /\ success = (m.prevLogIndex <= LastIndex(logs[p]))
          /\ IF ~success THEN UNCHANGED <<logs, commitIndex, persisterVars, applier>>
             ELSE \E mem \in MemoryFor(ScanUndefined(KeptLog(p, m), m.entries)),
                     k \in 1..Len(m.entries) + 1 :
                  LET log == MergeFrom(KeptLog(p, m), m.entries, k)
                  IN /\ ScanStopsAt(KeptLog(p, m), m.entries, mem, k)
                     /\ ~ScanDies(KeptLog(p, m), m.entries, mem, k)
                     /\ logs' = [logs EXCEPT ![p] = log]
                     /\ UpdateCommitIndex(p, log, Smaller(m.leaderCommit, LastIndex(log)))
          /\ UNCHANGED <<lastApplied, nextIndex, matchIndex>>
    /\ UNCHANGED <<proc, md, faults, historyVars>>

\* The LOG(FATAL)s and undefined reads of appendEntries.
AppendEntriesAborts(p, m, why) ==
    \/ /\ why = "two leaders"
       /\ m.term = currentTerm[p]
       /\ state[p] = LEADER
    \/ /\ why = "unexpected log"
       /\ AcceptsAppend(p, m)
       /\ m.prevLogIndex <= LastIndex(logs[p])
       /\ \E mem \in MemoryFor(ScanUndefined(KeptLog(p, m), m.entries)),
             k \in 1..Len(m.entries) + 1 :
             LET log == MergeFrom(KeptLog(p, m), m.entries, k)
             IN /\ ScanStopsAt(KeptLog(p, m), m.entries, mem, k)
                /\ \/ ScanDies(KeptLog(p, m), m.entries, mem, k)
                   \/ UpdateCommitIndexDies(p, log, Smaller(m.leaderCommit, LastIndex(log)))

\* The call of the replicator of s to p returns.
ReplicateCall(s, p) ==
    /\ Up(s) /\ Up(p)
    /\ repl[s][p].pc = "sent"
    /\ \E success \in BOOLEAN :
          /\ AppendEntries(p, repl[s][p].req, success)
          /\ repl' = [repl EXCEPT ![s][p].pc = IF success THEN "accepted" ELSE "rejected"]
    /\ UNCHANGED <<election, net>>

\* p aborts in the call; s sees its call fail and tries again.
ReplicateCallAborts(s, p) ==
    /\ Up(s) /\ Up(p)
    /\ repl[s][p].pc = "sent"
    /\ \E why \in {"two leaders", "unexpected log"} :
          AppendEntriesAborts(p, repl[s][p].req, why) /\ Stop(p, why)
    /\ election' = [election EXCEPT ![p] = NoElection]
    /\ repl' = [repl EXCEPT ![p] = [q \in Server |-> Replicator("idle")],
                            ![s][p] = Replicator("check")]
    /\ UNCHANGED <<md, chunks, faults, historyVars>>

AppendEntriesLate(m) ==
    /\ m \in net /\ m.type = "AE"
    /\ Up(m.to)
    /\ \E success \in BOOLEAN : AppendEntries(m.to, m, success)
    /\ net' = net \ {m}
    /\ UNCHANGED <<election, repl>>

AppendEntriesLateAborts(m) ==
    /\ m \in net /\ m.type = "AE"
    /\ Up(m.to)
    /\ \E why \in {"two leaders", "unexpected log"} :
          AppendEntriesAborts(m.to, m, why) /\ Abort(m.to, why)

\* A TException in async_sendLogsTo: the thread tries again, the call is lost or late.
ReplicateFails(s, p) ==
    /\ Up(s)
    /\ repl[s][p].pc = "sent"
    /\ repl' = [repl EXCEPT ![s][p] = Replicator("check")]
    /\ CallFails(p, repl[s][p].req)
    /\ UNCHANGED <<proc, raftVars, persisterVars, md, election, applier, historyVars>>

\* The indexes sorted by handleReplicateResultFor: those of the peers, and its own.
Held(s, match) == [p \in Server |-> IF p = s THEN LastIndex(logs[s]) ELSE match[p]]

\* The index handleReplicateResultFor commits, if it commits: its entry is of this term.
Commits(s, agree, mem) ==
    /\ agree # commitIndex[s]
    /\ GetLog(logs[s], agree, mem) # NoEntry
    /\ GetLog(logs[s], agree, mem).term = currentTerm[s]

AgreeAborts(s, agree, mem) ==
    /\ agree # commitIndex[s]
    /\ GetLog(logs[s], agree, mem) = NoEntry

Matched(s, p) == repl[s][p].req.prevLogIndex + Len(repl[s][p].req.entries)

(***************************************************************************)
(* handleReplicateResultFor, with the reply to a call that carried         *)
(* entries.  Neither state_ nor the terms of the call and of the reply are *)
(* compared with those of the server.                                      *)
(***************************************************************************)
HandleAccepted(s, p) ==
    /\ Up(s)
    /\ repl[s][p].pc = "accepted"
    /\ repl' = [repl EXCEPT ![s][p] = Replicator("check")]
    /\ IF repl[s][p].req.entries = <<>>
       THEN UNCHANGED <<nextIndex, matchIndex, commitIndex, applier, persisterVars>>
       ELSE LET match == [matchIndex[s] EXCEPT ![p] = Matched(s, p)]
                held  == Held(s, match)
            IN /\ nextIndex' = [nextIndex EXCEPT ![s][p] = Matched(s, p) + 1]
               /\ matchIndex' = [matchIndex EXCEPT ![s] = match]
               /\ \E agree \in {held[q] : q \in Server} :
                     /\ IsAgreeIndex(agree, held)
                     /\ \E mem \in MemoryFor(PastEnd(logs[s], agree)) :
                           /\ ~AgreeAborts(s, agree, mem)
                           /\ IF Commits(s, agree, mem)
                              THEN UpdateCommitIndex(s, logs[s], agree)
                              ELSE UNCHANGED <<commitIndex, applier, persisterVars>>
    /\ UNCHANGED <<proc, currentTerm, votedFor, state, logs, lastApplied, md, election, net,
                   faults, historyVars>>

HandleAcceptedAborts(s, p) ==
    /\ Up(s)
    /\ repl[s][p].pc = "accepted"
    /\ repl[s][p].req.entries # <<>>
    /\ LET held == Held(s, [matchIndex[s] EXCEPT ![p] = Matched(s, p)])
       IN \E agree \in {held[q] : q \in Server} :
             /\ IsAgreeIndex(agree, held)
             /\ \E mem \in MemoryFor(PastEnd(logs[s], agree)) :
                   \/ AgreeAborts(s, agree, mem)
                   \/ Commits(s, agree, mem) /\ UpdateCommitIndexDies(s, logs[s], agree)
    /\ Abort(s, "unexpected log")

HandleRejected(s, p) ==
    /\ Up(s)
    /\ repl[s][p].pc = "rejected"
    /\ repl' = [repl EXCEPT ![s][p] = Replicator("check")]
    /\ nextIndex' = IF repl[s][p].req.entries = <<>> THEN nextIndex
                    ELSE [nextIndex EXCEPT ![s][p] = Smaller(@, repl[s][p].req.prevLogIndex)]
    /\ UNCHANGED <<proc, currentTerm, votedFor, state, logs, commitIndex, lastApplied, matchIndex,
                   persisterVars, md, election, applier, net, faults, historyVars>>
-----------------------------------------------------------------------------
(***************************************************************************)
(* async_applyMsg.                                                         *)
(***************************************************************************)
MutantApplyLimit(s) == Smaller(lastApplied[s] + MaxLogsPerApply, LastIndex(logs[s]))

ApplyLimit(s) == Smaller(lastApplied[s] + MaxLogsPerApply, commitIndex[s])

ApplyMemory(s) ==
    MemoryFor(\E i \in lastApplied[s] + 1..ApplyLimit(s) : PastEnd(logs[s], i))

GatherForApply(s) ==
    /\ Up(s)
    /\ applier[s].pc = "gather"
    /\ \E mem \in ApplyMemory(s) :
          LET queue == EntriesOf(logs[s], lastApplied[s] + 1, ApplyLimit(s), mem)
          IN /\ \A k \in DOMAIN queue : queue[k] # NoEntry
             /\ applier' = [applier EXCEPT ![s] =
                   IF queue = <<>> THEN IdleApplier ELSE [pc |-> "apply", queue |-> queue]]
    /\ UNCHANGED <<proc, raftVars, persisterVars, md, election, repl, net, faults, historyVars>>

GatherForApplyAborts(s) ==
    /\ Up(s)
    /\ applier[s].pc = "gather"
    /\ \E mem \in ApplyMemory(s) :
          LET queue == EntriesOf(logs[s], lastApplied[s] + 1, ApplyLimit(s), mem)
          IN \E k \in DOMAIN queue : queue[k] = NoEntry
    /\ Abort(s, "unexpected log")

\* The state machine has applied the queue; lastApplied_ follows.
Applied(s) ==
    /\ Up(s)
    /\ applier[s].pc = "apply"
    /\ lastApplied' = [lastApplied EXCEPT ![s] = @ + Len(applier[s].queue)]
    /\ applier' = [applier EXCEPT ![s] = [pc |-> "gather", queue |-> <<>>]]
    /\ UNCHANGED <<proc, currentTerm, votedFor, state, logs, commitIndex, nextIndex, matchIndex,
                   persisterVars, md, election, repl, net, faults, historyVars>>
-----------------------------------------------------------------------------
Next ==
    \/ \E s \in Server :
          \/ Kill(s) \/ Shutdown(s) \/ Restart(s)
          \/ ElectionTimeout(s) \/ StartElection(s) \/ StartElectionKilled(s)
          \/ CountVotes(s)
          \/ SendHeartBeats(s) \/ SendHeartBeatsAborts(s)
          \/ GatherForApply(s) \/ GatherForApplyAborts(s) \/ Applied(s)
    \/ \E s \in Server, c \in Command : Start(s, c)
    \/ \E s \in Server : \E p \in Peers(s) :
          \/ RequestVoteCall(s, p) \/ RequestVoteKilled(s, p) \/ RequestVoteFails(s, p)
          \/ ReplicatorCheck(s, p) \/ ReplicatorSend(s, p) \/ ReplicatorSendAborts(s, p)
          \/ ReplicateCall(s, p) \/ ReplicateCallAborts(s, p) \/ ReplicateFails(s, p)
          \/ HandleAccepted(s, p) \/ HandleAcceptedAborts(s, p) \/ HandleRejected(s, p)
    \/ \E m \in net :
          \/ RequestVoteLate(m) \/ AppendEntriesLate(m) \/ AppendEntriesLateAborts(m)

Spec == Init /\ [][Next]_vars
-----------------------------------------------------------------------------
(***************************************************************************)
(* Types.                                                                  *)
(***************************************************************************)
Status == {"up", "down", "two leaders", "unexpected log", "invalid log sequence"}

RaftType ==
    /\ proc \in [Server -> Status]
    /\ currentTerm \in [Server -> Term]
    /\ votedFor \in [Server -> Server \cup {NoHost}]
    /\ state \in [Server -> {FOLLOWER, CANDIDATE, LEADER}]
    /\ logs \in [Server -> Seq(Entry)]
    /\ commitIndex \in [Server -> Nat]
    /\ lastApplied \in [Server -> Nat]
    /\ nextIndex \in [Server -> [Server -> Nat]]
    /\ matchIndex \in [Server -> [Server -> Nat]]

PersisterType ==
    /\ logBuf \in [Server -> Seq(Entry)]
    /\ lastInBufLogId \in [Server -> Nat]
    /\ md \in [Server -> [term: Term, vote: Server \cup {NoHost}]]
    /\ chunks \in [Server -> Seq(Entry)]

ElectionType ==
    election \in [Server -> [pc: {"idle", "collect", "join"}, term: Term, lastLogIndex: Nat,
                             lastLogTerm: Term, pending: SUBSET Server, votes: SUBSET Server]]

ReplicatorType ==
    /\ repl \in [Server -> [Server ->
          [pc: {"idle", "check", "send", "sent", "accepted", "rejected"},
           req: AppendRequest \cup {NoRequest}]]]
    /\ \A s, p \in Server :
          repl[s][p].pc \in {"sent", "accepted", "rejected"} => repl[s][p].req \in AppendRequest

ApplierType ==
    applier \in [Server -> [pc: {"idle", "gather", "apply"}, queue: Seq(Entry)]]

HistoryType ==
    /\ net \subseteq VoteRequest \cup AppendRequest
    /\ faults \in Nat
    /\ voted \subseteq Ballot
    /\ elected \subseteq [server: Server, term: Term]
    /\ metaLost \subseteq Server

\* Every variable has its type; nextIndex_ in particular never becomes negative.
TypeOK ==
    /\ RaftType
    /\ PersisterType
    /\ ElectionType
    /\ ReplicatorType
    /\ ApplierType
    /\ HistoryType
-----------------------------------------------------------------------------
(***************************************************************************)
(* Safety of elections.                                                    *)
(***************************************************************************)
(* A server votes for at most one candidate in a term, in all its          *)
(* incarnations together, although requestVote and appendEntries raise     *)
(* currentTerm_ without saving it; unless a kill emptied its meta.dat.     *)
OneVotePerTerm ==
    \A a, b \in voted :
        a.voter = b.voter /\ a.term = b.term /\ a.voter \notin metaLost => a.cand = b.cand

(* No two servers win the election of one term, whatever calls are late,   *)
(* lost or answered after a restart.  (A server may take office after the  *)
(* term it was elected in: see OneLeaderPerTerm.)                          *)
UniqueWinners ==
    metaLost = {} => \A a, b \in elected : a.term = b.term => a.server = b.server

(* A candidate never campaigns for a term in which it has given a vote     *)
(* before, not even before a restart: so no vote meant for an earlier      *)
(* incarnation can be counted by a later one.                              *)
CampaignsInNewTerms ==
    [][\A s \in Server :
          election[s].pc = "idle" /\ election'[s].pc = "collect" /\ s \notin metaLost =>
             \A b \in voted : b.voter = s => b.term < election'[s].term]_vars

(* The elections of raft.cpp implement the abstract voting.                *)
Ballots == INSTANCE Voting WITH ballots <- voted, winners <- elected, forgetful <- metaLost
ImplementsVoting == Ballots!Init /\ [][Ballots!Next]_(Ballots!vars)
-----------------------------------------------------------------------------
(***************************************************************************)
(* Safety of replication.                                                  *)
(***************************************************************************)
(* A server that stays leader only ever appends to its log: a call of      *)
(* another leader, of a former leader or of its own earlier reign never    *)
(* takes an entry from it.                                                 *)
LeaderAppendOnly ==
    [][\A s \in Server :
          state[s] = LEADER /\ state'[s] = LEADER =>
             /\ Len(logs'[s]) >= Len(logs[s])
             /\ SubSeq(logs'[s], 1, Len(logs[s])) = logs[s]]_vars

(* What the applier thread has handed or is handing to the state machine   *)
(* was committed before, however the log shrinks under it.                 *)
AppliesOnlyCommitted ==
    \A s \in Server : lastApplied[s] + Len(applier[s].queue) <= commitIndex[s]

(* A state machine is never ahead of its Persister: what it was handed, or *)
(* is being handed, was given to saveLogs before, through restarts that    *)
(* begin with what the files held; unless a log with a hole was saved.     *)
Saved(s) == chunks[s] \o logBuf[s]

HasNoHole(log) == \A k \in DOMAIN log : log[k].index = k

AppliedIsSaved ==
    \A s \in Server :
        Up(s) /\ HasNoHole(Saved(s)) =>
            lastApplied[s] + Len(applier[s].queue) <= Len(Saved(s))

(* A leader commits an index only when it and the followers that reported  *)
(* the index are a majority: handleReplicateResultFor takes the element of *)
(* rank size/2 of the sorted indexes, while other replies arrive.          *)
CommitsWithMajority ==
    [][\A s \in Server : \A p \in Peers(s) :
          /\ repl[s][p].pc = "accepted" /\ repl'[s][p].pc = "check"
          /\ commitIndex'[s] > commitIndex[s]
          => IsMajority(Cardinality({q \in Server :
                Held(s, matchIndex'[s])[q] >= commitIndex'[s]}))]_vars

(* When a follower acknowledges a call, every entry of the call is in its  *)
(* log, also when entries in conflict were deleted on the way; provided    *)
(* that its log had no hole and the indexes of the call are consecutive.   *)
WellFormedCall(m) ==
    \A k \in DOMAIN m.entries : m.entries[k].index = m.prevLogIndex + k

StoredIn(log, e) ==
    \E i \in DOMAIN log : log[i].index = e.index /\ log[i].term = e.term

Acknowledged(s, p) ==
    /\ repl[s][p].pc = "sent" /\ repl'[s][p].pc = "accepted"
    /\ Contiguous(logs[p]) /\ WellFormedCall(repl[s][p].req)

AckMeansStored ==
    [][\A s \in Server : \A p \in Peers(s) :
          Acknowledged(s, p) => \A k \in DOMAIN repl[s][p].req.entries :
                                   StoredIn(logs'[p], repl[s][p].req.entries[k])]_vars
-----------------------------------------------------------------------------
(***************************************************************************)
(* What documents, comments and assertions of the repository say, and the  *)
(* code does not keep.                                                     *)
(***************************************************************************)
(* raft.cpp:161 aborts with "Two leader in the same term!".                *)
OneLeaderPerTerm ==
    \A s, t \in Server :
        state[s] = LEADER /\ state[t] = LEADER /\ currentTerm[s] = currentTerm[t] => s = t

(* doc/Raft.md:305: a heartbeat no longer deletes entries just appended;   *)
(* a process keeps in its log all it has committed.                        *)
KeepsCommitted == \A s \in Server : commitIndex[s] <= LastIndex(logs[s])
=============================================================================
