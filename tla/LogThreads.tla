----------------------------- MODULE LogThreads -----------------------------
(***************************************************************************)
(* The threads of one server that send and apply its log                   *)
(* (src/src/raft/raft.cpp): a replicator for each peer and the applier,    *)
(* which wait on sendEntries_ and applyLogs_ without a condition, and what *)
(* wakes them: commands, commits, the destructor.                          *)
(*                                                                         *)
(* Of the log only its length is kept.  Raft.tla has what the threads do   *)
(* to it, and lets any wake-up be lost; here is shown which are.           *)
(***************************************************************************)
EXTENDS Integers

CONSTANTS
    Peer,         \* the other servers
    MaxLogs,      \* bound: the length of the log
    MaxElections, \* bound: elections won
    MaxFailures   \* bound: calls to other servers that fail or are rejected

ASSUME LogsAssumption ==
    /\ MaxLogs \in Nat /\ MaxElections \in Nat /\ MaxFailures \in Nat
    /\ "applier" \notin Peer

VARIABLES
    leads,       \* state_ = LEADER
    lastLog,     \* lastLogIndex()
    nextIndex,   \* nextIndex_ of each peer
    commitIndex, \* commitIndex_
    lastApplied, \* lastApplied_
    repl,        \* where the thread in async_replicateLogTo of each peer is
    call,        \* the entry before those it sends, and the last of them
    applier,     \* where the thread in async_applyMsg is
    gathered,    \* the last entry of logsForApply
    destructor,  \* how far the destructor is; isExit_ is set once it has begun
    missed,      \* history: whom a notification did not reach, though they were about to wait
    elections, failures

logVars == <<leads, lastLog, nextIndex, commitIndex>>
replVars == <<repl, call>>
applyVars == <<lastApplied, applier, gathered>>
bounds == <<elections, failures>>
vars == <<logVars, replVars, applyVars, destructor, missed, bounds>>

isExit == destructor # "none"

NoCall == [prev |-> 0, last |-> 0]

Init ==
    /\ leads = FALSE
    /\ lastLog = 0 /\ commitIndex = 0 /\ lastApplied = 0 /\ gathered = 0
    /\ nextIndex = [p \in Peer |-> 0]
    /\ repl = [p \in Peer |-> "wait"]
    /\ call = [p \in Peer |-> NoCall]
    /\ applier = "wait"
    /\ destructor = "none"
    /\ missed = {}
    /\ elections = 0 /\ failures = 0

-----------------------------------------------------------------------------
\* A notification reaches a thread that waits, and no other.

Waiting == {p \in Peer : repl[p] = "wait"}

\* sendEntries_.notify_all; `late' is where a thread misses what is notified.
NotifySend(late) ==
    /\ repl' = [p \in Peer |-> IF p \in Waiting THEN "woken" ELSE repl[p]]
    /\ missed' = (missed \ Waiting) \cup {p \in Peer : repl[p] \in late}

\* applyLogs_.notify_one; only one thread ever waits.
NotifyApplier(late) ==
    /\ applier' = IF applier = "wait" THEN "woken" ELSE applier
    /\ missed' = (missed \ {"applier"}) \cup IF applier \in late THEN {"applier"} ELSE {}

MutantUpdateCommitIndex(newIndex) ==
    IF newIndex > commitIndex
    THEN commitIndex' = newIndex /\ IF leads THEN NotifyApplier({"gap"}) ELSE UNCHANGED <<applier, missed>>
    ELSE UNCHANGED <<commitIndex, applier, missed>>

UpdateCommitIndex(newIndex) ==
    IF newIndex > commitIndex
    THEN commitIndex' = newIndex /\ NotifyApplier({"gap"})
    ELSE UNCHANGED <<commitIndex, applier, missed>>

-----------------------------------------------------------------------------
\* The handlers, and elections.

MutantStart ==
    /\ ~isExit
    /\ leads
    /\ lastLog < MaxLogs
    /\ lastLog' = lastLog + 1
    /\ \E p \in Peer :
          /\ repl' = IF repl[p] = "wait" THEN [repl EXCEPT ![p] = "woken"] ELSE repl
          /\ missed' = IF repl[p] = "gap" THEN missed \cup {p} ELSE missed \ {p}
          /\ p \in Waiting \/ Waiting = {}
    /\ UNCHANGED <<leads, nextIndex, commitIndex, call, applyVars, destructor, bounds>>

\* start: a command of a client.
Start ==
    /\ ~isExit
    /\ leads
    /\ lastLog < MaxLogs
    /\ lastLog' = lastLog + 1
    /\ NotifySend({"gap"})
    /\ UNCHANGED <<leads, nextIndex, commitIndex, call, applyVars, destructor, bounds>>

\* switchToLeader: it wakes no replicator, as there is nothing it would send.
SwitchToLeader ==
    /\ elections < MaxElections
    /\ elections' = elections + 1
    /\ ~leads
    /\ leads' = TRUE
    /\ nextIndex' = [p \in Peer |-> lastLog + 1]
    /\ UNCHANGED <<lastLog, commitIndex, replVars, applyVars, destructor, missed, failures>>

\* requestVote with a newer term.
RequestVote ==
    /\ ~isExit
    /\ leads
    /\ leads' = FALSE
    /\ UNCHANGED <<lastLog, nextIndex, commitIndex, replVars, applyVars, destructor, missed, bounds>>

\* appendEntries of a leader: the log becomes longer, or loses what is not committed.
\* (That it may lose more, and what comes of that, is in Raft.tla.)
AppendEntries(last, leaderCommit) ==
    /\ ~isExit
    /\ commitIndex <= last
    /\ leads' = FALSE
    /\ lastLog' = last
    /\ UpdateCommitIndex(leaderCommit)
    /\ UNCHANGED <<nextIndex, replVars, lastApplied, gathered, destructor, bounds>>

-----------------------------------------------------------------------------
\* Replicators: async_replicateLogTo.

ReplGoes(p, from, to) ==
    /\ repl[p] = from
    /\ repl' = [repl EXCEPT ![p] = to]
    /\ UNCHANGED <<leads, lastLog, lastApplied, gathered, destructor, elections>>

ReplOnly == UNCHANGED <<nextIndex, commitIndex, call, applier, missed, failures>>

\* sendEntries_.wait, which has no condition, and what comes after it.
ReplSleeps(p) == ReplGoes(p, "gap", "wait") /\ ReplOnly

MutantReplWakes(p) == ReplGoes(p, "woken", "look") /\ ReplOnly

ReplWakes(p) == ReplGoes(p, "woken", IF isExit THEN "gone" ELSE "look") /\ ReplOnly

HasWork(p) == leads /\ nextIndex[p] <= lastLog

\* The first locked section of the loop.  Where there is nothing to do the thread
\* leaves the loop, and does not look at isExit_.
ReplLooks(p) == ReplGoes(p, "look", IF HasWork(p) THEN "send" ELSE "gap") /\ ReplOnly

\* The second: there may be less to send by now, or nothing.  (At most
\* MAX_LOGS_PER_REQUEST entries; here any number.)
ReplBuilds(p) ==
    LET next == nextIndex[p]
    IN /\ ReplGoes(p, "send", "call")
       /\ \E last \in IF next > lastLog THEN {next - 1} ELSE next .. lastLog :
             call' = [call EXCEPT ![p] = [prev |-> next - 1, last |-> last]]
       /\ UNCHANGED <<nextIndex, commitIndex, applier, missed, failures>>

MutantReplReturns(p) ==
    /\ ReplGoes(p, "call", IF isExit THEN "gone" ELSE "gap")
    /\ call' = [call EXCEPT ![p] = NoCall]

\* async_sendLogsTo is over.
ReplReturns(p) ==
    /\ ReplGoes(p, "call", IF isExit THEN "gone" ELSE "look")
    /\ call' = [call EXCEPT ![p] = NoCall]

\* handleReplicateResultFor of an accepted call, whoever leads by then.
ReplAccepted(p) ==
    /\ ReplReturns(p)
    /\ IF call[p].last = call[p].prev
       THEN UNCHANGED <<nextIndex, commitIndex, applier, missed>>
       ELSE /\ nextIndex' = [nextIndex EXCEPT ![p] = call[p].last + 1]
            /\ \E agreeIndex \in commitIndex .. lastLog : UpdateCommitIndex(agreeIndex)
    /\ UNCHANGED failures

MutantReplRejected(p) ==
    /\ ReplReturns(p)
    /\ call[p].last > call[p].prev
    /\ failures < MaxFailures
    /\ failures' = failures + 1
    /\ nextIndex' = [nextIndex EXCEPT ![p] = call[p].prev - 1]
    /\ UNCHANGED <<commitIndex, applier, missed>>

\* Of a rejected one.  Raft.tla has what happens where prevLogIndex is 0.
ReplRejected(p) ==
    /\ ReplReturns(p)
    /\ call[p].prev \in 1 .. call[p].last - 1
    /\ failures < MaxFailures
    /\ failures' = failures + 1
    /\ nextIndex' = [nextIndex EXCEPT ![p] = IF call[p].prev < @ THEN call[p].prev ELSE @]
    /\ UNCHANGED <<commitIndex, applier, missed>>

\* An exception: the thread sleeps for a while and tries again.
ReplFails(p) ==
    /\ ReplReturns(p)
    /\ failures < MaxFailures
    /\ failures' = failures + 1
    /\ UNCHANGED <<nextIndex, commitIndex, applier, missed>>

-----------------------------------------------------------------------------
\* The applier: async_applyMsg.

ApplierGoes(from, to) ==
    /\ applier = from
    /\ applier' = to
    /\ UNCHANGED <<logVars, replVars, destructor, missed, bounds>>

\* applyLogs_.wait, which has no condition, and what comes after it.
ApplierSleeps == ApplierGoes("gap", "wait") /\ UNCHANGED <<lastApplied, gathered>>

ApplierWakes ==
    ApplierGoes("woken", IF isExit THEN "gone" ELSE "gather") /\ UNCHANGED <<lastApplied, gathered>>

MutantGather ==
    /\ IF lastApplied + 1 < commitIndex
       THEN ApplierGoes("gather", "apply") /\ gathered' \in lastApplied + 1 .. commitIndex
       ELSE ApplierGoes("gather", "gap") /\ UNCHANGED gathered
    /\ UNCHANGED lastApplied

\* The first locked section of the loop, which ends where there is nothing to apply.
\* (At most 20 entries; here any number.)
Gather ==
    /\ IF lastApplied < commitIndex
       THEN ApplierGoes("gather", "apply") /\ gathered' \in lastApplied + 1 .. commitIndex
       ELSE ApplierGoes("gather", "gap") /\ UNCHANGED gathered
    /\ UNCHANGED lastApplied

\* They have been applied, and are counted.
Applied ==
    /\ ApplierGoes("apply", IF isExit THEN "gone" ELSE "gather")
    /\ lastApplied' = gathered
    /\ UNCHANGED gathered

-----------------------------------------------------------------------------
\* The destructor.  Nor does a thread see isExit_ that looks once more and has no work.

DestructorGoes(from, to) ==
    /\ destructor = from
    /\ destructor' = to
    /\ UNCHANGED <<logVars, call, lastApplied, gathered, bounds>>

DestructorBegins == DestructorGoes("none", "begun") /\ UNCHANGED <<repl, applier, missed>>

DestructorNotifiesSend ==
    DestructorGoes("begun", "sent") /\ NotifySend({"look", "gap"}) /\ UNCHANGED applier

DestructorNotifiesApplier ==
    DestructorGoes("sent", "done") /\ NotifyApplier({"gather", "gap"}) /\ UNCHANGED repl

-----------------------------------------------------------------------------
ReplicateLogTo(p) ==
    \/ ReplSleeps(p) \/ ReplWakes(p) \/ ReplLooks(p) \/ ReplBuilds(p)
    \/ ReplAccepted(p) \/ ReplRejected(p) \/ ReplFails(p)

ApplyMsg == ApplierSleeps \/ ApplierWakes \/ Gather \/ Applied

Next ==
    \/ Start \/ SwitchToLeader \/ RequestVote
    \/ \E last \in 0 .. MaxLogs : \E leaderCommit \in 0 .. last : AppendEntries(last, leaderCommit)
    \/ \E p \in Peer : ReplicateLogTo(p)
    \/ ApplyMsg
    \/ DestructorBegins \/ DestructorNotifiesSend \/ DestructorNotifiesApplier

Spec == Init /\ [][Next]_vars

\* The threads are scheduled, calls return or end in an exception (RPC_TIMEOUT), and
\* the destructor runs through.  Nothing is assumed of clients and of other servers.
Fairness ==
    /\ \A p \in Peer : WF_vars(ReplicateLogTo(p))
    /\ WF_vars(ApplyMsg)
    /\ WF_vars(DestructorNotifiesSend \/ DestructorNotifiesApplier)

FairSpec == Spec /\ Fairness

-----------------------------------------------------------------------------
\* Properties.

\* Indices stay indices, and each thread is somewhere.
TypeOK ==
    /\ leads \in BOOLEAN
    /\ {lastLog, commitIndex, lastApplied, gathered, elections, failures} \subseteq Nat
    /\ nextIndex \in [Peer -> Nat]
    /\ repl \in [Peer -> {"wait", "woken", "look", "send", "call", "gap", "gone"}]
    /\ call \in [Peer -> [prev : Nat, last : Nat]]
    /\ applier \in {"wait", "woken", "gather", "apply", "gap", "gone"}
    /\ destructor \in {"none", "begun", "sent", "done"}
    /\ missed \subseteq Peer \cup {"applier"}

\* A replicator sleeps over an entry that is still to be sent only if a notification
\* came between its last look and its wait (doc/Raft.md:209 warns of these): changes of
\* leader, and calls that fail, are rejected or return late, do not make it sleep.
SleepsOnWorkIfMissed ==
    \A p \in Peer : repl[p] = "wait" /\ HasWork(p) => p \in missed

\* The same of the applier and of entries that a leader or a follower has committed.
IdleUnlessMissed ==
    applier = "wait" /\ lastApplied < commitIndex => "applier" \in missed

\* A leader's replicators catch up with its log, where peers answer, unless the leader
\* is replaced, the replicator missed a notification, or the server ends.
StartedIsSent ==
    \A p \in Peer : HasWork(p) ~> isExit \/ ~HasWork(p) \/ p \in missed

\* The applier catches up with what is committed, on the same terms.
CommittedIsApplied ==
    lastApplied < commitIndex ~> isExit \/ lastApplied = commitIndex \/ "applier" \in missed

\* The destructor ends the threads ("wait for other threads exit", raft.cpp:92), but
\* those that were between their last look and their wait when it notified them.
ThreadsExit ==
    isExit ~> /\ \A p \in Peer : repl[p] = "gone" \/ p \in missed
              /\ applier = "gone" \/ "applier" \in missed
=============================================================================
