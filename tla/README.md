# TLA+ models of MIT6.824-Cplusplus

This directory holds a verification project for the C++ programs of this repository: TLA+ modules
translated from the source, configurations with which TLC checks them on small instances, and
theorems about them that the TLAPS proof system checks for every value of the constants.
Paths below are those of the repository, with its root as `src/`.

- [The system](#the-system): the parts, their state, and what is hard about them
- [Modules](#modules): which module models what, and how
- [Runs](#runs): what TLC checks, the bounds and why they are enough
- [Proofs](#proofs): what is proved and along which argument
- [Disagreements](#disagreements-between-the-code-and-what-is-said-of-it)
- [Not modelled](#not-modelled), and the [plan](#plan)

## The system

### Raft server (`src/src/raft/raft.cpp`, `src/include/raft/raft.h`)

*State.* `currentTerm_`, `votedFor_`, `state_`, the deque `logs_`, `commitIndex_`, `lastApplied_`,
`nextIndex_`, `matchIndex_`, the snapshot's index and term, all guarded by `raftLock_`, except that
the applier and the replicators release it between two looks at them.

*Threads.* One that looks for a silent leader (`async_checkLeaderStatus`), one that runs an election
(`async_startElection`) with a detached calling thread per peer, one that sends heartbeats
(`async_sendHeartBeats`), one replicator per peer (`async_replicateLogTo`), one applier
(`async_applyMsg`), and the Thrift server's threads, in which `requestVote`, `appendEntries`,
`installSnapshot`, `start` and `getState` run.

*Interaction.* RPCs between the servers, `apply` and the snapshot callbacks into the state machine,
`saveTermAndVote` and `saveLogs` into the Persister.

*Hard.* Votes, timeouts and other candidates interleave; a call that its caller gave up after
`RPC_TIMEOUT` is still executed; a locked section relies on what an earlier one read; kills; logs
addressed by position in a deque; `operator[]` past the end of it.

*What makes it correct.* One vote per term across restarts, one winner per term, a leader that only
appends, acknowledged entries that are stored, a commit index that a majority supports, only committed
entries applied, and these not before the Persister was given them.

### Persister (`src/src/raft/Persister.cpp`)

*State.* `meta.dat` (term and vote), the chunk files of `logChunks/`, `logBuf_` in memory until it
holds more than `LOG_CHUNK_BYTES`, `lastInBufLogId_`, the snapshot. *Operations.* `saveTermAndVote`,
`saveLogs`, `loadRaftState`, `checkState`, the destructor's flush. *Hard.* Kills between two steps:
a rename before its content is written, a buffer that dies with the process; a deque addressed by position,
whose indexes may have a hole. *Correct* when what was promised to another server, a vote above all, is
found again, and a server that ends can start once more.

### MapReduce (`src/src/MapReduce/master.cpp`, `worker.cpp`)

*State.* Of the master: the phase, the state of each task, the queue `idle_`, the table
`inProgress_`, `completedCnt_`; files that all processes share. *Operations.* `assignTask`,
`commitTask`, `detectTimeoutTask`, the switches of phase; a worker asks, works, commits. *Hard.*
Workers die or are too slow, a task is then given out twice; the queue and the table outlive the
phase; both workers of a reduce task write one file. *Correct* when no task is lost, nothing counts
that was not done, the job ends and the output is whole.

### Key-value server and clerk (`src/src/kvraft`)

*State.* The map `um_`, waiters by log index (`putWait_`, `getWait_`), the clerk's `leaderId_`.
*Operations.* `putAppend` and `get` call `start`, then register a waiter and block; `apply` answers
the waiter of its index; the clerk turns every exception into "wrong leader" and goes on. *Hard.* An
entry may be applied before its waiter is there; the entry at an index may be another client's; a
command that failed for the clerk may have been executed.

### Shard controller (`src/src/shardkv/ShardCtrler.cpp`)

*State.* The list of configurations, each with two maps (`gid2shards`, `shard2gid`) that should
agree. *Operations.* join, leave, move, query, applied from the log. *Hard.* Long sequences of legal
calls: the maps are updated separately, and `handleJoin` moves shards in one of them only.

### Shard groups (`ShardGroup.cpp`, `ShardKV.cpp`, `KVService.cpp`), RPC, helpers

Shard groups are unfinished: the table of shards is never filled, the servers are stubs. The Thrift
layer is generated; what a caller sees of it is part of the models. Helpers (client pool, timers,
flags, `analyze_log.py`) keep no state of a protocol.

## Modules

Two modules may model one part of the code at two levels: `Raft` takes for granted that the threads of a
server do their work and `ElectionThreads` and `LogThreads` show when they do; `Raft` has the chunk files as
one growing sequence and `Persister` shows when they are, with logs that have holes; `KVRaft` and `ShardCtrler` rely on what a
Raft log promises.

| module | what it is |
|---|---|
| `RaftLog` | the log: positions in the deque, `getLogByLogIndex` with its undefined read, the merge of `appendEntries`, what is gathered, agreed on and saved |
| `Raft` | all servers of one group: elections, replication, commit, apply, saving, kills, restarts, calls |
| `Voting` | what elections promise: one vote per server and term, winners with a majority |
| `MCRaft` | instances for TLC, and two reachable states from which runs may start |
| `OrderFacts` | least numbers, and the list of a finite set in an order: lemmas for the theorems about any component |
| `RaftProofs` | theorems about the first three modules above |
| `ElectionThreads` | the threads of one server that watch for a leader, run elections and send heartbeats, and the condition variable of an election |
| `LogThreads` | the replicators and the applier of one server, their condition variables, and the destructor |
| `ElectionThreadsProofs`, `LogThreadsProofs` | theorems about the two modules above |
| `Persister` | the deque, the buffer and the chunk files with their names, through appends, saves, kills, restarts and reboots |
| `PersisterProofs` | theorems about `Persister` |
| `KVStore` | what the key-value service promises to a clerk |
| `KVRaft` | the key-value servers, their clerks and the connections between them, over abstract logs |
| `MCKVRaft` | instances for TLC |
| `KVRaftProofs` | theorems about `KVRaft`, and its refinement of `KVStore` |
| `MapReduce` | the master, the workers and their files |
| `WordCount` | what a job computes: the functions of `WordCount.cpp` and the sorting and grouping around them |
| `MCMapReduce` | instances for TLC, and a check of `WordCount` for all small files |
| `MapReduceProofs` | theorems about `MapReduce` |
| `ShardCtrler` | one server of the shard controller: configurations, calls and their waiters |
| `MCShardCtrler` | instances for TLC, and checks of joins and leaves for all loads of three groups |
| `ShardCtrlerProofs` | theorems about `ShardCtrler` |

Operators named `Mutant...` belong to no specification. Each is the operator after it with a
plausible bug; replacing the operator by it breaks a property, which shows that the property says
something about that code.

### `Raft`: state and actions

A variable is a member of `RaftHandler` or `Persister` of the same name, as a function of the
server. `md` and `chunks` are the files. `election`, `repl` and `applier` are where the threads
stand: `repl[s][p]` is the replicator of `s` for `p` with the call it has under way. `net` holds
calls whose caller is gone and that will still be executed. `voted`, `elected` and `metaLost` are
history, used only by properties.

Each section that holds `raftLock_` is one action. An election is `ElectionTimeout`,
`StartElection` (up to the calls), for each peer `RequestVoteCall` or `RequestVoteFails`, and
`CountVotes` (from the wait on `cv` to `switchToLeader`). `requestVote` on the callee is part of the
call's action: its reply is given back in the same step, and a reply that is lost or delayed is a
`RequestVoteFails` with the call left in `net`, executed by `RequestVoteLate`. A kill while the callee saves its
vote is modelled for calls whose caller waits (`RequestVoteKilled`) and not for late ones: it leaves the same
callee, an empty `meta.dat` with the server in `metaLost`, which `StartElectionKilled` and `RequestVoteKilled`
give too, and the election properties say nothing more of that server. That a vote is counted
at once loses nothing: the calling thread writes only `voteCnt`, which nobody reads before
`CountVotes`. Replication is `ReplicatorCheck`, `ReplicatorSend` (two locked sections with a gap
between them), the call, and `HandleAccepted` or `HandleRejected`. A heartbeat has no section after
its call and is a call in `net` from the beginning. The applier is `GatherForApply` and `Applied`.
A server ends by `Kill`, `Shutdown` (destructors, with the flush), `KilledInSave`, or a `LOG(FATAL)`
(the actions named `...Aborts`), and comes back by `Restart`.

*Undefined reads.* `getLogByLogIndex` reads `logs_[logs_.size()]` when it is asked for the index after
the last. The constant `Memory` is what may be found there: `NoEntry` stands for a read that ends the
process, an entry for one that was popped from the deque before. Actions that may read there choose a
value of `Memory`. The theorems hold for any set of entries in `Memory`.

*Bounds.* `MaxTerm`, `MaxLogIndex`, `MaxLate` (calls in `net`) and `MaxFaults` (kills, shutdowns,
restarts, failed calls) appear as guards and nowhere else. `MAX_LOGS_PER_REQUEST` and the applier's
limit keep their values; no instance reaches them.

### `ElectionThreads` and `LogThreads`: state and actions

Both are about one server; other servers are what arrives from them. A thread is where it stands, a locked
section is one action, and a wait on a condition variable is three: the last look at the condition
(`"test"`, or the end of the loop before `sendEntries_.wait` and `applyLogs_.wait`, which have none), the gap
after it, and the sleep. A notification wakes a thread that sleeps and is lost on one in the gap; `missed`
remembers that, and is cleared by the next notification that finds the thread asleep. `WatcherCampaigns` has the
test of `isExit_`, which is outside the lock, in one step with the locked section behind it. A destructor that comes
between the two lets one more campaign begin; those begun before it go on just so, for nothing in an
election looks at `isExit_`. Threads
that only come and go are counted (`watchers`, `beaters`, `electors`). Of the log only its length is kept; the
indices a replicator and the applier work with are there. The destructor sets `isExit_` and notifies in
three steps, without the lock.

### `Persister`: state and actions

The object is `logBuf`, `lastInBufLogId`, `estimateLogBufSize`; the files are `chunks`, a function from the time
in a file's name to its entries, and `tmp`; `logs` and `commitIndex` are those of `RaftHandler`. `saveLogs` is
`SaveLogs`, `SaveEntry` for each value of its `i`, here `next`, `FlushWrites` and `FlushRenames` where a flush is due, and
`SaveEnds`; a `Kill` may come between any two of them. `Load` is the constructor with `loadChunks`, `loadRaftState` and
`checkState`, which ends the process where indices have gaps (`"aborted"`). The clock, `epochInMs()`, counts from
the boot of the machine; `ChunkNames` sorts its decimal digits as strings. An entry is its index and has a
size. Nothing is said of a loss of power: a renamed file is there.

`SaveEntry` reads the deque as the code does: at position `next - logs.front().index`, taking the index of
the entry it finds there for `lastInBufLogId_`, and past the ends of the deque anything (`Read`), or the end of the
process (`SaveDies`). That is entry `next` only where the deque has no hole, and `AppendEntries` makes holes: it
pops the entry at `prevLogIndex` too when the last entry of the log is not of `prevLogTerm`
(`raft.cpp:188-189`), and appends behind it. `hole` is history: a `saveLogs` met a hole in what it was to save, and
its entries are in the buffer or, after a flush, in the files; a kill forgets a hole that is in the buffer only.

### `KVRaft` and `KVStore`: state and actions

`um`, `lastApplyIndex`, `putWait`, `getWait` are the members of that name, as functions of the server. Raft is
`log`, one log for each server, of which `agreed` is the part that stays; a leader that was replaced (`Lead`,
`Follow`) may not know it yet. `handler` holds every RPC so far with the Thrift thread that executes it: `Start`
or `Refuse`, `Register`, and `Apply` answers it. `clerk` is where a client stands in the loop of
`putAppend` or `get`; `inbox` is what waits on its connections, for a server replies on the connection the
request came in on, and a clerk reads what is first. `ClerkTimesOut` and `ClerkCatches` are the
`TException`: the connection is dropped, which the clerk takes for "wrong leader". A call on a connection
that a restart broke is a `ClerkTimesOut`. `Received` is the command after it was written with
blanks and read with `operator>>`; `PutInto` shows that APPEND assigns, like PUT.

`KVStore` is one map. A clerk sends copies of its request, each is executed at most once, at one moment, and the
clerk is told what one of them did between call and answer, or that the request failed; the exception is an
answer marked as not its own. `Store` in `KVRaft` gives the mapping: the map is that of the agreed entries
(`maps`, `did` are its history), a copy is an RPC whose entry is not agreed on, the copies of a request are the RPCs
since it began.

### `MapReduce`: state and actions

`phase` is `state_`; `mapState`, `reduceState` are the states of the tasks; `idle`, `inProgress`,
`completedCnt` are the members of that name; `inter` and `out` are the intermediate and the output
files; `worker[w]` is where a process stands. Each RPC and each pass of `detectTimeoutTask` is one
action (all hold `lock_` throughout). `AssignTask` pops as `tryToGetIdleTask` does: when no id in the
queue is idle it hands out the last one it popped. A reduce worker reads, opens (truncates) and writes
in three steps, for another worker may do the same with the same file; removing the file leaves an
open stream without a name. A commit that a worker sent before it crashed is still executed.

Two reads past the end of a vector are possible, `reduceTasks_[id]` with an id of the map phase and
`results[i]` of an unfinished map task. Such a step makes `master` "undefined" and nothing is claimed of
the master from then on. With eight inputs and eight reduce tasks, as in the test, the first cannot
happen; with more inputs it can.

`WordCount` has what a whole result is: `MapF`, `Divided`, `ReduceKV` and `ReduceF` are the functions of the
source on sequences of characters, and `IsCounted` says that the outputs name each word once, in the file
of its hash, with the number of its occurrences.

### `ShardCtrler`: state and actions

`configs`, `waits` and `lastApplyIndex` are the members of that name; a configuration is a record of
`gid2shards`, `shard2gid` and `groupHosts` (of which only the keys matter), and its number is its position in
the list. `Join`, `Leave` and `Move` are the three handlers as functions on configurations, `Handled` is the
switch in `apply`. `Balanced` is the loop of `handleJoin` round by round, with its sorted loads and the sifting
that makes one step only. It is a recursive function of the number of rounds, which stays as it is once the
loads are even; there are more rounds than the loop can have. `InOrder` is `std::sort`. `Received` is what is
left of a command after `CtrlerArgs` wrote it to a string and read it back: of a join with several groups only
the first.

A thread executes one call: `Start` (or `CallRefused`), `Register`, and `Apply` answers it. `Raft` is
abstracted to what the controller sees of it, a log that grows, whose tail may be replaced when another
server leads (`Follow`, `Replicate`, `Lead`), and that is applied in order; that the applied part stays is
Raft's promise, and `raft_keeps_committed` shows when the code breaks it. `Restart` is a new process that
applies the log from its beginning. `call[t].seen`, `shown` and `reply.own` are history.

## Runs

| run | instance | what it shows | distinct states |
|---|---|---|---|
| `raft_election` | 3 servers, 2 terms, 1 late call, 2 faults | one vote per term, one winner per term, campaigns in new terms only, refinement of `Voting` | 320 000 |
| `raft_replication` | 2 servers, 2 terms, 1 entry, 1 late call, 2 faults | types; a state machine is never ahead of what its Persister was given | 250 000 |
| `raft_diverged` | 2 servers, logs parted over terms 1-3, a 4th term, 3 entries, 1 fault | where conflicting entries are replaced, a leader only appends, acknowledged calls are stored, only committed entries are applied | 8 000 |
| `raft_majority` | 3 servers from the end of an election, 2 entries | what a leader commits is held by a majority | 107 000 |
| `election_threads` | 2 peers, 3 election timeouts, 2 other leaders, the destructor | every state has its thread; an election ends unless the last notification is missed; so do the threads | 40 000 |
| `log_threads` | 2 peers, 2 entries, 1 leadership, 1 failed call, the destructor | the log is sent and applied, and the threads end, unless a notification is missed | 230 000 |
| `persister` | logs of 3 entries of sizes 1 and 3, with and without holes, chunks of 2, times 8 to 11, 2 kills, reboots or reads past the ends | what the files and the buffer hold is the log; a kill loses the buffer at most; a server starts again if the names are in order and no hole was flushed | 2 200 000 |
| `kvraft` | 2 servers, 2 clerks, 3 calls, a second term, 1 time-out or restart | promises, owners, replies, refinement of `KVStore` | 505 000 |
| `mapreduce` | 3 map and 2 reduce tasks, 3 workers, 2 crashes, 1 slow worker | no task lost, only finished tasks count, crashes alone do no harm, the job ends; words are counted | 78 000 |
| `ctrler` | 4 shards, 2 calls and commands of other servers (a join of group 1, one of groups 2 and 3, a leave, a move, a query), 4 entries, a change of leader or a restart | configurations stay whole, joins level the load, waiters and answers match, reads are fresh; joins and leaves for all loads of three groups | 2 200 000 |

Two further runs end in a violation, see [below](#disagreements-between-the-code-and-what-is-said-of-it).

*Why these bounds.* Elections need three servers: with two, a majority is everybody. Two terms are needed for a
vote request to meet a newer term, and a third would only repeat that; two faults allow a kill with a restart,
or a kill in the middle of a save and a lost call; one late call is enough to arrive after any other step.
Replication is between a leader and one follower at a time, and the handlers of different followers meet only in
the commit rule: two servers show what a call and a reply can do to a log, three show the commit rule. Two
servers commit alone (rank `size/2` of two), so `raft_replication` and `raft_diverged` see *more* commits than
an odd group would. A log with conflicts needs three terms and would cost deep searches from `Init`;
`raft_diverged` begins where two logs have parted. That state is reachable: TLC finds a behaviour of `Spec` on
two servers, with three terms and two entries and neither a late call nor a fault, that ends in it. The same was
done for the state that `raft_majority` begins in. The bounds on `MapReduce` have more map than reduce tasks, so
that an id may be past the end of `reduceTasks_`; one slow worker is enough for a task to be committed twice or
counted twice. The controller's four entries allow two groups to join in any order with a leave or a move
between them (of a join of groups 2 and 3 the log holds group 2 only), and `StaysWhole` and `JoinsLevel` are
about one step from any configuration reached, also from broken ones that happen to be whole; three groups, in
every distribution of the shards, are the assumptions `BalancedIsLevel` and `LeavesStayWhole` of
`MCShardCtrler`. Two calls are what it takes for one to be given the index of the other, and for a read to
follow an answer. The two threads are interchangeable, hence the symmetry.

The threads of elections need two campaigns that meet (a third finds what the second left) and two peers,
one of which is not needed for the majority. In `log_threads` entries can pile up behind a call with
two of them, and a second leadership would differ from the first in nothing but the indices it begins
with; that the invariants of both modules hold for any number of them is proved. The clock of `persister` passes
from 9 to 10, so that a name grows a digit, and sizes 1 and 3 over chunks of 2 give a flush before each
entry, after two of them, and of an entry larger than a chunk. Three entries are enough for a hole in the middle of a log, at its
beginning (a log that begins with 2) and behind what the files hold; two faults for a kill and a reboot, two
kills with a start between them, or a read past the end after a kill. TLC reaches a start that aborts with the names in
order, by a hole. Three calls of two clerks let one clerk
begin again, or send a second copy, while the other's call is under way; `kvraft` starts when server 0 has
won the first election; until then calls are only refused. Its clerks read, or write a value with
a blank; that the answer to a write may be another's shows with these two.

`CHECK_DEADLOCK FALSE` is set everywhere: bounded models of Raft end when terms and faults are used up,
a MapReduce job really does end, and the controller stops when its log is full.

*Fairness.* The specifications of `Raft`, `KVRaft`, `Persister` and `ShardCtrler` have none. Time is not
modelled, so no timeout is ever sure to come in time. `FairSpec` of `ElectionThreads` and `LogThreads` assumes
that threads are scheduled (weak fairness of each thread's steps), that a call returns or ends in an exception,
which `RPC_TIMEOUT` sees to, and that the destructor runs through; nothing is assumed of election timeouts,
clients and other servers, and failed or rejected calls are bounded (a peer that never answers is sent to
for ever). A notification that falls into a gap is no matter of fairness: the liveness
properties name it as the one way out. `FairSpec` of `MapReduce` assumes that a living worker goes on, that a call which
has left reaches the master, and that `detectTimeoutTask`, an endless loop, finds a task that nobody
works on. It assumes nothing about tasks that are merely slow, whose time-outs are bounded by
`MaxSlow`; and the instance leaves one worker alive (`MaxCrashes` is less than the number of workers).
`JobEnds` allows the master to end in undefined behaviour instead; `CrashesDoNoHarm`, in the same run,
excludes that as long as no living worker was too slow.

## Proofs

| theorem | module | for all |
|---|---|---|
| `TypeCorrect`: `Spec => []TypeOK` | `RaftProofs` | groups, bounds, contents of `Memory` |
| `AppliesCommitted` (`AppliesOnlyCommitted`), `StateMachinesAreBehind` (`AppliedIsSaved`), `LeadersOnlyAppend` (`LeaderAppendOnly`), `AcknowledgedIsStored` (`AckMeansStored`) | `RaftProofs` | " |
| `OddGroupsCommitWithMajority` (`CommitsWithMajority`) | `RaftProofs` | groups of odd size |
| `VotesOnce` (`OneVotePerTerm`), `WinnersAreUnique` (`UniqueWinners`), `CampaignsAreNew` (`CampaignsInNewTerms`), `ElectionsImplementVoting` (`ImplementsVoting`) | `RaftProofs` | groups, bounds, contents of `Memory` |
| `TypeCorrect`, `VotersWakeTheWaiter` (`SleepersAreWoken`), `ThreadOfItsState` (`StateHasItsThread`) | `ElectionThreadsProofs` | numbers of peers, elections, leaders |
| `TypeCorrect`, `ReplicatorsAwake` (`SleepsOnWorkIfMissed`), `ApplierAwake` (`IdleUnlessMissed`) | `LogThreadsProofs` | numbers of peers, entries, leaderships, failures |
| `TypeCorrect`, `LogIsSavedWhole` (`NothingIsSkipped`), `AbortsByNamesOrHoles` (`StartsAgain`), `BufferIsBounded` (`LossIsBounded`), `FlushesAreFound` (`FlushedIsFound`) | `PersisterProofs` | logs, sizes of entries and chunks, times, kills and reboots |
| `TypeCorrect`, `PromisesAreKept` (`PromiseIsKept`), `TermTells` (`TermTellsOwner`), `RepliesAreOwn` (`RepliesMatch`), `StoreIsImplemented` (`ImplementsStore`) | `KVRaftProofs` | numbers of servers, clerks, calls, terms, faults; keys and values |
| `TypeCorrect`, `NoTaskIsLost`, `OnlyFinishedTasksCount`, `CrashesAreHarmless` (`CrashesDoNoHarm`) | `MapReduceProofs` | numbers of workers, tasks, crashes, time-outs |
| `AnswersCome` (`AnswerWillCome`), `WaitersAreAlone` (`OneWaiter`), `QueriesAreFresh` (`ReadsAreFresh`), `ConfigsStayWhole` (`StaysWhole`), `JoinsLevelLoads` (`JoinsLevel`) | `ShardCtrlerProofs` | numbers of threads, groups, shards, entries, changes |

Every invariant and every action property of the runs that pass is proved.

*Assumptions.* `BoundsAssumption` and `MemoryAssumption` in `RaftLog` (the bounds are natural numbers, `Memory`
holds entries or `NoEntry`), `ServerAssumption` (a finite group, `NULL_HOST` not in it), `TaskAssumption` (at
least one map and one reduce task), `KVAssumption` (at least one server, commands that clerks can send,
`NoValue` not a value), `LogsAssumption` (bounds; the applier is no peer), `CtrlerAssumption` (bounds, commands that
clients can send, at least one shard), `PersisterAssumption` (bounds and sizes are natural numbers, the machine boots
within the times there are). That a group has an odd number of servers (`OddGroup`) is assumed by
`OddGroupsCommitWithMajority` alone, and needed there.

*Types.* That every index stays a natural number is less obvious than it looks: `nextIndex_` falls to
the `prevLogIndex` of a rejected call, and entries come from undefined memory. The first part of `RaftProofs` states
what each operator on logs returns, and each action uses one of those lemmas.

*Replication.* No log matching is proved, for the code has none. What a step may do to one server is a case
of its own, `Moves(t)`: its process ends, starts, or lives on, and then the commit index does not fall,
the applier stays behind it, the Persister keeps up with it, and the log of a leader stays or gets one more entry.
`Moves` is shown of each action once and gives three theorems: with `MayApply` (what is applied and what was
gathered end below the commit index), `KeepsUp` and `Gone` (a process that ended leads nobody and has an empty
buffer) it is the inductive invariant `AppliedInv`. `KeepsUp` says that `lastInBufLogId_` is the number of entries
in the files and the buffer and `commitIndex_` is not above it, if these entries are 1, 2, 3 and so on; otherwise
nothing is claimed, for then `saveLogs` counts positions. A prefix of entries without a hole has none, so a step
needs only what `saveLogs` adds.
`OddGroupsCommitWithMajority` is about the sorted `matchIndex_`: with `2h + 1` indexes, those up to the one of rank `h`
are more than half. `AcknowledgedIsStored` follows the scan of `appendEntries`: in a log without holes an entry is at
the position its index says; up to where the scan stops the entries of the call are there, and the rest is
appended behind them.

*Elections.* Neither `OneVotePerTerm` nor `UniqueWinners` is inductive. `ElectionInv` adds:

- `SavedVotes`: no vote of a server is for a term above the term in `meta.dat`, and one for that very
  term is the vote in `meta.dat`. The bound is the *saved* term: `appendEntries` raises `currentTerm_`
  and clears `votedFor_` without saving.
- `SavedState`: the term in memory is at least the saved one, and in the saved term the server still
  remembers the saved vote. So the unsaved change is harmless: it only makes the server refuse more.
- `CountedVotes`: the votes an election thread has counted were given, in the thread's own term and to
  its own server, also after the server went on to another term.
- `WonByMajority`: behind each winner stands a majority of votes for it in its term.

Two majorities share a server, which voted once: `UniqueWinners`. All of it is for servers whose
`meta.dat` was never emptied by a kill (`metaLost`); the exception is real (`Persister.cpp:60`). A step
of `Raft` adds one ballot, or one winner with its majority, or one forgetful server, or nothing: a
step of `Voting` or a stutter.

*MapReduce.* `JobInv` adds to the properties that a worker has ids of its own kind of task, that nothing
of the reduce phase has begun before the switch, and that in the reduce phase all map results are there, so
what is read, written and committed in it is whole. The cases worth reading are `AssignTask` (an idle
id behind the popped ones stays queued), the switch of phase (all reduce ids are appended behind
whatever is left in the queue) and `DetectTimeoutTask`. `CrashesDoNoHarm` holds of a system without slow
workers only, so its invariant is `InTime`: if no time-out has hit a living worker, the system is `Orderly`. Then the
queue is exactly the idle tasks, each once, `inProgress_` the tasks in progress, each of which has one holder at most,
and nobody holds any other task: a commit, also one that was sent before a crash, is the first of its task, and a
phase begins with nothing left of the last one.

*Election threads.* `ThreadsInv` adds that the counters of an election agree with where its calling threads are (`Counted`),
and that when all of them have ended a thread that sleeps, or is about to, missed the last notification
(`LastNotifyMissed`). As long as one has not ended, it will still notify. `StateHasItsThread` is inductive on types.

*Log threads.* `TypeOK` needs `Elected`: once the server has led, `nextIndex_` is above 0, and before that no
replicator builds a call, so that the entry before the first of a call has an index. The other two are
inductive: a thread goes to sleep only by way of the gap, it enters the gap only when it saw no work, and work
that comes while it is there makes it miss the notification.

*Persister.* The properties speak of names in order, and those about whole logs of saves that met no hole. The invariant
`LogIsWhole` says of every state in which the order of the names is the order of the flushes and no hole is in the
files: no start has aborted, the files, in that order, are the log up to some index, and, if no hole is in the
buffer either, files and buffer together are the log up to `lastInBufLogId`. A later flush has a later place in that
order or makes the names disagree, for good; so a step needs only the last chunk. `LoopIsInStep` carries this through
the loop of `saveLogs`: without a hole `i` is `lastInBufLogId_ + 1`, and the deque has every index up to the
commit index at its place, so the entry at the position computed is the entry of that index. That
decimal names sort as they do is no assumption: `Digits` is shown to tell numbers apart, and the comparison of
strings to be an order. `SizeIsCounted` (`estimateLogBufSize_` is the size of the buffer) gives the bound on the
loss; it and `FlushedIsFound` hold with holes too.

*Data.* The library's induction theorems cannot be used, as they take an operator. Induction is by the
least counterexample instead: `LeastOf` in `OrderFacts` gives the least number for which a claim is false, and the
claim just below it gives the contradiction. So recursive functions (`Digits`, the rounds of `Balanced`) are shown to
be what their definitions say, sums over sequences are built up, and `ListedInOrder` shows that a finite
set with an order on it has its list: chunk files by name, loads by size.

*Key-value service.* `PromiseIsKept` is inductive on types. `TermTellsOwner` needs `TermInv`: a term has one
leader, its log reaches as far as every entry and every call of the term, and an entry of the term of a call, at
the index of the call, is the call's own in any log. `RepliesMatch` needs `ConnInv`: a call that still has its
connection is the one its clerk waits for, and at most one reply waits on a clerk's connections, which is to
that call.

The refinement adds `LogInv` (each RPC has at most one entry in a log, entries come from accepted RPCs, the
newest leader has all that is agreed on), `MapInv` (`um_` of a server is the map after the entries it has
applied, and `did` is what these did), `OwnReplies` (a reply marked as its own is what the RPC's
agreed entry did) and `LatestCalls`. An agreed entry stays, so a server that applies an entry
late, again after a restart, or as a leader that was replaced, computes what the abstract map did when
the entry was agreed on. `Commit` is the abstract `Execute`, the clerk's steps are `Begin`, `Resend` and
`Return`, all others stutter.

*Shard controller.* `WaitersRegistered` (who waits has the promise of its index in `waits_`) is enough for
`AnswerWillCome`, and with the exception of `get_future` for `OneWaiter`. `ReadsAreFresh` counts: the list of
configurations is as long as the number of commands applied that are no queries, plus one (`ListInv`), so what a
query saw before it began is at most what the entries before its own make (`SeenInv`), although the list is
rebuilt after a restart and the log's tail may be replaced.

`StaysWhole` and `JoinsLevel` are about one command and rest on `HostsInv` (the groups of a configuration are ones that
clients name). `IsState` is the invariant of the loop of `handleJoin`: the list names each group once with the number of its
shards, no shard is in two sets, and the last load is not below the first; a round leaves no shard without a group either
(`Covers`). The order of the two loads is what
one step of sifting leaves true for any number of groups, so that a round always takes a shard from a group
that has one. For `JoinsLevel`, one step of sifting keeps two or three loads sorted, and each round brings the least and the
greatest closer (`LevelAfter`); with four groups that is false, and the property does not say it.

*Only model-checked.* Liveness (`JobEnds`, `ElectionsEnd`, `ThreadsEnd`, `StartedIsSent`, `CommittedIsApplied`,
`ThreadsExit`), which is beyond the prover, as is `ENABLED`; and what `WordCount` computes, which TLC checks for all small
files. No module uses a `RECURSIVE` operator: the recursive parts of the code are described by what they compute, or by
recursive functions and folds.

## Disagreements between the code and what is said of it

Two have a run of their own that ends in the violation, and an entry under "findings" of `PROJECT.json`.

| run | what TLC finds |
|---|---|
| `raft_two_leaders` | two leaders in one term: the candidate's term was raised after its campaign, and `async_startElection` tests only `state_` |
| `raft_keeps_committed` | an old heartbeat deletes committed entries: `prevLogTerm` is compared with the last entry |

Seen in the source while modelling, and not given a run:

- *Raft.* A kill between the rename of `meta.dat` and the flush of its stream leaves it empty and the vote
  forgotten (`Persister.cpp:58-63`, which `doc/Raft.md:387` calls atomic; `metaLost` in `Raft`).
  `appendEntries` never saves the term it raises, though `doc/Raft.md:376` wants it saved first (`VotesOnce` shows that
  one vote per term survives this). A rejected call may set `nextIndex_` to 0, and the leader then aborts in
  `getLogByLogIndex` (`raft.cpp:416`, `371`; the actions `...Aborts`). In a group of even size the leader commits with one
  server less than a majority (`raft.cpp:411`). The comparison of logs in `requestVote` only writes a line to the
  log (`raft.cpp:132`), so a candidate with an outdated log is given a vote. Popping the entry at `prevLogIndex` leaves
  a hole that `Persister.cpp:150` finds at the next start (in `Raft` as `proc[s] = "invalid log sequence"`).
  A new leader does not wake its replicators (`raft.cpp:352`): what is missing elsewhere is sent after the next command.
- *Threads.* `cv.notify_one` without the mutex (`raft.cpp:617`) may leave the election thread asleep for ever, and no
  election can begin any more; `doc/Raft.md:97` wants the condition variable to end an election at once. In
  `ElectionsEnd` this is `Stuck`.
- *Persister.* After a reboot of the machine, or when the time in the names grows a digit, newer chunks are read before older
  ones and `checkState` ends every later start (`Persister.cpp:176`). Two flushes in one millisecond overwrite a chunk;
  if it was the first, nobody notices (`Persister.cpp:134`). `saveLogs` takes the entry at a position for the entry of an
  index (`Persister.cpp:71`): of a log with a hole it saves entries beyond the commit index, or one twice, or reads
  past the end, and the next start aborts on chunks whose names are in order (`StartsAgain` has this exception).
- *Snapshots.* `KVRaft::startSnapShot` never calls its callback, so the first snapshot never ends and no other begins; the
  state machine of the Raft test calls it with index 0 and writes no file. What
  would follow has flaws of its own: `commitSnapshot` sets `lastIncludeIndex_` to the term (`Persister.cpp:207`),
  `compactLogs` opens the chunks by their bare names, `installSnapshot` never advances its offset (`raft.cpp:295`),
  and the two snapshot numbers are passed to `loadRaftState` in the other order (`raft.cpp:80`).
- *Key-value service.* APPEND assigns (`KVRaft.cpp:168`); a value with a blank is cut at it; a request that is sent again
  after an exception may take effect twice, the second time over another clerk's write (`KVStore` allows one effect
  for each copy); an answer may be another client's, which the term that `start` returns would show
  (`TermTellsOwner`).
- *MapReduce.* The second commit of a reduce task removes the output of the first, which is the same file
  (`master.cpp:154`, with the comment of lines 147-150).
- *Controller.* After two joins and a leave `shard2gid` may name a group that left (`ShardCtrler.cpp:195`). A join of a group
  that is there already empties its set, and its shards belong to nobody. Of several groups that join in one call only
  the first does, which `test_shardkv.cpp:343` does not notice as it lets the others leave again. `handleLeave`
  gives all shards to the group with the largest id (`GInfo::Cmp`). With four groups the loop of
  `handleJoin` may stop at a difference of two. A thread that registers after its entry was applied is
  never answered (`ShardCtrler.cpp:325`; in `KVRaft` as well).

## Not modelled

- Snapshots (`installSnapshot`, `async_sendSnapshotTo`, `async_startSnapShot`, `commitSnapshot`, `compactLogs`,
  `KVRaft::startSnapShot`, `applySnapShot`): no state machine of the repository ever reports a snapshot of an index
  above 0. `KVRaft`'s never reports one; that of the Raft test calls back with `(0, 0)` (`test/raft/RaftProcess.hpp:28-32`),
  which compacts no entry and leaves the two numbers 0, so no snapshot is ever sent. `SnapshotIndex` and `SnapshotTerm`
  are the constants of the initial state.
- Real time, and with it whether a candidate ever wins.
- A loss of power, after which a renamed file may be missing.
- The Thrift library and its generated code. What a caller sees of it is in the models: a reply, or an exception with
  the call lost, executed late or refused; in `KVRaft` also the order of replies on a connection.
- The shard groups. `ShardKV` and its clerk are stubs and `ShardGroup`'s table of shards is never filled, so no request
  reaches a shard: there is no behaviour to state anything about.
- The clerk of the controller as a module of its own: its loop is that of `KVClerk` with a flag instead of a code, and
  `ShardCtrler` lets any command come more than once.
- Helpers: process and flag handling, timers, formatting, `analyze_log.py`. `ClientManager` is part of `KVRaft`.

## Plan

What is left, in order of importance:

1. Proof that the outputs of a job are counted (`WordCount`) for all files, by least counterexample as in
   `PersisterProofs`, where TLC checks all small files now.
2. An abstract log for the Persister, of which the saved part is lost only as far as the buffer reaches, with
   `Persister` shown to implement it; the invariant for that is there (`LogIsWhole`).
3. A composition of `KVRaft` with `Raft` itself in place of the abstract logs, which would need a Raft whose committed
   entries stay: `raft_keeps_committed` shows that they need not.
