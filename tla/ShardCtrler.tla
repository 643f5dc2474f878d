----------------------------- MODULE ShardCtrler -----------------------------
(***************************************************************************)
(* One server of the shard controller (src/src/shardkv/ShardCtrler.cpp):   *)
(* the list of configurations that join, leave and move append to, and the *)
(* Thrift threads that hand a command to Raft and wait until the entry at  *)
(* the index they were told is applied.                                    *)
(*                                                                         *)
(* Raft is abstracted to what the controller sees of it: a log that this   *)
(* server appends to while it leads, whose tail another leader may replace *)
(* as long as it is not agreed on, and which is applied in order.          *)
(***************************************************************************)
EXTENDS Integers, FiniteSets, SequencesExt, FiniteSetsExt

CONSTANTS
    Gid,          \* the ids of groups that clients name
    NumShards,    \* the argument shards of the constructor
    Thread,       \* the Thrift threads, each of which executes one call of a client
    Elsewhere,    \* stands for the caller of a command that came in at another server
    Command,      \* the commands that clients send
    MaxLog,       \* bound: entries in the log
    MaxChanges    \* bound: changes of the leader, and restarts

LATEST_CONFIG_NUM == -1
INVALID_GID == -1
Shard == 0 .. NumShards - 1

JoinArgs  == [op : {"JOIN"}, gids : (SUBSET Gid) \ {{}}]
LeaveArgs == [op : {"LEAVE"}, gids : (SUBSET Gid) \ {{}}]
MoveArgs  == [op : {"MOVE"}, shard : Shard, gid : Gid]
QueryArgs == [op : {"QUERY"}, configNum : {LATEST_CONFIG_NUM} \cup Nat]

Commands == JoinArgs \cup LeaveArgs \cup MoveArgs \cup QueryArgs

ASSUME CtrlerAssumption ==
    /\ Gid \subseteq Nat /\ IsFiniteSet(Gid)
    /\ NumShards \in Nat \ {0}
    /\ \A c \in Command : c \in Commands
    /\ Elsewhere \notin Thread
    /\ MaxLog \in Nat /\ MaxChanges \in Nat

VARIABLES
    configs,          \* configs_; the number of a configuration is its position
    waits,            \* waits_: the indices with a promise
    lastApplyIndex,   \* lastApplyIndex_
    log,              \* Raft: the log of this server
    agreed,           \* Raft: that many entries will not be replaced any more
    leader,           \* Raft: this server leads
    changes,          \* changes of the leader and restarts so far
    call,             \* what each thread is doing, and its last reply
    shown             \* history: the newest configuration that an answer followed

vars == <<configs, waits, lastApplyIndex, log, agreed, leader, changes, call, shown>>

-----------------------------------------------------------------------------
\* Configurations.

\* Config, whose number is its position in configs.
Config(gid2shards, shard2gid, groupHosts) ==
    [gid2shards |-> gid2shards, shard2gid |-> shard2gid, groupHosts |-> groupHosts]

HeldBy(config, g) ==
    IF g \in DOMAIN config.gid2shards THEN config.gid2shards[g] ELSE {}

\* The list of S that std::sort makes, whose k-th element has k - 1 before it.
\* The empty list makes TLC compute it once, and not where it is applied.
InOrder(S, Before(_, _)) ==
    <<>> \o [k \in 1 .. Cardinality(S) |->
                CHOOSE x \in S : Cardinality({y \in S : Before(y, x)}) = k - 1]

\* GInfo::operator<, and a stable sort of infos that gid2shards has by their gid:
\* std::sort only inserts below 16 elements.
Lighter(a, b) ==
    a.shardCnt < b.shardCnt \/ (a.shardCnt = b.shardCnt /\ a.gid < b.gid)

SortedInfo(held) ==
    InOrder({[gid |-> g, shardCnt |-> Cardinality(held[g])] : g \in DOMAIN held}, Lighter)

\* One step of a bubble: the loops of handleJoin never move on from i.
Sifted(info, i) ==
    IF i \in 1 .. Len(info) - 1 /\ info[i + 1].shardCnt < info[i].shardCnt
    THEN [info EXCEPT ![i] = info[i + 1], ![i + 1] = info[i]]
    ELSE info

IsEven(info) ==
    Last(info).shardCnt - Head(info).shardCnt \in -1 .. 1

\* A shard goes from the last group to the first.  The counts are those of
\* info, which a shard that both groups hold puts out of step with the sets.
Round(state) ==
    LET max == Last(state.info).gid
        min == Head(state.info).gid
        sid == Min(state.held[max])
        info == [state.info EXCEPT ![1].shardCnt = @ + 1, ![Len(state.info)].shardCnt = @ - 1]
    IN [held |-> [state.held EXCEPT ![max] = @ \ {sid}, ![min] = @ \cup {sid}],
        info |-> Sifted(Sifted(info, 1), Len(info) - 1)]

\* Each round lowers a count that is above another: no more rounds than counts.
Balanced(held) ==
    LET rounds == NumShards * Cardinality(DOMAIN held)
        state[n \in 0 .. rounds] ==
            IF n = 0 THEN [held |-> held, info |-> SortedInfo(held)]
            ELSE LET last == state[n - 1]
                 IN IF IsEven(last.info) THEN last ELSE Round(last)
    IN state[rounds].held

\* A group that joins again starts with no shards.  The first groups are dealt
\* all shards.
Joined(config, gids) ==
    LET order == InOrder(gids, <)
        dealt == [s \in Shard |-> order[(s % Len(order)) + 1]]
        noGroup == DOMAIN config.gid2shards = {}
    IN Config([g \in DOMAIN config.gid2shards \cup gids |->
                  IF noGroup THEN {s \in Shard : dealt[s] = g}
                  ELSE IF g \in gids THEN {} ELSE config.gid2shards[g]],
              IF noGroup THEN dealt ELSE config.shard2gid,
              config.groupHosts \cup gids)

MutantJoin(config, gids) == Joined(config, gids)

\* Shards move between the sets of gid2shards, and shard2gid stays as it is.
Join(config, gids) == [Joined(config, gids) EXCEPT !.gid2shards = Balanced(@)]

\* GInfo::Cmp orders the queue by gid, so its top is always the largest one.
Heir(rest) == Max(rest)

Leave(config, gids) ==
    LET rest == DOMAIN config.gid2shards \ gids
        shards == UNION {HeldBy(config, g) : g \in gids}
        heir == IF rest = {} THEN INVALID_GID ELSE Heir(rest)
    IN Config([g \in rest |-> config.gid2shards[g] \cup (IF g = heir THEN shards ELSE {})],
              [s \in Shard |-> IF s \in shards THEN heir ELSE config.shard2gid[s]],
              config.groupHosts \ gids)

\* Both gid2shards[oldGid] and gid2shards[gid] come into being when looked up.
Move(config, sid, gid) ==
    LET oldGid == config.shard2gid[sid]
    IN Config([g \in DOMAIN config.gid2shards \cup {oldGid, gid} |->
                  CASE g = gid -> HeldBy(config, g) \cup {sid}
                    [] g # gid /\ g = oldGid -> HeldBy(config, g) \ {sid}
                    [] OTHER -> config.gid2shards[g]],
              [config.shard2gid EXCEPT ![sid] = gid],
              config.groupHosts)

\* CtrlerArgs: serialize writes all groups of a join, deserialize reads one.
Received(cmd) ==
    IF cmd.op = "JOIN" THEN [cmd EXCEPT !.gids = {Min(cmd.gids)}] ELSE cmd

MutantHandled(list, cmd) ==
    LET config == Last(list)
    IN CASE cmd.op = "JOIN"  -> Append(list, Join(config, cmd.gids))
         [] cmd.op = "LEAVE" ->
              Append(list, [Leave(config, cmd.gids) EXCEPT !.shard2gid = config.shard2gid])
         [] cmd.op = "MOVE"  -> Append(list, Move(config, cmd.shard, cmd.gid))
         [] cmd.op = "QUERY" -> list

\* handleJoin, handleLeave and handleMove push a configuration.
Handled(list, cmd) ==
    LET config == Last(list)
    IN CASE cmd.op = "JOIN"  -> Append(list, Join(config, cmd.gids))
         [] cmd.op = "LEAVE" -> Append(list, Leave(config, cmd.gids))
         [] cmd.op = "MOVE"  -> Append(list, Move(config, cmd.shard, cmd.gid))
         [] cmd.op = "QUERY" -> list

-----------------------------------------------------------------------------
\* Replies.

NoConfig == -1

\* A reply carries the number of its configuration; whether it is that to the
\* caller's own entry is history.
Reply(code, config, own) == [code |-> code, config |-> config, own |-> own]

Failure(code) == Reply(code, NoConfig, FALSE)

MutantAnswer(t, list, entry) ==
    LET cn == entry.cmd.configNum
        newest == Max({0, Len(list) - 2})
        reply == Reply("SUCCEED", NoConfig, entry.by = t)
    IN CASE entry.cmd.op # "QUERY" -> reply
         [] entry.cmd.op = "QUERY" /\ cn = LATEST_CONFIG_NUM -> [reply EXCEPT !.config = newest]
         [] OTHER -> reply

\* handleQuery, and defaultReply for the others.
Answer(t, list, entry) ==
    LET cn == entry.cmd.configNum
        newest == Len(list) - 1
        reply == Reply("SUCCEED", NoConfig, entry.by = t)
    IN CASE entry.cmd.op # "QUERY" -> reply
         [] entry.cmd.op = "QUERY" /\ cn = LATEST_CONFIG_NUM -> [reply EXCEPT !.config = newest]
         [] entry.cmd.op = "QUERY" /\ cn \in 0 .. newest -> [reply EXCEPT !.config = cn]
         [] OTHER -> [reply EXCEPT !.code = "ERR_NO_SUCH_SHARD_CONFIG"]

Idle == [pc |-> "idle", logId |-> 0, latest |-> FALSE, seen |-> 0, reply |-> Failure("NONE")]

Failed(code) == [Idle EXCEPT !.pc = "done", !.reply = Failure(code)]

-----------------------------------------------------------------------------
\* The server.

FirstConfig ==
    Config([g \in {} |-> {}], [s \in Shard |-> INVALID_GID], {})

Init ==
    /\ configs = <<FirstConfig>>
    /\ waits = {}
    /\ lastApplyIndex = 0
    /\ log = <<>>
    /\ agreed = 0
    /\ leader = FALSE
    /\ changes = 0
    /\ call = [t \in Thread |-> Idle]
    /\ shown = 0

\* A call comes in and goes through raft_->start, to the end where not the leader.
CallRefused(t, cmd) ==
    /\ call[t].pc = "idle"
    /\ ~leader
    /\ call' = [call EXCEPT ![t] = Failed("ERR_WRONG_LEADER")]
    /\ UNCHANGED <<configs, waits, lastApplyIndex, log, agreed, leader, changes, shown>>

AsksLatest(cmd) == cmd.op = "QUERY" /\ cmd.configNum = LATEST_CONFIG_NUM

Start(t, cmd) ==
    /\ call[t].pc = "idle"
    /\ leader
    /\ Len(log) < MaxLog
    /\ log' = Append(log, [cmd |-> Received(cmd), by |-> t])
    /\ call' = [call EXCEPT ![t] =
                  [Idle EXCEPT !.pc = "register", !.logId = Len(log) + 1,
                               !.latest = AsksLatest(cmd),
                               !.seen = IF AsksLatest(cmd) THEN shown ELSE 0]]
    /\ UNCHANGED <<configs, waits, lastApplyIndex, agreed, leader, changes, shown>>

MutantRegister(t) ==
    /\ call[t].pc = "register"
    /\ waits' = waits \cup {call[t].logId}
    /\ call' = [call EXCEPT ![t].pc = "wait"]
    /\ UNCHANGED <<configs, lastApplyIndex, log, agreed, leader, changes, shown>>

\* waits_[logId].get_future() throws where the future was fetched before; the
\* client sees a failed call.
Register(t) ==
    /\ call[t].pc = "register"
    /\ waits' = waits \cup {call[t].logId}
    /\ call' = [call EXCEPT ![t] =
                  IF call[t].logId \in waits
                  THEN Failed("ERR_REQUEST_FAILD")
                  ELSE [@ EXCEPT !.pc = "wait"]]
    /\ UNCHANGED <<configs, lastApplyIndex, log, agreed, leader, changes, shown>>

IsAnswered(t, index) ==
    call[t].pc = "wait" /\ call[t].logId = index /\ index \in waits

MutantWaitsAfter(index) == {i \in waits : i > index + 1}

WaitsAfter(index) == waits \ {index}

Apply ==
    LET index == lastApplyIndex + 1
    IN /\ index <= Len(log)
       /\ configs' = Handled(configs, log[index].cmd)
       /\ call' = [t \in Thread |->
                     IF IsAnswered(t, index)
                     THEN [call[t] EXCEPT !.pc = "done", !.reply = Answer(t, configs', log[index])]
                     ELSE call[t]]
       /\ shown' = IF \E t \in Thread : IsAnswered(t, index)
                   THEN Max({shown, Len(configs') - 1}) ELSE shown
       /\ waits' = WaitsAfter(index)
       /\ lastApplyIndex' = index
       /\ agreed' = Max({agreed, index})
       /\ UNCHANGED <<log, leader, changes>>

-----------------------------------------------------------------------------
\* What Raft does underneath.

Lead ==
    /\ ~leader
    /\ leader' = TRUE
    /\ UNCHANGED <<configs, waits, lastApplyIndex, log, agreed, changes, call, shown>>

\* Another server leads, and its log has not all of ours.
Follow(kept) ==
    /\ leader
    /\ changes < MaxChanges
    /\ kept \in agreed .. Len(log)
    /\ log' = SubSeq(log, 1, kept)
    /\ leader' = FALSE
    /\ changes' = changes + 1
    /\ UNCHANGED <<configs, waits, lastApplyIndex, agreed, call, shown>>

\* An entry of another leader.
Replicate(cmd) ==
    /\ ~leader
    /\ Len(log) < MaxLog
    /\ log' = Append(log, [cmd |-> Received(cmd), by |-> Elsewhere])
    /\ UNCHANGED <<configs, waits, lastApplyIndex, agreed, leader, changes, call, shown>>

\* A new process applies the log from its beginning; its callers see failures.
Restart(kept) ==
    /\ changes < MaxChanges
    /\ kept \in agreed .. Len(log)
    /\ log' = SubSeq(log, 1, kept)
    /\ configs' = <<FirstConfig>>
    /\ waits' = {}
    /\ lastApplyIndex' = 0
    /\ leader' = FALSE
    /\ changes' = changes + 1
    /\ call' = [t \in Thread |->
                  IF call[t].pc \in {"register", "wait"} THEN Failed("ERR_REQUEST_FAILD") ELSE call[t]]
    /\ UNCHANGED <<agreed, shown>>

Next ==
    \/ \E t \in Thread, cmd \in Command : CallRefused(t, cmd) \/ Start(t, cmd)
    \/ \E t \in Thread : Register(t)
    \/ Apply
    \/ Lead
    \/ \E kept \in 0 .. MaxLog : Follow(kept) \/ Restart(kept)
    \/ \E cmd \in Command : Replicate(cmd)

Spec == Init /\ [][Next]_vars

-----------------------------------------------------------------------------
\* Properties of configurations.

Groups(config) == DOMAIN config.gid2shards

\* Each shard has exactly one group as soon as there are groups, the groups are
\* those with hosts, and without groups shard2gid says so.
IsWhole(config) ==
    /\ Groups(config) = config.groupHosts
    /\ \A g, h \in Groups(config) :
          g # h => config.gid2shards[g] \cap config.gid2shards[h] = {}
    /\ Groups(config) # {} => UNION {config.gid2shards[g] : g \in Groups(config)} = Shard
    /\ Groups(config) = {} => \A s \in Shard : config.shard2gid[s] = INVALID_GID

\* A group joins that is not there, or a shard moves to a group that is there
\* from the one that both maps give it to.
IsHarmless(cmd, config) ==
    CASE cmd.op = "JOIN" -> cmd.gids \cap Groups(config) = {}
      [] cmd.op = "MOVE" -> /\ cmd.gid \in Groups(config)
                            /\ cmd.shard \in HeldBy(config, config.shard2gid[cmd.shard])
      [] OTHER -> TRUE

AppliesOne == lastApplyIndex' = lastApplyIndex + 1

Applied == log[lastApplyIndex + 1].cmd

\* Joins, leaves and moves do not lose a shard, give it to two groups or to a
\* group without hosts, unless the configuration was broken before, a member
\* joins again or the maps disagree on a moved shard: handleJoin, handleLeave and
\* handleMove update gid2shards, shard2gid and groupHosts separately.
StaysWhole ==
    [][AppliesOne /\ IsWhole(Last(configs)) /\ IsHarmless(Applied, Last(configs))
        => IsWhole(Last(configs'))]_vars

IsLevel(config) ==
    \A g, h \in Groups(config) :
        Cardinality(config.gid2shards[g]) - Cardinality(config.gid2shards[h]) <= 1

\* "adjust the balance util the difference bwtween max load and min load is 1"
\* (handleJoin): with up to three groups the loops that sift info only one step
\* reach that, whatever leaves and moves did to the loads before.
JoinsLevel ==
    [][AppliesOne /\ Applied.op = "JOIN" /\ IsWhole(Last(configs))
            /\ IsWhole(Last(configs')) /\ Cardinality(Groups(Last(configs'))) <= 3
        => IsLevel(Last(configs'))]_vars

\* Properties of calls.

\* A thread that waits for an index still to be applied has its promise there,
\* so apply will find it, after any changes of the leader.
AnswerWillCome ==
    \A t \in Thread :
        call[t].pc = "wait" /\ call[t].logId > lastApplyIndex => call[t].logId \in waits

\* No two threads wait for the answer at one index, though a new leader may
\* take back the entry of one and give its index to the other.
OneWaiter ==
    \A t, u \in Thread :
        t # u /\ call[t].pc = "wait" /\ call[u].pc = "wait" => call[t].logId # call[u].logId

\* A query for the newest configuration that is answered from its own entry
\* sees whatever was answered before the query began, by this server and
\* also by the process before a restart.
ReadsAreFresh ==
    \A t \in Thread :
        call[t].pc = "done" /\ call[t].reply.own /\ call[t].latest
            => call[t].reply.config >= call[t].seen
=============================================================================
