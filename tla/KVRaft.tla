------------------------------- MODULE KVRaft -------------------------------
(***************************************************************************)
(* The key-value servers (src/src/kvraft/KVRaft.cpp), the clerks that call *)
(* them (KVClerk.cpp) and the connections between them (ClientManager.hpp  *)
(* and the Thrift clients).                                                *)
(*                                                                         *)
(* Raft is abstracted to what the servers see of it: logs that leaders     *)
(* append to, of which a growing part is agreed on, and of which the rest  *)
(* may be replaced when another server leads.  A server that was replaced  *)
(* as a leader need not know it yet.                                       *)
(***************************************************************************)
EXTENDS Integers, FiniteSets, SequencesExt

CONSTANTS
    NumServers,   \* the length of hosts_
    Clerk,        \* the clients, each of which makes one call after the other
    Key, Value,
    FirstWord,    \* what operator>> reads of a value that was written to a string
    Command,      \* the requests of the clerks
    NoValue,      \* stands for a key that is not in um_, and for no value in a reply
    MaxCalls,     \* bound: RPCs
    MaxTerm,      \* bound: elections
    MaxFaults     \* bound: calls that time out, and restarts

Server == 0 .. NumServers - 1
NoServer == -1

PutAppendParams == [op : {"PUT", "APPEND"}, key : Key, value : Value]
GetParams == [op : {"GET"}, key : Key]

ASSUME KVAssumption ==
    /\ NumServers \in Nat \ {0}
    /\ FirstWord \in [Value -> Value]
    /\ Command \subseteq PutAppendParams \cup GetParams
    /\ NoValue \notin Value
    /\ MaxCalls \in Nat /\ MaxTerm \in Nat /\ MaxFaults \in Nat

VARIABLES
    um,             \* um_ of each server
    lastApplyIndex, \* lastApplyIndex_
    putWait,        \* the indices with a promise in putWait_
    getWait,        \* and in getWait_
    log,            \* Raft: the log of each server
    agreed,         \* Raft: the entries that will not be replaced any more
    maps,           \* history: the map before the first of them, and after each
    did,            \* history: what each of them does
    leads,          \* Raft: the term that a server leads, 0 where it does not
    term,           \* Raft: the newest term
    faults,         \* faults so far
    handler,        \* the RPCs so far, each with the Thrift thread that executes it
    inbox,          \* replies on the present connection of a clerk to a server
    clerk           \* where each clerk is, its leaderId_, and its last outcome

raftVars == <<log, agreed, maps, did, leads, term>>
serverVars == <<um, lastApplyIndex, putWait, getWait>>
callVars == <<handler, inbox, clerk>>
vars == <<serverVars, raftVars, callVars, faults>>

-----------------------------------------------------------------------------
\* Commands as strings.

\* fmt::format writes the command with blanks between its parts, and apply reads
\* it with operator>>, which stops at a blank.
Received(cmd) ==
    IF cmd.op = "GET" THEN cmd ELSE [cmd EXCEPT !.value = FirstWord[@]]

\* putAppend_internal: APPEND assigns, too.
PutInto(map, cmd) == [map EXCEPT ![cmd.key] = cmd.value]

MutantApplied(map, cmd) == IF cmd.op = "PUT" THEN PutInto(map, cmd) ELSE map

Applied(map, cmd) == IF cmd.op = "GET" THEN map ELSE PutInto(map, cmd)

\* A reply names its call, which the protocol does not, as history.
Reply(a, code, value, own) == [call |-> a, code |-> code, value |-> value, own |-> own]

\* get_internal; the reply of putAppend_internal is always SUCCEED.
ResultOf(a, map, entry) ==
    LET isGet == entry.cmd.op = "GET"
        value == IF isGet THEN map[entry.cmd.key] ELSE NoValue
    IN Reply(a, IF isGet /\ value = NoValue THEN "ERR_NO_KEY" ELSE "SUCCEED", value, entry.by = a)

-----------------------------------------------------------------------------
\* What the service promises.

Told(reply) == [code |-> reply.code, value |-> reply.value]

Executed == {agreed[i].by : i \in DOMAIN agreed}

\* The copies of its request that a clerk has sent.
CopiesOf(c) ==
    IF clerk[c].pc = "idle" THEN {}
    ELSE {a \in clerk[c].first .. Len(handler) : handler[a].clerk = c}

Copies ==
    {[copy |-> a, cmd |-> Received(handler[a].cmd)] : a \in DOMAIN handler \ Executed}

Asks == [c \in Clerk |-> IF clerk[c].pc = "idle" THEN {} ELSE {Received(clerk[c].cmd)}]

SentCopies == [c \in Clerk |-> CopiesOf(c)]

Results ==
    [c \in Clerk |-> {did[i] : i \in {j \in DOMAIN agreed : agreed[j].by \in CopiesOf(c)}}]

Answers == [c \in Clerk |-> [reply |-> Told(clerk[c]), own |-> clerk[c].own]]

Store == INSTANCE KVStore WITH
    Copy <- 1 .. MaxCalls,
    Command <- {Received(cmd) : cmd \in Command},
    store <- Last(maps),
    copies <- Copies,
    asks <- Asks,
    sent <- SentCopies,
    results <- Results,
    told <- Answers

-----------------------------------------------------------------------------
\* Clerks: putAppend and get try leaderId_, then all hosts in order.

IdleClerk ==
    [pc |-> "idle", cmd |-> CHOOSE cmd \in Command : TRUE, leaderId |-> NoServer,
     host |-> 0, scanning |-> FALSE, call |-> 0, first |-> 1,
     code |-> "ERR_WRONG_LEADER", value |-> NoValue, own |-> TRUE]

\* putAppendTo and getTo: getClient opens a connection where there is none, and the
\* request goes out.
Sent(c, handlers, me) ==
    /\ Len(handlers) < MaxCalls
    /\ handler' = Append(handlers,
          [pc |-> "sent", clerk |-> c, server |-> me.host, cmd |-> me.cmd, logId |-> 0,
           term |-> 0, connected |-> TRUE])
    /\ clerk' = [clerk EXCEPT ![c] = [me EXCEPT !.call = Len(handlers) + 1]]

ClerkCalls(c, cmd) ==
    LET known == clerk[c].leaderId
        me == [IdleClerk EXCEPT !.pc = "recv", !.cmd = cmd, !.leaderId = known,
                                !.host = IF known = NoServer THEN 0 ELSE known,
                                !.scanning = (known = NoServer),
                                !.first = Len(handler) + 1]
    IN /\ clerk[c].pc = "idle"
       /\ Sent(c, handler, me)
       /\ UNCHANGED <<serverVars, raftVars, inbox, faults>>

IsLast(me) == me.scanning /\ me.host + 1 \notin Server

\* The next server to try: after leaderId_ the first one, then one after the other.
NextHost(me) ==
    IF me.scanning THEN [me EXCEPT !.host = @ + 1]
    ELSE [me EXCEPT !.host = 0, !.scanning = TRUE, !.leaderId = NoServer]

\* What putAppend and get do once a call has returned: the end, or the next call.
Returned(c, handlers, reply) ==
    LET me == clerk[c]
        wrong == reply.code = "ERR_WRONG_LEADER"
        outcome == [IdleClerk EXCEPT !.leaderId = IF wrong THEN NoServer ELSE me.host,
                       !.code = reply.code, !.value = reply.value, !.own = reply.own]
    IN \/ /\ wrong => IsLast(me)
          /\ clerk' = [clerk EXCEPT ![c] = outcome]
          /\ handler' = handlers
       \/ /\ wrong /\ ~IsLast(me)
          /\ Sent(c, handlers, NextHost(me))

\* The client gets the reply that is first on the connection.
ClerkReceives(c) ==
    LET s == clerk[c].host
    IN /\ clerk[c].pc = "recv"
       /\ inbox[c][s] # <<>>
       /\ inbox' = [inbox EXCEPT ![c][s] = Tail(@)]
       /\ Returned(c, handler, Head(inbox[c][s]))
       /\ UNCHANGED <<serverVars, raftVars, faults>>

\* setInvalid: what is still to come on the connection reaches nobody.
Disconnected(c, s) ==
    [a \in DOMAIN handler |->
        IF handler[a].clerk = c /\ handler[a].server = s
        THEN [handler[a] EXCEPT !.connected = FALSE] ELSE handler[a]]

MutantCaught(c) ==
    /\ Returned(c, handler, Reply(clerk[c].call, "ERR_WRONG_LEADER", NoValue, TRUE))
    /\ UNCHANGED inbox

\* Any TException: the connection is dropped, and the answer is "wrong leader".
Caught(c) ==
    /\ inbox' = [inbox EXCEPT ![c][clerk[c].host] = <<>>]
    /\ Returned(c, Disconnected(c, clerk[c].host),
                Reply(clerk[c].call, "ERR_WRONG_LEADER", NoValue, TRUE))

\* The connection is not made, or no reply comes within KV_PRC_TIMEOUT.
ClerkTimesOut(c) ==
    /\ clerk[c].pc = "recv"
    /\ faults < MaxFaults
    /\ faults' = faults + 1
    /\ Caught(c)
    /\ UNCHANGED <<serverVars, raftVars>>

\* The handler ended with an exception, or its process did.
ClerkCatches(c) ==
    /\ clerk[c].pc = "recv"
    /\ handler[clerk[c].call].pc = "failed"
    /\ Caught(c)
    /\ UNCHANGED <<serverVars, raftVars, faults>>

-----------------------------------------------------------------------------
\* Handlers: putAppend and get of a server.

\* A reply goes out on the connection its request came in on, if there still is one.
Delivered(a, reply) ==
    IF handler[a].connected
    THEN [inbox EXCEPT ![handler[a].clerk][handler[a].server] = Append(@, reply)]
    ELSE inbox

\* raft_->start on a server that is not the leader.
Refuse(a) ==
    /\ handler[a].pc = "sent"
    /\ leads[handler[a].server] = 0
    /\ handler' = [handler EXCEPT ![a].pc = "answered", ![a].connected = FALSE]
    /\ inbox' = Delivered(a, Reply(a, "ERR_WRONG_LEADER", NoValue, TRUE))
    /\ UNCHANGED <<serverVars, raftVars, clerk, faults>>

\* raft_->start on the leader, which may have been replaced and not know it.
Start(a) ==
    LET s == handler[a].server
        entry == [cmd |-> Received(handler[a].cmd), by |-> a, term |-> leads[s]]
    IN /\ handler[a].pc = "sent"
       /\ leads[s] # 0
       /\ log' = [log EXCEPT ![s] = Append(@, entry)]
       /\ handler' = [handler EXCEPT ![a] =
                        [@ EXCEPT !.pc = "register", !.logId = Len(log[s]) + 1, !.term = leads[s]]]
       /\ UNCHANGED <<serverVars, agreed, maps, did, leads, term, inbox, clerk, faults>>

IsGet(cmd) == cmd.op = "GET"

\* The indices with a promise, in the map for such commands.
WaitFor(s, cmd) == IF IsGet(cmd) THEN getWait[s] ELSE putWait[s]

\* putWait_[logId].get_future(), or getWait_[logId], makes the promise.  It throws
\* where another thread has got the future of that index.
Register(a) ==
    LET s == handler[a].server
        cmd == handler[a].cmd
        id == handler[a].logId
    IN /\ handler[a].pc = "register"
       /\ putWait' = IF IsGet(cmd) THEN putWait ELSE [putWait EXCEPT ![s] = @ \cup {id}]
       /\ getWait' = IF IsGet(cmd) THEN [getWait EXCEPT ![s] = @ \cup {id}] ELSE getWait
       /\ handler' = [handler EXCEPT ![a].pc =
                        IF id \in WaitFor(s, cmd) THEN "failed" ELSE "wait"]
       /\ UNCHANGED <<um, lastApplyIndex, raftVars, inbox, clerk, faults>>

MutantAwaits(a, s, index, cmd) ==
    /\ handler[a].pc = "wait" /\ handler[a].server = s /\ handler[a].logId \in index .. index + 1
    /\ IsGet(handler[a].cmd) = IsGet(cmd)
    /\ handler[a].logId \in WaitFor(s, cmd)

\* The thread that the promise of this index, in the map for such commands, is for.
Awaits(a, s, index, cmd) ==
    /\ handler[a].pc = "wait" /\ handler[a].server = s /\ handler[a].logId = index
    /\ IsGet(handler[a].cmd) = IsGet(cmd)
    /\ index \in WaitFor(s, cmd)

MutantErased(waits, s, index) == [waits EXCEPT ![s] = {i \in @ : i > index + 1}]

Erased(waits, s, index) == [waits EXCEPT ![s] = @ \ {index}]

\* apply: the command is executed, and the thread that waits for its index, if it
\* waits for a command of that kind, is answered.
Apply(s) ==
    LET index == lastApplyIndex[s] + 1
        entry == log[s][index]
        answered == {a \in DOMAIN handler : Awaits(a, s, index, entry.cmd)}
    IN /\ index \in DOMAIN log[s] \cap DOMAIN agreed
       /\ entry = agreed[index]
       /\ um' = [um EXCEPT ![s] = Applied(@, entry.cmd)]
       /\ lastApplyIndex' = [lastApplyIndex EXCEPT ![s] = index]
       /\ putWait' = IF IsGet(entry.cmd) THEN putWait ELSE Erased(putWait, s, index)
       /\ getWait' = IF IsGet(entry.cmd) THEN Erased(getWait, s, index) ELSE getWait
       /\ handler' = [a \in DOMAIN handler |->
                        IF a \in answered
                        THEN [handler[a] EXCEPT !.pc = "answered", !.connected = FALSE]
                        ELSE handler[a]]
       /\ inbox' = IF answered = {} THEN inbox
                   ELSE LET a == CHOOSE b \in answered : TRUE
                        IN Delivered(a, ResultOf(a, um[s], entry))
       /\ UNCHANGED <<raftVars, clerk, faults>>

\* The process of a server is killed and started again: it applies the log from
\* its beginning.
Restart(s) ==
    /\ faults < MaxFaults
    /\ faults' = faults + 1
    /\ um' = [um EXCEPT ![s] = [k \in Key |-> NoValue]]
    /\ lastApplyIndex' = [lastApplyIndex EXCEPT ![s] = 0]
    /\ putWait' = [putWait EXCEPT ![s] = {}]
    /\ getWait' = [getWait EXCEPT ![s] = {}]
    /\ leads' = [leads EXCEPT ![s] = 0]
    /\ handler' = [a \in DOMAIN handler |->
                     IF handler[a].server = s /\ handler[a].pc \in {"sent", "register", "wait"}
                     THEN [handler[a] EXCEPT !.pc = "failed"] ELSE handler[a]]
    /\ UNCHANGED <<log, agreed, maps, did, term, inbox, clerk>>

-----------------------------------------------------------------------------
\* What Raft does underneath.

\* A server wins an election: it has all that is agreed on.
Lead(s) ==
    /\ term < MaxTerm
    /\ leads[s] = 0
    /\ IsPrefix(agreed, log[s])
    /\ term' = term + 1
    /\ leads' = [leads EXCEPT ![s] = term + 1]
    /\ UNCHANGED <<serverVars, log, agreed, maps, did, callVars, faults>>

\* A server hears of the newest leader, and its log becomes the leader's.
Follow(s, leader) ==
    /\ s # leader
    /\ leads[leader] = term /\ term > 0
    /\ log[s] # log[leader] \/ leads[s] # 0
    /\ log' = [log EXCEPT ![s] = log[leader]]
    /\ leads' = [leads EXCEPT ![s] = 0]
    /\ UNCHANGED <<serverVars, agreed, maps, did, term, callVars, faults>>

\* The newest leader commits its next entry.
Commit(leader) ==
    LET entry == log[leader][Len(agreed) + 1]
    IN /\ leads[leader] = term /\ term > 0
       /\ Len(agreed) < Len(log[leader])
       /\ agreed' = Append(agreed, entry)
       /\ maps' = Append(maps, Store!Effect(Last(maps), entry.cmd))
       /\ did' = Append(did, Store!Result(Last(maps), entry.cmd))
       /\ UNCHANGED <<serverVars, log, leads, term, callVars, faults>>

-----------------------------------------------------------------------------
Init ==
    /\ um = [s \in Server |-> [k \in Key |-> NoValue]]
    /\ lastApplyIndex = [s \in Server |-> 0]
    /\ putWait = [s \in Server |-> {}]
    /\ getWait = [s \in Server |-> {}]
    /\ log = [s \in Server |-> <<>>]
    /\ agreed = <<>>
    /\ maps = <<[k \in Key |-> NoValue]>>
    /\ did = <<>>
    /\ leads = [s \in Server |-> 0]
    /\ term = 0
    /\ faults = 0
    /\ handler = <<>>
    /\ inbox = [c \in Clerk |-> [s \in Server |-> <<>>]]
    /\ clerk = [c \in Clerk |-> IdleClerk]

Next ==
    \/ \E c \in Clerk, cmd \in Command : ClerkCalls(c, cmd)
    \/ \E c \in Clerk : ClerkReceives(c) \/ ClerkTimesOut(c) \/ ClerkCatches(c)
    \/ \E a \in DOMAIN handler : Refuse(a) \/ Start(a) \/ Register(a)
    \/ \E s \in Server : Apply(s) \/ Restart(s) \/ Lead(s) \/ Commit(s)
    \/ \E s, leader \in Server : Follow(s, leader)

Spec == Init /\ [][Next]_vars

-----------------------------------------------------------------------------
\* Properties.

\* A thread that waits for an index its server has still to apply has its promise
\* in the map of its kind, whatever other threads and leaders did: apply answers
\* it unless the entry there becomes one of the other kind.
PromiseIsKept ==
    \A a \in DOMAIN handler :
        LET h == handler[a]
        IN h.pc = "wait" /\ h.logId > lastApplyIndex[h.server]
               => h.logId \in WaitFor(h.server, h.cmd)

\* putAppend and get wait for an index and forget the term that start returned: a
\* thread may be answered for another's entry.  It never is if that term is the
\* term of the applied entry, which apply gets as msg.commandTerm.
TermTellsOwner ==
    [][\A a \in DOMAIN handler :
         LET s == handler[a].server
             entry == log[s][lastApplyIndex'[s]]
         IN handler[a].pc = "wait" /\ handler'[a].pc = "answered" /\ entry.term = handler[a].term
                => entry.by = a]_vars

\* The reply that a clerk is about to read is for the call it made last: a call
\* that was given up leaves nothing behind on the connection (setInvalid).
RepliesMatch ==
    \A c \in Clerk :
        LET replies == inbox[c][clerk[c].host]
        IN clerk[c].pc = "recv" /\ replies # <<>> => Head(replies).call = clerk[c].call

\* What clerks are told is what one map did that executes each copy of a request
\* at most once, one after the other, at a moment within the call if it answers
\* the call: servers that lag, restart or lose the lead, and replies that come
\* late, do not show, except as failures and as the mistakes of TermTellsOwner.
ImplementsStore == Store!Spec
=============================================================================
