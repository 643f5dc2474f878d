-------------------------- MODULE ShardCtrlerProofs --------------------------
(***************************************************************************)
(* Theorems about ShardCtrler, for any number of threads, groups, shards,  *)
(* entries and changes of the leader: who waits and what wakes them, what  *)
(* a query may rely on, and what the commands do to a configuration.       *)
(***************************************************************************)
EXTENDS ShardCtrler, OrderFacts

Caller == Thread \cup {Elsewhere}

\* What the log holds of the commands.
Read == {Received(cmd) : cmd \in Command}

LogEntry == [cmd : Read, by : Caller]

Code ==
    {"NONE", "SUCCEED", "ERR_WRONG_LEADER", "ERR_REQUEST_FAILD", "ERR_NO_SUCH_SHARD_CONFIG"}

ReplyType == [code : Code, config : Int, own : BOOLEAN]

CallType ==
    [pc : {"idle", "register", "wait", "done"}, logId : Nat, latest : BOOLEAN, seen : Nat,
     reply : ReplyType]

\* Of the configurations only their number matters here.
IsList(list) == \E S : list \in Seq(S)

Types ==
    /\ IsList(configs)
    /\ waits \subseteq Nat
    /\ lastApplyIndex \in Nat
    /\ log \in Seq(LogEntry)
    /\ agreed \in Nat
    /\ call \in [Thread -> CallType]
    /\ shown \in Nat

-----------------------------------------------------------------------------
(***************************************************************************)
(* Data.                                                                   *)
(***************************************************************************)
LEMMA ReadType ==
    ASSUME NEW x \in Read
    PROVE  /\ x.op \in {"JOIN", "LEAVE", "MOVE", "QUERY"}
           /\ x.op = "QUERY" => x.configNum \in Int
<1>1. PICK cmd \in Command : x = Received(cmd)
  BY DEF Read
<1>2. cmd \in Commands
  BY CtrlerAssumption
<1>3. CASE cmd \in JoinArgs
  BY <1>1, <1>3 DEF JoinArgs, Received
<1>4. CASE cmd \in LeaveArgs
  BY <1>1, <1>4 DEF LeaveArgs, Received
<1>5. CASE cmd \in MoveArgs
  BY <1>1, <1>5 DEF MoveArgs, Received
<1>6. CASE cmd \in QueryArgs
  BY <1>1, <1>6 DEF QueryArgs, Received, LATEST_CONFIG_NUM
<1> QED BY <1>2, <1>3, <1>4, <1>5, <1>6 DEF Commands

LEMMA ReceivedType ==
    ASSUME NEW cmd \in Command
    PROVE  Received(cmd) \in Read /\ (AsksLatest(cmd) => AsksLatest(Received(cmd)))
BY DEF Read, Received, AsksLatest

LEMMA CallRecord ==
    ASSUME NEW pc \in {"idle", "register", "wait", "done"}, NEW logId \in Nat,
           NEW latest \in BOOLEAN, NEW seen \in Nat, NEW reply \in ReplyType
    PROVE  [pc |-> pc, logId |-> logId, latest |-> latest, seen |-> seen, reply |-> reply] \in CallType
BY DEF CallType

LEMMA CallChanges ==
    ASSUME NEW c \in CallType, NEW pc \in {"idle", "register", "wait", "done"}
    PROVE  /\ [c EXCEPT !.pc = pc] \in CallType
           /\ \A reply \in ReplyType : [c EXCEPT !.pc = pc, !.reply = reply] \in CallType
BY Zenon DEF CallType

LEMMA IdleType ==
    /\ Idle \in CallType /\ Idle.pc = "idle" /\ ~Idle.latest
    /\ \A code \in Code :
          Failed(code) \in CallType /\ Failed(code).pc = "done" /\ ~Failed(code).latest
<1>1. \A code \in Code : Failure(code) \in ReplyType
  BY DEF Failure, Reply, ReplyType, NoConfig
<1>2. Idle \in CallType
  <2>1. Failure("NONE") \in ReplyType
    BY <1>1 DEF Code
  <2>2. 0 \in Nat
    OBVIOUS
  <2> QED BY <2>1, <2>2, Zenon DEF Idle, CallType
<1>3. Idle.pc = "idle" /\ ~Idle.latest
  BY Zenon DEF Idle
<1>4. ASSUME NEW code \in Code
      PROVE  Failed(code) \in CallType /\ Failed(code).pc = "done" /\ ~Failed(code).latest
  <2>1. Failed(code) \in CallType
    BY <1>1, <1>2, CallChanges DEF Failed
  <2>2. Failed(code).pc = "done" /\ ~Failed(code).latest
    BY Zenon DEF Failed, Idle
  <2> QED BY <2>1, <2>2
<1> QED BY <1>2, <1>3, <1>4

\* push_back: the list is one longer.
LEMMA Longer ==
    ASSUME NEW list, IsList(list), NEW config
    PROVE  IsList(Append(list, config)) /\ Len(Append(list, config)) = Len(list) + 1
           /\ Len(list) \in Nat
<1>1. PICK S : list \in Seq(S)
  BY DEF IsList
<1>2. list \in Seq(S \cup {config})
  BY <1>1
<1> QED BY <1>1, <1>2 DEF IsList

LEMMA HandledType ==
    ASSUME NEW list, IsList(list), NEW cmd \in Read
    PROVE  /\ IsList(Handled(list, cmd)) /\ Len(list) \in Nat
           /\ Len(Handled(list, cmd)) = IF cmd.op = "QUERY" THEN Len(list) ELSE Len(list) + 1
<1>1. cmd.op \in {"JOIN", "LEAVE", "MOVE", "QUERY"}
  BY ReadType
<1>2. Len(list) \in Nat
  BY Longer
<1>3. CASE cmd.op = "JOIN"
  BY <1>3, Longer DEF Handled
<1>4. CASE cmd.op = "LEAVE"
  BY <1>4, Longer DEF Handled
<1>5. CASE cmd.op = "MOVE"
  BY <1>5, Longer DEF Handled
<1>6. CASE cmd.op = "QUERY"
  BY <1>2, <1>6 DEF Handled
<1> QED BY <1>1, <1>2, <1>3, <1>4, <1>5, <1>6

LEMMA MaxOfTwo ==
    ASSUME NEW a \in Int, NEW b \in Int
    PROVE  Max({a, b}) = IF a >= b THEN a ELSE b
<1> DEFINE m == IF a >= b THEN a ELSE b
<1>1. m \in {a, b} /\ \A y \in {a, b} : m >= y
  OBVIOUS
<1>2. \A x \in {a, b} : (\A y \in {a, b} : x >= y) => x = m
  OBVIOUS
<1> HIDE DEF m
<1>3. Max({a, b}) = m
  BY <1>1, <1>2 DEF Max
<1> QED BY <1>3 DEF m

LEMMA ReplyChanges ==
    ASSUME NEW r \in ReplyType
    PROVE  /\ \A cn \in Int : [r EXCEPT !.config = cn] \in ReplyType
           /\ \A code \in Code : [r EXCEPT !.code = code] \in ReplyType
BY Zenon DEF ReplyType

LEMMA AnswerType ==
    ASSUME NEW t, NEW list, IsList(list), NEW entry \in LogEntry
    PROVE  Answer(t, list, entry) \in ReplyType
<1>1. entry.cmd \in Read /\ Len(list) - 1 \in Int
  BY Longer DEF LogEntry
<1>2. entry.cmd.op = "QUERY" => entry.cmd.configNum \in Int
  BY <1>1, ReadType
<1> DEFINE reply == Reply("SUCCEED", NoConfig, entry.by = t)
<1>3. reply \in ReplyType
  <2>1. NoConfig \in Int
    BY DEF NoConfig
  <2>2. "SUCCEED" \in Code
    BY DEF Code
  <2> QED BY <2>1, <2>2, Zenon DEF Reply, ReplyType
<1> HIDE DEF reply
<1>4. \/ Answer(t, list, entry) = reply
      \/ Answer(t, list, entry) = [reply EXCEPT !.config = Len(list) - 1]
      \/ Answer(t, list, entry) = [reply EXCEPT !.config = entry.cmd.configNum]
           /\ entry.cmd.op = "QUERY"
      \/ Answer(t, list, entry) = [reply EXCEPT !.code = "ERR_NO_SUCH_SHARD_CONFIG"]
  BY DEF Answer, reply
<1>5. \A cn \in Int : [reply EXCEPT !.config = cn] \in ReplyType
  BY <1>3, ReplyChanges
<1>6. [reply EXCEPT !.code = "ERR_NO_SUCH_SHARD_CONFIG"] \in ReplyType
  BY <1>3, ReplyChanges DEF Code
<1> QED BY <1>1, <1>2, <1>3, <1>4, <1>5, <1>6

-----------------------------------------------------------------------------
(***************************************************************************)
(* Types.                                                                  *)
(***************************************************************************)
LEMMA FirstList == IsList(<<FirstConfig>>) /\ Len(<<FirstConfig>>) = 1
<1>1. \A x : <<x>> \in Seq({x}) /\ Len(<<x>>) = 1
  OBVIOUS
<1> QED BY <1>1 DEF IsList

LEMMA InitTypes == Init => Types
<1> SUFFICES ASSUME Init PROVE Types
  OBVIOUS
<1>1. IsList(configs)
  BY FirstList DEF Init
<1>2. call \in [Thread -> CallType]
  BY IdleType DEF Init
<1> QED BY <1>1, <1>2 DEF Init, Types

LEMMA Appended ==
    ASSUME Types, NEW cmd \in Command, NEW by \in Caller
    PROVE  Append(log, [cmd |-> Received(cmd), by |-> by]) \in Seq(LogEntry)
<1>1. [cmd |-> Received(cmd), by |-> by] \in LogEntry
  BY ReceivedType DEF LogEntry
<1> QED BY <1>1 DEF Types

LEMMA KeptType ==
    ASSUME Types, NEW kept \in Nat, kept <= Len(log)
    PROVE  SubSeq(log, 1, kept) \in Seq(LogEntry)
BY DEF Types

LEMMA ThreadTypes ==
    ASSUME Types, NEW t \in Thread,
           (\E cmd \in Command : CallRefused(t, cmd) \/ Start(t, cmd)) \/ Register(t)
    PROVE  Types'
<1>0. call \in [Thread -> CallType] /\ call[t] \in CallType
  BY DEF Types
<1>1. ASSUME NEW cmd \in Command, CallRefused(t, cmd) PROVE Types'
  <2>1. Failed("ERR_WRONG_LEADER") \in CallType
    BY IdleType DEF Code
  <2>2. call' \in [Thread -> CallType]
    BY <1>0, <1>1, <2>1 DEF CallRefused
  <2> QED BY <1>1, <2>2 DEF CallRefused, Types, IsList
<1>2. ASSUME NEW cmd \in Command, Start(t, cmd) PROVE Types'
  <2>1. log' \in Seq(LogEntry)
    BY <1>2, Appended DEF Start, Caller
  <2>2. Len(log) + 1 \in Nat /\ shown \in Nat /\ 0 \in Nat
    BY DEF Types
  <2> DEFINE latest == AsksLatest(cmd)
             seen == IF latest THEN shown ELSE 0
             me == [Idle EXCEPT !.pc = "register", !.logId = Len(log) + 1,
                                !.latest = latest, !.seen = seen]
  <2>3. seen \in Nat
    BY <2>2
  <2>4. latest \in BOOLEAN
    BY DEF AsksLatest
  <2>5. call' = [call EXCEPT ![t] = me]
    BY <1>2 DEF Start
  <2> HIDE DEF latest, seen
  <2>6. me \in CallType
    BY <2>2, <2>3, <2>4, IdleType, Zenon DEF CallType
  <2> HIDE DEF me
  <2>7. call' \in [Thread -> CallType]
    BY <1>0, <2>5, <2>6
  <2> QED BY <1>2, <2>1, <2>7 DEF Start, Types, IsList
<1>3. CASE Register(t)
  <2>1. Failed("ERR_REQUEST_FAILD") \in CallType
    BY IdleType DEF Code
  <2>2. [call[t] EXCEPT !.pc = "wait"] \in CallType
    BY <1>0, CallChanges
  <2>3. call' = [call EXCEPT ![t] = Failed("ERR_REQUEST_FAILD")]
        \/ call' = [call EXCEPT ![t] = [call[t] EXCEPT !.pc = "wait"]]
    BY <1>0, <1>3 DEF Register
  <2>4. call' \in [Thread -> CallType]
    BY <1>0, <2>1, <2>2, <2>3
  <2>5. waits' \subseteq Nat
    <3>1. call[t].logId \in Nat
      BY <1>0 DEF CallType
    <3> QED BY <1>3, <3>1 DEF Register, Types
  <2> QED BY <1>3, <2>4, <2>5 DEF Register, Types, IsList
<1> QED BY <1>1, <1>2, <1>3

LEMMA ApplyFacts ==
    ASSUME Types, Apply
    PROVE  LET index == lastApplyIndex + 1
           IN /\ index \in DOMAIN log /\ index \in 1 .. Len(log) /\ log[index] \in LogEntry
              /\ log[index].cmd \in Read
              /\ lastApplyIndex' = index /\ configs' = Handled(configs, log[index].cmd)
              /\ IsList(configs') /\ Len(configs) \in Nat
              /\ Len(configs') = IF log[index].cmd.op = "QUERY" THEN Len(configs) ELSE Len(configs) + 1
<1> DEFINE index == lastApplyIndex + 1
<1>1. index \in 1 .. Len(log) /\ index \in DOMAIN log /\ log[index] \in LogEntry
  <2>1. index <= Len(log)
    BY DEF Apply
  <2>2. log \in Seq(LogEntry) /\ index \in Nat \ {0}
    BY DEF Types
  <2> QED BY <2>1, <2>2
<1>2. log[index].cmd \in Read
  BY <1>1 DEF LogEntry
<1>3. lastApplyIndex' = index /\ configs' = Handled(configs, log[index].cmd)
  BY DEF Apply
<1> HIDE DEF index
<1>4. IsList(configs)
  BY DEF Types
<1>5. /\ IsList(Handled(configs, log[index].cmd)) /\ Len(configs) \in Nat
      /\ Len(Handled(configs, log[index].cmd)) =
            IF log[index].cmd.op = "QUERY" THEN Len(configs) ELSE Len(configs) + 1
  BY <1>2, <1>4, HandledType
<1>6. IsList(configs')
  BY <1>3, <1>5
<1> QED BY <1>1, <1>2, <1>3, <1>5, <1>6 DEF index

\* What apply does to a call.
LEMMA ApplyCalls ==
    ASSUME Types, Apply, NEW t \in Thread
    PROVE  LET index == lastApplyIndex + 1
           IN call'[t] = IF IsAnswered(t, index)
                         THEN [call[t] EXCEPT !.pc = "done", !.reply = Answer(t, configs', log[index])]
                         ELSE call[t]
BY DEF Apply, Types

LEMMA ApplyTypes ==
    ASSUME Types, Apply
    PROVE  Types'
<1> DEFINE index == lastApplyIndex + 1
<1>1. /\ index \in 1 .. Len(log) /\ log[index] \in LogEntry
      /\ IsList(configs') /\ Len(configs) \in Nat
  BY ApplyFacts
<1>2. call' \in [Thread -> CallType]
  <2>1. call' = [t \in Thread |-> call'[t]]
    BY DEF Apply
  <2>2. ASSUME NEW t \in Thread PROVE call'[t] \in CallType
    <3>1. call[t] \in CallType
      BY DEF Types
    <3>2. Answer(t, configs', log[index]) \in ReplyType
      BY ApplyFacts, AnswerType
    <3>3. [call[t] EXCEPT !.pc = "done", !.reply = Answer(t, configs', log[index])] \in CallType
      BY <3>1, <3>2, CallChanges
    <3> QED BY <3>1, <3>3, ApplyCalls
  <2> QED BY <2>1, <2>2
<1>3. shown' \in Nat
  <2>1. shown' \in {shown, Max({shown, Len(configs') - 1})}
    BY DEF Apply
  <2>2. shown \in Nat /\ Len(configs') - 1 \in Int
    BY ApplyFacts DEF Types
  <2> QED BY <2>1, <2>2, MaxOfTwo
<1>4. agreed' \in Nat
  <2>1. agreed' = Max({agreed, index}) /\ agreed \in Nat /\ index \in Nat
    <3>1. agreed' = Max({agreed, index})
      BY DEF Apply
    <3> QED BY <3>1 DEF Types
  <2> QED BY <2>1, MaxOfTwo
<1>5. waits' \subseteq Nat /\ log' = log /\ lastApplyIndex' \in Nat
  <2>1. waits' = waits \ {index} /\ log' = log /\ lastApplyIndex' = index
    BY DEF Apply, WaitsAfter
  <2> QED BY <2>1 DEF Types
<1>6. IsList(configs)'
  BY ApplyFacts DEF IsList
<1> QED BY <1>2, <1>3, <1>4, <1>5, <1>6 DEF Types

LEMMA RaftTypes ==
    ASSUME Types,
           Lead \/ (\E kept \in 0 .. MaxLog : Follow(kept) \/ Restart(kept))
             \/ (\E cmd \in Command : Replicate(cmd))
    PROVE  Types'
<1>1. CASE Lead
  BY <1>1 DEF Lead, Types, IsList
<1>2. ASSUME NEW kept \in 0 .. MaxLog, Follow(kept) PROVE Types'
  <2>1. kept \in Nat /\ kept <= Len(log)
    BY <1>2 DEF Follow, Types
  <2>2. log' \in Seq(LogEntry)
    BY <1>2, <2>1, KeptType DEF Follow
  <2> QED BY <1>2, <2>2 DEF Follow, Types, IsList
<1>3. ASSUME NEW kept \in 0 .. MaxLog, Restart(kept) PROVE Types'
  <2>1. kept \in Nat /\ kept <= Len(log)
    BY <1>3 DEF Restart, Types
  <2>2. log' \in Seq(LogEntry)
    BY <1>3, <2>1, KeptType DEF Restart
  <2>3. IsList(configs)'
    BY <1>3, FirstList DEF Restart, IsList
  <2>4. call' \in [Thread -> CallType]
    <3>1. Failed("ERR_REQUEST_FAILD") \in CallType
      BY IdleType DEF Code
    <3> QED BY <1>3, <3>1 DEF Restart, Types
  <2> QED BY <1>3, <2>2, <2>3, <2>4 DEF Restart, Types
<1>4. ASSUME NEW cmd \in Command, Replicate(cmd) PROVE Types'
  <2>1. log' \in Seq(LogEntry)
    BY <1>4, Appended DEF Replicate, Caller
  <2> QED BY <1>4, <2>1 DEF Replicate, Types, IsList
<1> QED BY <1>1, <1>2, <1>3, <1>4

LEMMA TypesStep ==
    ASSUME Types, [Next]_vars
    PROVE  Types'
<1>1. CASE Next
  BY <1>1, ThreadTypes, ApplyTypes, RaftTypes DEF Next
<1>2. CASE UNCHANGED vars
  BY <1>2 DEF Types, vars, IsList
<1> QED BY <1>1, <1>2

\* Every variable of the controller keeps its type, for any number of threads and groups.
THEOREM TypeCorrect == Spec => []Types
<1>1. Init => Types
  BY InitTypes
<1>2. Types /\ [Next]_vars => Types'
  BY TypesStep
<1> QED BY <1>1, <1>2, PTL DEF Spec

-----------------------------------------------------------------------------
(***************************************************************************)
(* Waiters.                                                                *)
(***************************************************************************)
\* Who waits has the promise of its index in waits_.
WaitersRegistered ==
    \A t \in Thread : call[t].pc = "wait" => call[t].logId \in waits

WaiterInv == WaitersRegistered /\ OneWaiter

\* A step after which no thread waits that did not, and no promise is gone.
LEMMA NobodyWaits ==
    ASSUME WaiterInv, waits \subseteq waits',
           \A t \in Thread : call'[t].pc = "wait" =>
              call[t].pc = "wait" /\ call'[t].logId = call[t].logId
    PROVE  WaiterInv'
BY DEF WaiterInv, WaitersRegistered, OneWaiter

\* get_future throws for the second thread that asks for an index.
LEMMA RegisterWaits ==
    ASSUME Types, WaiterInv, NEW t \in Thread, Register(t)
    PROVE  WaiterInv'
<1> DEFINE id == call[t].logId
<1>0. call \in [Thread -> CallType] /\ waits' = waits \cup {id}
  BY DEF Types, Register
<1>1. CASE id \in waits
  <2>1. call' = [call EXCEPT ![t] = Failed("ERR_REQUEST_FAILD")]
    BY <1>1 DEF Register
  <2>2. Failed("ERR_REQUEST_FAILD").pc = "done"
    BY IdleType DEF Code
  <2>3. \A u \in Thread : call'[u].pc = "wait" => call'[u] = call[u]
    BY <1>0, <2>1, <2>2
  <2> QED BY <1>0, <2>3, NobodyWaits
<1>2. CASE id \notin waits
  <2>1. call' = [call EXCEPT ![t] = [call[t] EXCEPT !.pc = "wait"]]
    BY <1>0, <1>2 DEF Register
  <2>2. call[t] \in CallType
    BY <1>0
  <2>3. call'[t].logId = id
    BY <1>0, <2>1, <2>2 DEF CallType
  <2>4. \A u \in Thread \ {t} : call'[u] = call[u]
    BY <1>0, <2>1
  <2>5. \A u \in Thread \ {t} : call'[u].pc = "wait" => call'[u].logId \in waits
    BY <2>4 DEF WaiterInv, WaitersRegistered
  <2>6. WaitersRegistered'
    BY <1>0, <2>3, <2>5 DEF WaitersRegistered
  <2>7. ASSUME NEW u \in Thread, NEW v \in Thread, u # v,
               call'[u].pc = "wait", call'[v].pc = "wait"
        PROVE  call'[u].logId # call'[v].logId
    <3>1. CASE u = t
      BY <1>2, <2>3, <2>5, <2>7, <3>1
    <3>2. CASE v = t
      BY <1>2, <2>3, <2>5, <2>7, <3>2
    <3>3. CASE u # t /\ v # t
      BY <2>4, <2>7, <3>3 DEF WaiterInv, OneWaiter
    <3> QED BY <3>1, <3>2, <3>3
  <2>8. OneWaiter'
    BY <2>7 DEF OneWaiter
  <2> QED BY <2>6, <2>8 DEF WaiterInv
<1> QED BY <1>1, <1>2

\* apply erases a promise and answers the thread that has it.
LEMMA ApplyWaits ==
    ASSUME Types, WaiterInv, Apply
    PROVE  WaiterInv'
<1> DEFINE index == lastApplyIndex + 1
<1>1. waits' = waits \ {index}
  BY DEF Apply, WaitsAfter
<1>2. ASSUME NEW t \in Thread, call'[t].pc = "wait"
      PROVE  call'[t] = call[t] /\ ~IsAnswered(t, index)
  <2>1. call[t] \in CallType
    BY DEF Types
  <2>2. \A r : [call[t] EXCEPT !.pc = "done", !.reply = r].pc = "done"
    BY <2>1 DEF CallType
  <2> QED BY <1>2, <2>2, ApplyCalls
<1>3. WaitersRegistered'
  BY <1>1, <1>2 DEF WaiterInv, WaitersRegistered, IsAnswered
<1>4. OneWaiter'
  BY <1>2 DEF WaiterInv, OneWaiter
<1> QED BY <1>3, <1>4 DEF WaiterInv

LEMMA WaitersStep ==
    ASSUME Types, WaiterInv, [Next]_vars
    PROVE  WaiterInv'
<1>0. call \in [Thread -> CallType]
  BY DEF Types
<1>1. ASSUME NEW t \in Thread, NEW cmd \in Command, CallRefused(t, cmd) PROVE WaiterInv'
  <2>1. call' = [call EXCEPT ![t] = Failed("ERR_WRONG_LEADER")] /\ waits' = waits
    BY <1>1 DEF CallRefused
  <2>2. Failed("ERR_WRONG_LEADER").pc = "done"
    BY IdleType DEF Code
  <2> QED BY <1>0, <2>1, <2>2, NobodyWaits
<1>2. ASSUME NEW t \in Thread, NEW cmd \in Command, Start(t, cmd) PROVE WaiterInv'
  <2>1. waits' = waits /\ \A u \in Thread \ {t} : call'[u] = call[u]
    BY <1>0, <1>2 DEF Start
  <2>2. call'[t].pc = "register"
    BY <1>0, <1>2 DEF Start, Idle
  <2> QED BY <2>1, <2>2, NobodyWaits
<1>3. ASSUME NEW kept \in 0 .. MaxLog, Restart(kept) PROVE WaiterInv'
  <2>1. Failed("ERR_REQUEST_FAILD").pc = "done"
    BY IdleType DEF Code
  <2>2. \A t \in Thread : call'[t].pc # "wait"
    BY <1>3, <2>1 DEF Restart
  <2> QED BY <2>2 DEF WaiterInv, WaitersRegistered, OneWaiter
<1>4. CASE Lead \/ (\E kept \in 0 .. MaxLog : Follow(kept)) \/ (\E cmd \in Command : Replicate(cmd))
  <2>1. UNCHANGED <<call, waits>>
    BY <1>4 DEF Lead, Follow, Replicate
  <2> QED BY <2>1, NobodyWaits
<1>5. CASE UNCHANGED vars
  BY <1>5, NobodyWaits DEF vars
<1> QED BY <1>1, <1>2, <1>3, <1>4, <1>5, RegisterWaits, ApplyWaits DEF Next

THEOREM WaiterInvariant == Spec => []WaiterInv
<1>1. Init => WaiterInv
  BY DEF Init, Idle, WaiterInv, WaitersRegistered, OneWaiter
<1>2. Types /\ WaiterInv /\ [Next]_vars => WaiterInv'
  BY WaitersStep
<1> QED BY <1>1, <1>2, TypeCorrect, PTL DEF Spec

\* A thread that waits for an index still to be applied finds its promise there,
\* whatever other threads, changes of the leader and restarts did.
THEOREM AnswersCome == Spec => []AnswerWillCome
<1>1. WaiterInv => AnswerWillCome
  BY DEF WaiterInv, WaitersRegistered, AnswerWillCome
<1> QED BY <1>1, WaiterInvariant, PTL

\* No two threads wait for the answer at one index.
THEOREM WaitersAreAlone == Spec => []OneWaiter
<1>1. WaiterInv => OneWaiter
  BY DEF WaiterInv
<1> QED BY <1>1, WaiterInvariant, PTL

-----------------------------------------------------------------------------
(***************************************************************************)
(* Counting.  The commands among the first k entries that are no queries:  *)
(* each of them makes a configuration.                                     *)
(***************************************************************************)
Made(k) == {i \in 1 .. k : log[i].cmd.op # "QUERY"}

Newest(k) == Cardinality(Made(k))

LEMMA MadeFinite ==
    ASSUME NEW k \in Nat
    PROVE  IsFiniteSet(Made(k)) /\ Newest(k) \in Nat
<1>1. IsFiniteSet(1 .. k) /\ Made(k) \in SUBSET (1 .. k)
  BY FS_Interval DEF Made
<1>2. IsFiniteSet(Made(k))
  BY <1>1, FS_Subset
<1> QED BY <1>2, FS_CardinalityType DEF Newest

LEMMA MadeNone == Newest(0) = 0
<1>1. Made(0) = {}
  BY DEF Made
<1> QED BY <1>1, FS_EmptySet DEF Newest

LEMMA MadeGrows ==
    ASSUME NEW j \in Nat, NEW k \in Nat, j <= k
    PROVE  Newest(j) <= Newest(k)
<1>1. Made(j) \in SUBSET Made(k)
  BY DEF Made
<1> QED BY <1>1, MadeFinite, FS_Subset DEF Newest

LEMMA MadeNext ==
    ASSUME NEW k \in Nat
    PROVE  Newest(k + 1) = IF log[k + 1].cmd.op = "QUERY" THEN Newest(k) ELSE Newest(k) + 1
<1>1. CASE log[k + 1].cmd.op = "QUERY"
  <2>1. Made(k + 1) = Made(k)
    BY <1>1 DEF Made
  <2> QED BY <1>1, <2>1 DEF Newest
<1>2. CASE log[k + 1].cmd.op # "QUERY"
  <2>1. Made(k + 1) = Made(k) \cup {k + 1} /\ k + 1 \notin Made(k)
    BY <1>2 DEF Made
  <2> QED BY <1>2, <2>1, MadeFinite, FS_AddElement DEF Newest
<1> QED BY <1>1, <1>2

LEMMA MadeSame ==
    ASSUME NEW k \in Nat, \A i \in 1 .. k : log'[i] = log[i]
    PROVE  Newest(k)' = Newest(k)
<1>1. Made(k)' = Made(k)
  BY DEF Made
<1> QED BY <1>1 DEF Newest

-----------------------------------------------------------------------------
(***************************************************************************)
(* Reads.                                                                  *)
(***************************************************************************)
InLog == lastApplyIndex <= agreed /\ agreed <= Len(log)

\* The list is what the applied commands made, also after a restart.
ListInv == Len(configs) = Newest(lastApplyIndex) + 1

\* What was shown is of entries that stay.
ShownInv == shown <= Newest(agreed)

\* What a call saw before it began was made by entries before its own, and if it asks
\* for the newest configuration its entry does.
Follows(t) ==
    LET c == call[t]
    IN c.pc \in {"register", "wait"} /\ c.logId \in 1 .. Len(log) /\ log[c.logId].by = t
         => /\ c.seen <= Newest(c.logId)
            /\ c.latest => AsksLatest(log[c.logId].cmd)

SeenInv == \A t \in Thread : Follows(t)

ReadInv == InLog /\ ListInv /\ ShownInv /\ SeenInv /\ ReadsAreFresh

\* A step that begins no call and answers none, though it may end one.
StillReads(t) ==
    /\ call'[t].pc \in {"register", "wait"} =>
          /\ call[t].pc \in {"register", "wait"}
          /\ call'[t].logId = call[t].logId
          /\ call'[t].seen = call[t].seen
          /\ call'[t].latest = call[t].latest
    /\ call'[t].pc = "done" /\ call'[t].latest => call'[t] = call[t]

\* Threads whose entry stays where it is keep what is said of them; an entry that
\* takes the place of one that was replaced is another's.
LEMMA FollowsStays ==
    ASSUME Types, NEW t \in Thread, Follows(t), StillReads(t),
           NEW m \in Nat, m <= Len(log), \A i \in 1 .. m : log'[i] = log[i],
           \A i \in 1 .. Len(log') : i > m => log'[i].by # t
    PROVE  Follows(t)'
<1>1. call[t] \in CallType
  BY DEF Types
<1>2. PICK k \in Nat : k = call[t].logId
  BY <1>1 DEF CallType
<1>3. SUFFICES ASSUME call[t].pc \in {"register", "wait"}, k \in 1 .. Len(log'), log'[k].by = t
               PROVE  /\ call[t].seen <= Newest(k)'
                      /\ call[t].latest => AsksLatest(log'[k].cmd)
  BY <1>2 DEF Follows, StillReads, AsksLatest, Newest, Made
<1>4. k \in 1 .. m
  BY <1>3
<1>5. Newest(k)' = Newest(k)
  BY <1>4, MadeSame
<1>6. log'[k] = log[k] /\ k \in 1 .. Len(log)
  BY <1>4 DEF Types
<1> QED BY <1>2, <1>3, <1>5, <1>6 DEF Follows

\* Steps that leave the list of configurations and the applied part of the log.
LEMMA LogSteps ==
    ASSUME Types, Types', ReadInv, NEW m \in Nat, agreed <= m, m <= Len(log), m <= Len(log'),
           \A i \in 1 .. m : log'[i] = log[i],
           \A t \in Thread : \A i \in 1 .. Len(log') : i > m => log'[i].by # t,
           UNCHANGED <<agreed, shown>>, \A t \in Thread : StillReads(t),
           UNCHANGED <<configs, lastApplyIndex>>
             \/ (lastApplyIndex' = 0 /\ Len(configs') = 1)
    PROVE  ReadInv'
<1>0. lastApplyIndex \in Nat /\ agreed \in Nat /\ Len(log) \in Nat
  BY DEF Types
<1>1. InLog'
  BY <1>0 DEF ReadInv, InLog
<1>2. ListInv'
  <2>1. CASE UNCHANGED <<configs, lastApplyIndex>>
    <3>1. PICK k \in Nat : k = lastApplyIndex
      BY <1>0
    <3>2. k <= m
      BY <1>0, <3>1 DEF ReadInv, InLog
    <3>3. Newest(k)' = Newest(k)
      BY <3>2, MadeSame
    <3> QED BY <2>1, <3>1, <3>3 DEF ReadInv, ListInv, Newest, Made
  <2>2. CASE lastApplyIndex' = 0 /\ Len(configs') = 1
    <3>1. Made(0)' = {}
      BY DEF Made
    <3>2. Newest(0)' = 0
      BY <3>1, FS_EmptySet DEF Newest
    <3> QED BY <2>2, <3>2 DEF ListInv, Newest, Made
  <2> QED BY <2>1, <2>2
<1>3. ShownInv'
  <2>1. PICK k \in Nat : k = agreed
    BY <1>0
  <2>2. Newest(k)' = Newest(k)
    BY <2>1, MadeSame
  <2> QED BY <2>1, <2>2 DEF ReadInv, ShownInv, Newest, Made
<1>4. SeenInv'
  <2>1. ASSUME NEW t \in Thread PROVE Follows(t)'
    BY FollowsStays DEF ReadInv, SeenInv
  <2> QED BY <2>1 DEF SeenInv
<1>5. ReadsAreFresh'
  BY DEF ReadInv, ReadsAreFresh, StillReads
<1> QED BY <1>1, <1>2, <1>3, <1>4, <1>5 DEF ReadInv

LEMMA SameRead ==
    ASSUME NEW t, call'[t] = call[t]
    PROVE  StillReads(t)
BY DEF StillReads

\* The call is over, with a failure.
LEMMA EndsRead ==
    ASSUME NEW t, NEW code \in Code, call'[t] = Failed(code)
    PROVE  StillReads(t)
<1>1. call'[t].pc = "done" /\ ~call'[t].latest
  BY IdleType
<1> QED BY <1>1 DEF StillReads

LEMMA ThreadReads ==
    ASSUME Types, Types', ReadInv, NEW t \in Thread,
           (\E cmd \in Command : CallRefused(t, cmd)) \/ Register(t)
    PROVE  ReadInv'
<1>0. call \in [Thread -> CallType]
  BY DEF Types
<1>1. UNCHANGED <<configs, lastApplyIndex, log, agreed, shown>>
  BY DEF CallRefused, Register
<1>2. \A u \in Thread \ {t} : call'[u] = call[u]
  BY <1>0 DEF CallRefused, Register
<1>3. StillReads(t)
  <2>1. CASE \E cmd \in Command : CallRefused(t, cmd)
    <3>1. call'[t] = Failed("ERR_WRONG_LEADER")
      BY <1>0, <2>1 DEF CallRefused
    <3> QED BY <3>1, EndsRead DEF Code
  <2>2. CASE Register(t) /\ call[t].logId \in waits
    <3>1. call'[t] = Failed("ERR_REQUEST_FAILD")
      BY <1>0, <2>2 DEF Register
    <3> QED BY <3>1, EndsRead DEF Code
  <2>3. CASE Register(t) /\ call[t].logId \notin waits
    <3>1. call'[t] = [call[t] EXCEPT !.pc = "wait"] /\ call[t].pc = "register"
      BY <1>0, <2>3 DEF Register
    <3>2. call[t] \in CallType
      BY <1>0
    <3>3. /\ call'[t].pc = "wait"
          /\ call'[t].logId = call[t].logId
          /\ call'[t].seen = call[t].seen
      BY <3>1, <3>2 DEF CallType
    <3>4. call'[t].latest = call[t].latest
      BY <3>1, <3>2, Zenon DEF CallType
    <3> QED BY <3>1, <3>3, <3>4 DEF StillReads
  <2> QED BY <2>1, <2>2, <2>3
<1>4. \A u \in Thread : StillReads(u)
  BY <1>2, <1>3, SameRead
<1>5. Len(log) \in Nat /\ agreed <= Len(log)
  BY DEF Types, ReadInv, InLog
<1> QED BY <1>1, <1>4, <1>5, LogSteps

LEMMA RaftReads ==
    ASSUME Types, Types', ReadInv,
           Lead \/ (\E kept \in 0 .. MaxLog : Follow(kept) \/ Restart(kept))
             \/ (\E cmd \in Command : Replicate(cmd)) \/ UNCHANGED vars
    PROVE  ReadInv'
<1>0. Len(log) \in Nat /\ agreed \in Nat /\ agreed <= Len(log) /\ log \in Seq(LogEntry)
  BY DEF Types, ReadInv, InLog
<1>1. CASE Lead \/ UNCHANGED vars
  <2>1. UNCHANGED <<configs, lastApplyIndex, log, agreed, shown, call>>
    BY <1>1 DEF Lead, vars
  <2> QED BY <1>0, <2>1, LogSteps, SameRead, SMTT(30)
<1>2. ASSUME NEW kept \in 0 .. MaxLog, Follow(kept) \/ Restart(kept) PROVE ReadInv'
  <2>1. /\ log' = SubSeq(log, 1, kept) /\ kept \in Nat /\ agreed <= kept /\ kept <= Len(log)
        /\ UNCHANGED <<agreed, shown>>
    BY <1>0, <1>2 DEF Follow, Restart
  <2>2. Len(log') = kept /\ \A i \in 1 .. kept : log'[i] = log[i]
    BY <1>0, <2>1
  <2>3. ASSUME NEW t \in Thread PROVE StillReads(t)
    <3>1. call'[t] = call[t] \/ call'[t] = Failed("ERR_REQUEST_FAILD")
      BY <1>2 DEF Follow, Restart
    <3> QED BY <3>1, SameRead, EndsRead DEF Code
  <2>4. UNCHANGED <<configs, lastApplyIndex>> \/ (lastApplyIndex' = 0 /\ Len(configs') = 1)
    BY <1>2, FirstList DEF Follow, Restart
  <2> QED BY <2>1, <2>2, <2>3, <2>4, LogSteps
<1>3. ASSUME NEW cmd \in Command, Replicate(cmd) PROVE ReadInv'
  <2>1. /\ log' = Append(log, [cmd |-> Received(cmd), by |-> Elsewhere])
        /\ UNCHANGED <<configs, lastApplyIndex, agreed, shown, call>>
    BY <1>3 DEF Replicate
  <2>2. [cmd |-> Received(cmd), by |-> Elsewhere] \in LogEntry
    BY ReceivedType DEF LogEntry, Caller
  <2>3. /\ Len(log') = Len(log) + 1 /\ \A i \in 1 .. Len(log) : log'[i] = log[i]
        /\ log'[Len(log) + 1].by = Elsewhere
    BY <1>0, <2>1, <2>2
  <2>4. \A t \in Thread : \A i \in 1 .. Len(log') : i > Len(log) => log'[i].by # t
    BY <1>0, <2>3, CtrlerAssumption
  <2> QED BY <1>0, <2>1, <2>3, <2>4, LogSteps, SameRead
<1> QED BY <1>1, <1>2, <1>3

\* A call begins: it may have seen what was shown, which the agreed entries made.
LEMMA StartReads ==
    ASSUME Types, Types', ReadInv, NEW t \in Thread, NEW cmd \in Command, Start(t, cmd)
    PROVE  ReadInv'
<1> DEFINE entry == [cmd |-> Received(cmd), by |-> t]
<1>0. /\ Len(log) \in Nat /\ agreed \in Nat /\ lastApplyIndex \in Nat /\ shown \in Nat
      /\ log \in Seq(LogEntry) /\ call \in [Thread -> CallType]
      /\ lastApplyIndex <= agreed /\ agreed <= Len(log)
  BY DEF Types, ReadInv, InLog
<1>1. /\ log' = Append(log, entry) /\ UNCHANGED <<configs, lastApplyIndex, agreed, shown>>
      /\ \A u \in Thread \ {t} : call'[u] = call[u]
  BY <1>0 DEF Start
<1>2. entry \in LogEntry
  BY ReceivedType DEF LogEntry, Caller
<1> HIDE DEF entry
<1>3. Len(log') = Len(log) + 1 /\ log'[Len(log) + 1] = entry
      /\ \A i \in 1 .. Len(log) : log'[i] = log[i]
  BY <1>0, <1>1, <1>2
<1>4. InLog' /\ ListInv' /\ ShownInv'
  <2>1. PICK k \in Nat, j \in Nat : k = lastApplyIndex /\ j = agreed
    BY <1>0
  <2>2. Newest(k)' = Newest(k) /\ Newest(j)' = Newest(j)
    BY <1>0, <1>3, <2>1, MadeSame
  <2>3. InLog'
    BY <1>0, <1>1, <1>3 DEF InLog
  <2>4. ListInv'
    BY <1>1, <2>1, <2>2 DEF ReadInv, ListInv, Newest, Made
  <2>5. ShownInv'
    BY <1>1, <2>1, <2>2 DEF ReadInv, ShownInv, Newest, Made
  <2> QED BY <2>3, <2>4, <2>5
<1>5. ASSUME NEW u \in Thread \ {t} PROVE Follows(u)'
  <2>1. StillReads(u) /\ Follows(u)
    BY <1>1, SameRead DEF ReadInv, SeenInv
  <2>2. entry.by = t
    BY DEF entry
  <2>3. \A i \in 1 .. Len(log') : i > Len(log) => log'[i].by # u
    BY <1>0, <1>3, <2>2
  <2> QED BY <1>0, <1>3, <2>1, <2>3, FollowsStays
<1>6. Follows(t)'
  <2> DEFINE latest == AsksLatest(cmd)
             seen == IF latest THEN shown ELSE 0
  <2>1. call'[t] = [Idle EXCEPT !.pc = "register", !.logId = Len(log) + 1,
                                !.latest = latest, !.seen = seen]
    BY <1>0 DEF Start
  <2> HIDE DEF latest, seen
  <2>2. /\ call'[t].logId = Len(log) + 1
        /\ call'[t].seen = seen
    BY <2>1 DEF Idle
  <2>3. call'[t].latest = latest
    BY <2>1, Zenon DEF Idle
  <2>4. PICK k \in Nat, j \in Nat : k = Len(log) + 1 /\ j = agreed
    BY <1>0
  <2>5. Newest(j)' = Newest(j)
    BY <1>0, <1>3, <2>4, MadeSame
  <2>6. Made(j)' \in SUBSET Made(k)' /\ IsFiniteSet(Made(k)')
    <3>1. Made(j)' \in SUBSET Made(k)'
      BY <1>0, <2>4 DEF Made
    <3>2. IsFiniteSet(1 .. k) /\ Made(k)' \in SUBSET (1 .. k)
      BY FS_Interval DEF Made
    <3> QED BY <3>1, <3>2, FS_Subset
  <2>7. Newest(j)' <= Newest(k)' /\ Newest(k)' \in Nat
    BY <2>6, FS_Subset, FS_CardinalityType DEF Newest
  <2>8. seen <= Newest(k)'
    <3>1. shown <= Newest(j)
      BY <2>4 DEF ReadInv, ShownInv
    <3>2. Newest(j) \in Nat
      BY MadeFinite
    <3>3. seen \in {shown, 0}
      BY DEF seen
    <3>4. seen <= Newest(j)
      BY <1>0, <3>1, <3>2, <3>3
    <3>5. shown \in Nat /\ seen \in Nat
      BY <1>0, <3>3
    <3> QED BY <2>5, <2>7, <3>2, <3>4, <3>5
  <2>9. latest => AsksLatest(log'[k].cmd)
    BY <1>3, <2>4, ReceivedType DEF entry, latest
  <2> QED BY <2>2, <2>3, <2>4, <2>8, <2>9 DEF Follows, Newest, Made, AsksLatest
<1>7. ReadsAreFresh'
  <2>1. call'[t].pc = "register"
    BY <1>0 DEF Start, Idle
  <2> QED BY <1>1, <2>1 DEF ReadInv, ReadsAreFresh
<1>8. SeenInv'
  BY <1>5, <1>6 DEF SeenInv
<1> QED BY <1>4, <1>7, <1>8 DEF ReadInv

\* A query for the newest configuration is answered with the last of the list.
LEMMA LatestAnswer ==
    ASSUME NEW t, NEW list, NEW entry, AsksLatest(entry.cmd)
    PROVE  Answer(t, list, entry).config = Len(list) - 1
<1> DEFINE reply == Reply("SUCCEED", NoConfig, entry.by = t)
<1>1. \A x : [reply EXCEPT !.config = x].config = x
  BY Zenon DEF Reply
<1> HIDE DEF reply
<1>2. Answer(t, list, entry) = [reply EXCEPT !.config = Len(list) - 1]
  BY DEF Answer, AsksLatest, reply, LATEST_CONFIG_NUM
<1> QED BY <1>1, <1>2

LEMMA OwnAnswer ==
    ASSUME NEW t, NEW list, NEW entry, Answer(t, list, entry).own
    PROVE  entry.by = t
<1> DEFINE reply == Reply("SUCCEED", NoConfig, entry.by = t)
<1>1. \A x : [reply EXCEPT !.config = x].own => entry.by = t
  BY Zenon DEF Reply
<1>2. /\ [reply EXCEPT !.code = "ERR_NO_SUCH_SHARD_CONFIG"].own => entry.by = t
      /\ reply.own => entry.by = t
  BY Zenon DEF Reply
<1> HIDE DEF reply
<1>3. \/ Answer(t, list, entry) = reply
      \/ Answer(t, list, entry) = [reply EXCEPT !.config = Len(list) - 1]
      \/ Answer(t, list, entry) = [reply EXCEPT !.config = entry.cmd.configNum]
      \/ Answer(t, list, entry) = [reply EXCEPT !.code = "ERR_NO_SUCH_SHARD_CONFIG"]
  BY DEF Answer, reply
<1> QED BY <1>1, <1>2, <1>3

\* A command is applied, and who waits for its index is answered.
LEMMA ApplyReads ==
    ASSUME Types, Types', ReadInv, Apply
    PROVE  ReadInv'
<1>1. PICK k \in Nat, n \in Nat, j \in Nat :
         k = lastApplyIndex /\ n = lastApplyIndex + 1 /\ j = agreed
  BY DEF Types
<1>2. /\ n \in 1 .. Len(log) /\ lastApplyIndex' = n /\ log' = log /\ Len(configs) \in Nat
      /\ Len(configs') = IF log[n].cmd.op = "QUERY" THEN Len(configs) ELSE Len(configs) + 1
  BY <1>1, ApplyFacts DEF Apply
<1>3. Len(configs') = Newest(n) + 1 /\ Newest(n) \in Nat
  <2>1. n = k + 1
    BY <1>1
  <2>2. Len(configs) = Newest(k) + 1
    BY <1>1 DEF ReadInv, ListInv
  <2>3. Newest(n) = IF log[n].cmd.op = "QUERY" THEN Newest(k) ELSE Newest(k) + 1
    BY <2>1, MadeNext
  <2>4. Newest(k) \in Nat
    BY MadeFinite
  <2> QED BY <1>2, <2>2, <2>3, <2>4
<1>4. \A i \in Nat : Newest(i)' = Newest(i)
  BY <1>2 DEF Newest, Made
<1>5. ListInv'
  BY <1>2, <1>3, <1>4 DEF ListInv, Newest, Made
<1>6. PICK a \in Nat : a = agreed' /\ a = IF j >= n THEN j ELSE n
  <2>1. agreed' = Max({j, n})
    BY <1>1 DEF Apply
  <2> QED BY <2>1, MaxOfTwo
<1>7. InLog'
  BY <1>1, <1>2, <1>6 DEF ReadInv, InLog, Types
<1>8. ShownInv'
  <2>1. Newest(j) <= Newest(a) /\ Newest(n) <= Newest(a)
    BY <1>6, MadeGrows
  <2>2. Newest(j) \in Nat /\ Newest(a) \in Nat /\ shown \in Nat
    BY MadeFinite DEF Types
  <2>3. shown <= Newest(j)
    BY <1>1 DEF ReadInv, ShownInv
  <2>4. shown' \in {shown, Max({shown, Len(configs') - 1})}
    BY DEF Apply
  <2>5. Len(configs') - 1 = Newest(n)
    BY <1>3
  <2>6. shown' \in {shown, Newest(n)}
    BY <1>3, <2>2, <2>4, <2>5, MaxOfTwo
  <2>7. shown' <= Newest(a)
    BY <1>3, <2>1, <2>2, <2>3, <2>6
  <2>8. Newest(a)' = Newest(a)
    BY <1>4
  <2> QED BY <1>6, <2>7, <2>8 DEF ShownInv, Newest, Made
<1>9. ASSUME NEW t \in Thread PROVE IF IsAnswered(t, n)
                                    THEN /\ call'[t].pc = "done"
                                         /\ call'[t].reply = Answer(t, configs', log[n])
                                         /\ call'[t].seen = call[t].seen
                                         /\ call'[t].latest = call[t].latest
                                    ELSE call'[t] = call[t]
  <2>1. CASE IsAnswered(t, n)
    <3>1. call'[t] = [call[t] EXCEPT !.pc = "done", !.reply = Answer(t, configs', log[n])]
      BY <1>1, <2>1, ApplyCalls
    <3>2. call[t] \in CallType
      BY DEF Types
    <3> QED BY <2>1, <3>1, <3>2, Zenon DEF CallType
  <2>2. CASE ~IsAnswered(t, n)
    BY <1>1, <2>2, ApplyCalls
  <2> QED BY <2>1, <2>2
<1>10. SeenInv'
  <2>1. ASSUME NEW t \in Thread PROVE Follows(t)'
    <3>1. CASE IsAnswered(t, n)
      BY <1>9, <3>1 DEF Follows
    <3>2. CASE ~IsAnswered(t, n)
      <4>1. call'[t] = call[t] /\ Follows(t)
        BY <1>9, <3>2 DEF ReadInv, SeenInv
      <4> QED BY <1>2, <4>1 DEF Follows, Newest, Made, AsksLatest
    <3> QED BY <3>1, <3>2
  <2> QED BY <2>1 DEF SeenInv
<1>11. ASSUME NEW t \in Thread, call'[t].pc = "done", call'[t].reply.own, call'[t].latest
       PROVE  call'[t].reply.config >= call'[t].seen
  <2>1. CASE IsAnswered(t, n)
    <3>1. call[t].pc = "wait" /\ call[t].logId = n
      BY <2>1 DEF IsAnswered
    <3>2. log[n].by = t
      BY <1>9, <1>11, <2>1, OwnAnswer
    <3>3. call[t].seen <= Newest(n) /\ (call[t].latest => AsksLatest(log[n].cmd))
      BY <1>2, <3>1, <3>2 DEF ReadInv, SeenInv, Follows
    <3>4. AsksLatest(log[n].cmd)
      BY <1>9, <1>11, <2>1, <3>3
    <3>5. call'[t].reply.config = Newest(n)
      BY <1>3, <1>9, <2>1, <3>4, LatestAnswer
    <3>6. call[t].seen \in Nat
      BY DEF Types, CallType
    <3> QED BY <1>3, <1>9, <2>1, <3>3, <3>5, <3>6
  <2>2. CASE ~IsAnswered(t, n)
    BY <1>9, <1>11, <2>2 DEF ReadInv, ReadsAreFresh
  <2> QED BY <2>1, <2>2
<1>12. ReadsAreFresh'
  BY <1>11 DEF ReadsAreFresh
<1> QED BY <1>5, <1>7, <1>8, <1>10, <1>12 DEF ReadInv

THEOREM ReadInvariant == Spec => []ReadInv
<1>1. Init => ReadInv
  <2> SUFFICES ASSUME Init PROVE ReadInv
    OBVIOUS
  <2>1. Newest(0) = 0 /\ Len(configs) = 1 /\ Len(log) = 0
    BY MadeNone, FirstList DEF Init
  <2>2. InLog /\ ListInv /\ ShownInv
    BY <2>1 DEF Init, InLog, ListInv, ShownInv
  <2>3. SeenInv /\ ReadsAreFresh
    BY DEF Init, Idle, SeenInv, Follows, ReadsAreFresh
  <2> QED BY <2>2, <2>3 DEF ReadInv
<1>2. Types /\ Types' /\ ReadInv /\ [Next]_vars => ReadInv'
  BY ThreadReads, RaftReads, StartReads, ApplyReads DEF Next
<1> QED BY <1>1, <1>2, TypeCorrect, PTL DEF Spec

\* A query for the newest configuration that is answered from its own entry sees
\* whatever was answered before it began, through changes of the leader and restarts.
THEOREM QueriesAreFresh == Spec => []ReadsAreFresh
<1>1. ReadInv => ReadsAreFresh
  BY DEF ReadInv
<1> QED BY <1>1, ReadInvariant, PTL

-----------------------------------------------------------------------------
(***************************************************************************)
(* Sets of groups and shards, and the lists that the model makes of them.  *)
(***************************************************************************)
LEMMA GidType == Gid \subseteq Nat /\ IsFiniteSet(Gid) /\ \A D \in SUBSET Gid : IsFiniteSet(D)
BY CtrlerAssumption, FS_Subset

LEMMA ShardType ==
    /\ Shard \subseteq Nat /\ 0 \in Shard
    /\ IsFiniteSet(Shard) /\ Cardinality(Shard) = NumShards
    /\ \A U \in SUBSET Shard :
          IsFiniteSet(U) /\ Cardinality(U) \in Nat /\ Cardinality(U) <= NumShards
<1>1. NumShards \in Nat \ {0}
  BY CtrlerAssumption
<1>2. Shard \subseteq Nat /\ 0 \in Shard
  BY <1>1 DEF Shard
<1>3. IsFiniteSet(Shard) /\ Cardinality(Shard) = NumShards
  <2>1. PICK n \in Int : n = NumShards - 1
    BY <1>1
  <2>2. /\ IsFiniteSet(0 .. n)
        /\ Cardinality(0 .. n) = IF 0 > n THEN 0 ELSE n - 0 + 1
    <3>1. 0 \in Int /\ n \in Int
      BY <2>1
    <3> QED BY <3>1, FS_Interval
  <2> QED BY <1>1, <2>1, <2>2 DEF Shard
<1>4. \A U \in SUBSET Shard :
         IsFiniteSet(U) /\ Cardinality(U) \in Nat /\ Cardinality(U) <= NumShards
  BY <1>3, FS_Subset, FS_CardinalityType
<1> QED BY <1>2, <1>3, <1>4

LEMMA MinIn ==
    ASSUME NEW T \in SUBSET Nat, T # {}
    PROVE  Min(T) \in T
<1>1. \E m \in T : \A k \in T : m <= k
  BY LeastOf
<1> QED BY <1>1 DEF Min

\* A set of numbers in its order.
Below(S) == {p \in S \X S : p[1] < p[2]}

LEMMA BelowIsOrder ==
    ASSUME NEW S \in SUBSET Nat
    PROVE  /\ IsOrder(Below(S), S)
           /\ \A x, y \in S : <<x, y>> \in Below(S) <=> x < y
BY DEF IsOrder, Below

LEMMA MaxIn ==
    ASSUME NEW S \in SUBSET Nat, IsFiniteSet(S), S # {}
    PROVE  Max(S) \in S
<1> DEFINE n == Cardinality(S)
           list == Listed(Below(S), S)
<1>1. /\ n \in Nat /\ list \in [1 .. n -> S]
      /\ \A x \in S : \E k \in 1 .. n : list[k] = x
      /\ \A j, k \in 1 .. n : j < k <=> <<list[j], list[k]>> \in Below(S)
  BY BelowIsOrder, ListedInOrder
<1>2. n # 0
  BY FS_EmptySet
<1> HIDE DEF n, list
<1>3. n \in 1 .. n /\ list[n] \in S
  BY <1>1, <1>2
<1>4. ASSUME NEW y \in S PROVE list[n] >= y
  <2>1. PICK k \in 1 .. n : list[k] = y
    BY <1>1
  <2>2. k = n \/ k < n
    BY <1>1
  <2>3. k < n => y < list[n]
    <3>1. k < n => <<list[k], list[n]>> \in Below(S)
      BY <1>1, <1>3
    <3> QED BY <2>1, <3>1 DEF Below
  <2>4. y \in Nat /\ list[n] \in Nat
    BY <1>3
  <2> QED BY <2>1, <2>2, <2>3, <2>4
<1>5. \E x \in S : \A y \in S : x >= y
  BY <1>3, <1>4
<1> QED BY <1>5 DEF Max

LEMMA EmptyBefore ==
    ASSUME NEW S, NEW q \in Seq(S)
    PROVE  <<>> \o q = q
OBVIOUS

\* The list of the groups that join.
LEMMA OrderOfGids ==
    ASSUME NEW gids \in SUBSET Gid, gids # {}
    PROVE  \E list \in Seq(gids) : list = InOrder(gids, <) /\ Len(list) \in Nat \ {0}
<1>1. gids \in SUBSET Nat /\ IsFiniteSet(gids)
  BY GidType
<1> DEFINE n == Cardinality(gids)
           list == Listed(Below(gids), gids)
<1>2. n \in Nat /\ list \in [1 .. n -> gids]
  BY <1>1, BelowIsOrder, ListedInOrder
<1>3. n # 0
  BY <1>1, FS_EmptySet
<1>4. list = [k \in 1 .. n |-> CHOOSE x \in gids : Cardinality({y \in gids : y < x}) = k - 1]
  <2>1. \A x \in gids : Preceding(Below(gids), gids, x) = {y \in gids : y < x}
    BY <1>1, BelowIsOrder DEF Preceding
  <2> QED BY <2>1 DEF Listed
<1>5. InOrder(gids, <) = <<>> \o list
  BY <1>4 DEF InOrder
<1> HIDE DEF list, n
<1>6. list \in Seq(gids) /\ Len(list) = n
  BY <1>2
<1> QED BY <1>2, <1>3, <1>5, <1>6, EmptyBefore

-----------------------------------------------------------------------------
(***************************************************************************)
(* The loop of handleJoin.  D are the groups after the join.               *)
(***************************************************************************)
Holds(D, held) ==
    /\ held \in [D -> SUBSET Shard]
    /\ \A g, h \in D : g # h => held[g] \cap held[h] = {}

Infos(D) == [gid : D, shardCnt : Nat]

\* info has every group once, with the number of its shards.
Lists(D, held, info) ==
    /\ info \in Seq(Infos(D)) /\ Len(info) # 0
    /\ \A i, j \in 1 .. Len(info) : info[i].gid = info[j].gid => i = j
    /\ \A g \in D : \E i \in 1 .. Len(info) : info[i].gid = g
    /\ \A i \in 1 .. Len(info) : info[i].shardCnt = Cardinality(held[info[i].gid])

Ascending(info) ==
    \A i, j \in 1 .. Len(info) : i < j => info[i].shardCnt <= info[j].shardCnt

\* The groups of a map with their loads, and how they are sorted.
InfosOf(held) == {[gid |-> g, shardCnt |-> Cardinality(held[g])] : g \in DOMAIN held}

LighterOf(I) == {p \in I \X I : Lighter(p[1], p[2])}

LEMMA InfosOfType ==
    ASSUME NEW D \in SUBSET Gid, D # {}, NEW held, Holds(D, held)
    PROVE  /\ InfosOf(held) \in SUBSET Infos(D) /\ IsFiniteSet(InfosOf(held))
           /\ InfosOf(held) # {} /\ Cardinality(InfosOf(held)) <= Cardinality(D)
           /\ \A g \in D : \E x \in InfosOf(held) : x.gid = g
           /\ \A x \in InfosOf(held) : x.gid \in D /\ x.shardCnt = Cardinality(held[x.gid])
           /\ \A x, y \in InfosOf(held) : x.gid = y.gid => x = y
<1>1. DOMAIN held = D /\ \A g \in D : Cardinality(held[g]) \in Nat
  BY ShardType DEF Holds
<1> DEFINE f == [g \in D |-> [gid |-> g, shardCnt |-> Cardinality(held[g])]]
<1>2. f \in Surjection(D, InfosOf(held))
  <2>1. f \in [D -> InfosOf(held)]
    BY <1>1 DEF InfosOf
  <2>2. \A x \in InfosOf(held) : \E g \in D : f[g] = x
    BY <1>1 DEF InfosOf
  <2> HIDE DEF f
  <2> QED BY <2>1, <2>2 DEF Surjection
<1>3. IsFiniteSet(D)
  BY GidType
<1>4. IsFiniteSet(InfosOf(held)) /\ Cardinality(InfosOf(held)) <= Cardinality(D)
  BY <1>2, <1>3, FS_Surjection
<1>5. \A x : x \in InfosOf(held) <=> \E g \in D : x = [gid |-> g, shardCnt |-> Cardinality(held[g])]
  BY <1>1, Zenon DEF InfosOf
<1>6. /\ InfosOf(held) \in SUBSET Infos(D) /\ InfosOf(held) # {}
      /\ \A g \in D : \E x \in InfosOf(held) : x.gid = g
      /\ \A x \in InfosOf(held) : x.gid \in D /\ x.shardCnt = Cardinality(held[x.gid])
  <2>1. ASSUME NEW x \in InfosOf(held)
        PROVE  x \in Infos(D) /\ x.gid \in D /\ x.shardCnt = Cardinality(held[x.gid])
    <3>1. PICK g \in D : x = [gid |-> g, shardCnt |-> Cardinality(held[g])]
      BY <1>5
    <3>2. PICK c \in Nat : c = Cardinality(held[g])
      BY <1>1
    <3>3. x = [gid |-> g, shardCnt |-> c]
      BY <3>1, <3>2
    <3> QED BY <3>2, <3>3 DEF Infos
  <2>2. ASSUME NEW g \in D PROVE \E x \in InfosOf(held) : x.gid = g
    <3>1. PICK c : c = Cardinality(held[g])
      OBVIOUS
    <3>2. [gid |-> g, shardCnt |-> c] \in InfosOf(held)
      BY <1>5, <3>1
    <3> QED BY <3>2
  <2> QED BY <2>1, <2>2
<1>7. \A x, y \in InfosOf(held) : x.gid = y.gid => x = y
  <2> SUFFICES ASSUME NEW x \in InfosOf(held), NEW y \in InfosOf(held), x.gid = y.gid PROVE x = y
    OBVIOUS
  <2>1. PICK g \in D : x = [gid |-> g, shardCnt |-> Cardinality(held[g])]
    BY <1>5
  <2>2. PICK h \in D : y = [gid |-> h, shardCnt |-> Cardinality(held[h])]
    BY <1>5
  <2> QED BY <2>1, <2>2
<1> QED BY <1>4, <1>6, <1>7

LEMMA LighterIsOrder ==
    ASSUME NEW D \in SUBSET Gid, D # {}, NEW held, Holds(D, held)
    PROVE  IsOrder(LighterOf(InfosOf(held)), InfosOf(held))
<1> DEFINE I == InfosOf(held)
<1>1. \A x \in I : x.gid \in Nat /\ x.shardCnt \in Nat
  <2>1. I \in SUBSET Infos(D) /\ D \in SUBSET Nat
    BY InfosOfType, GidType
  <2> HIDE DEF I
  <2> QED BY <2>1 DEF Infos
<1>2. \A x, y \in I : x.gid = y.gid => x = y
  BY InfosOfType
<1> HIDE DEF I
<1>3. \A x, y \in I : <<x, y>> \in LighterOf(I) <=>
                         x.shardCnt < y.shardCnt \/ (x.shardCnt = y.shardCnt /\ x.gid < y.gid)
  BY DEF LighterOf, Lighter
<1>4. \A x \in I : <<x, x>> \notin LighterOf(I)
  BY <1>1, <1>3
<1>5. \A x, y, z \in I : <<x, y>> \in LighterOf(I) /\ <<y, z>> \in LighterOf(I)
                           => <<x, z>> \in LighterOf(I)
  BY <1>1, <1>3
<1>6. ASSUME NEW x \in I, NEW y \in I
      PROVE  x = y \/ <<x, y>> \in LighterOf(I) \/ <<y, x>> \in LighterOf(I)
  <2>1. x.gid = y.gid => x = y
    BY <1>2
  <2>2. \/ x.gid = y.gid \/ x.shardCnt < y.shardCnt \/ y.shardCnt < x.shardCnt
        \/ (x.shardCnt = y.shardCnt /\ (x.gid < y.gid \/ y.gid < x.gid))
    BY <1>1
  <2> QED BY <1>3, <2>1, <2>2, Zenon
<1> QED BY <1>4, <1>5, <1>6 DEF IsOrder, I

LEMMA SortedInfoLists ==
    ASSUME NEW D \in SUBSET Gid, D # {}, NEW held, Holds(D, held)
    PROVE  \E info : /\ info = SortedInfo(held) /\ Lists(D, held, info)
                     /\ Ascending(info) /\ Len(info) <= Cardinality(D)
<1> DEFINE I == InfosOf(held)
           n == Cardinality(I)
           info == Listed(LighterOf(I), I)
<1>1. /\ I \in SUBSET Infos(D) /\ IsFiniteSet(I) /\ I # {} /\ n <= Cardinality(D)
      /\ \A g \in D : \E x \in I : x.gid = g
      /\ \A x \in I : x.shardCnt = Cardinality(held[x.gid])
      /\ \A x, y \in I : x.gid = y.gid => x = y
  BY InfosOfType
<1>2. /\ n \in Nat /\ info \in [1 .. n -> I]
      /\ \A x \in I : \E k \in 1 .. n : info[k] = x
      /\ \A j, k \in 1 .. n : j < k <=> <<info[j], info[k]>> \in LighterOf(I)
  BY <1>1, LighterIsOrder, ListedInOrder, SMTT(30)
<1>3. n # 0
  BY <1>1, FS_EmptySet
<1>4. info = [k \in 1 .. n |-> CHOOSE x \in I : Cardinality({y \in I : Lighter(y, x)}) = k - 1]
  <2>1. \A x \in I : Preceding(LighterOf(I), I, x) = {y \in I : Lighter(y, x)}
    <3> HIDE DEF I
    <3> QED BY DEF Preceding, LighterOf
  <2> HIDE DEF I
  <2> DEFINE here(k) == CHOOSE x \in I : Cardinality(Preceding(LighterOf(I), I, x)) = k - 1
             there(k) == CHOOSE x \in I : Cardinality({y \in I : Lighter(y, x)}) = k - 1
  <2>2. \A k \in 1 .. n : here(k) = there(k)
    BY <2>1
  <2>3. info = [k \in 1 .. n |-> here(k)]
    BY DEF Listed
  <2> HIDE DEF here, there, info, n
  <2>4. info = [k \in 1 .. n |-> there(k)]
    BY <2>2, <2>3
  <2> QED BY <2>4 DEF there
<1>5. SortedInfo(held) = <<>> \o info
  BY <1>4 DEF SortedInfo, InOrder, InfosOf
<1> HIDE DEF info, n, I
<1>6. info \in Seq(Infos(D)) /\ Len(info) = n
  BY <1>1, <1>2
<1>7. \A j, k \in 1 .. n : info[j].gid = info[k].gid => j = k
  <2> SUFFICES ASSUME NEW j \in 1 .. n, NEW k \in 1 .. n, info[j].gid = info[k].gid
               PROVE  j = k
    OBVIOUS
  <2>1. info[j] = info[k]
    BY <1>1, <1>2
  <2>2. (j < k <=> <<info[j], info[k]>> \in LighterOf(I)) /\ (j < j <=> <<info[j], info[j]>> \in LighterOf(I))
        /\ (k < j <=> <<info[k], info[j]>> \in LighterOf(I))
    BY <1>2
  <2> QED BY <1>2, <2>1, <2>2
<1>8. \A g \in D : \E k \in 1 .. n : info[k].gid = g
  BY <1>1, <1>2
<1>9. \A k \in 1 .. n : info[k].shardCnt = Cardinality(held[info[k].gid])
  BY <1>1, <1>2
<1>10. Ascending(info)
  <2> SUFFICES ASSUME NEW j \in 1 .. n, NEW k \in 1 .. n, j < k
               PROVE  info[j].shardCnt <= info[k].shardCnt
    BY <1>6 DEF Ascending
  <2>1. Lighter(info[j], info[k])
    BY <1>2 DEF LighterOf
  <2>2. info[j].shardCnt \in Nat /\ info[k].shardCnt \in Nat
    BY <1>1, <1>2 DEF Infos
  <2> QED BY <2>1, <2>2 DEF Lighter
<1>11. Lists(D, held, info)
  BY <1>3, <1>6, <1>7, <1>8, <1>9 DEF Lists
<1>12. SortedInfo(held) = info
  BY <1>5, <1>6, EmptyBefore
<1> QED BY <1>1, <1>6, <1>10, <1>11, <1>12 DEF n

-----------------------------------------------------------------------------
(***************************************************************************)
(* A round of the loop.                                                    *)
(***************************************************************************)
\* The last group of info has as many shards as the first, or more.
Ends(info) == info[1].shardCnt <= info[Len(info)].shardCnt

Swapped(info, i) == [info EXCEPT ![i] = info[i + 1], ![i + 1] = info[i]]

LEMMA SwappedIs ==
    ASSUME NEW S, NEW info \in Seq(S), NEW i \in 1 .. Len(info) - 1
    PROVE  /\ Swapped(info, i) \in Seq(S) /\ Len(Swapped(info, i)) = Len(info)
           /\ \A j \in 1 .. Len(info) :
                 Swapped(info, i)[j] = IF j = i THEN info[i + 1]
                                       ELSE IF j = i + 1 THEN info[i] ELSE info[j]
BY DEF Swapped

LEMMA LoadType ==
    ASSUME NEW D, NEW held, NEW info, Lists(D, held, info)
    PROVE  /\ Len(info) \in Nat \ {0}
           /\ \A i \in 1 .. Len(info) :
                 info[i] \in Infos(D) /\ info[i].gid \in D /\ info[i].shardCnt \in Nat
<1>1. info \in Seq(Infos(D)) /\ Len(info) # 0
  BY DEF Lists
<1>2. Len(info) \in Nat
  BY <1>1
<1>3. \A i \in 1 .. Len(info) : info[i] \in Infos(D)
  BY <1>1
<1> QED BY <1>1, <1>2, <1>3 DEF Infos

LEMMA SwappedLists ==
    ASSUME NEW D, NEW held, NEW info, Lists(D, held, info), Ends(info),
           NEW i \in 1 .. Len(info) - 1, info[i + 1].shardCnt < info[i].shardCnt
    PROVE  Lists(D, held, Swapped(info, i)) /\ Ends(Swapped(info, i))
<1> DEFINE n == Len(info)
           new == Swapped(info, i)
<1>1. /\ n \in Nat \ {0}
      /\ \A j \in 1 .. n : info[j] \in Infos(D) /\ info[j].gid \in D /\ info[j].shardCnt \in Nat
  BY LoadType
<1>2. /\ new \in Seq(Infos(D)) /\ Len(new) = n
      /\ \A j \in 1 .. n : new[j] = IF j = i THEN info[i + 1] ELSE IF j = i + 1 THEN info[i] ELSE info[j]
  BY SwappedIs DEF Lists
<1>3. /\ \A j, k \in 1 .. n : info[j].gid = info[k].gid => j = k
      /\ \A g \in D : \E j \in 1 .. n : info[j].gid = g
      /\ \A j \in 1 .. n : info[j].shardCnt = Cardinality(held[info[j].gid])
  BY DEF Lists
<1> DEFINE from(j) == IF j = i THEN i + 1 ELSE IF j = i + 1 THEN i ELSE j
<1>4. i \in 1 .. n /\ i + 1 \in 1 .. n
  BY <1>1
<1> HIDE DEF n, new
<1>5. \A j \in 1 .. n : from(j) \in 1 .. n /\ from(from(j)) = j /\ new[j] = info[from(j)]
  BY <1>1, <1>2, <1>4
<1> HIDE DEF from
<1>6. \A j, k \in 1 .. n : new[j].gid = new[k].gid => j = k
  <2> SUFFICES ASSUME NEW j \in 1 .. n, NEW k \in 1 .. n, new[j].gid = new[k].gid PROVE j = k
    OBVIOUS
  <2>1. from(j) = from(k)
    BY <1>3, <1>5
  <2> QED BY <1>5, <2>1
<1>7. \A g \in D : \E j \in 1 .. n : new[j].gid = g
  <2> SUFFICES ASSUME NEW g \in D PROVE \E j \in 1 .. n : new[j].gid = g
    OBVIOUS
  <2>1. PICK j \in 1 .. n : info[j].gid = g
    BY <1>3
  <2>2. from(j) \in 1 .. n /\ new[from(j)] = info[j]
    BY <1>5
  <2> QED BY <2>1, <2>2
<1>8. \A j \in 1 .. n : new[j].shardCnt = Cardinality(held[new[j].gid])
  BY <1>3, <1>5
<1>9. Lists(D, held, new)
  BY <1>1, <1>2, <1>6, <1>7, <1>8 DEF Lists
<1>10. new[1].shardCnt <= new[n].shardCnt
  <2>1. info[1].shardCnt <= info[n].shardCnt
    BY DEF Ends, n
  <2>2. 1 \in 1 .. n /\ n \in 1 .. n
    BY <1>1
  <2>3. CASE i = 1 /\ n = 2
    BY <1>1, <1>4, <2>1, <2>3
  <2>4. CASE i = 1 /\ n # 2
    <3>1. new[1] = info[2] /\ new[n] = info[n]
      BY <1>2, <1>4, <2>2, <2>4
    <3> QED BY <1>1, <1>4, <2>1, <2>2, <2>4, <3>1
  <2>5. CASE i # 1 /\ n = i + 1
    <3>1. new[1] = info[1] /\ new[n] = info[i]
      BY <1>2, <1>4, <2>2, <2>5
    <3> QED BY <1>1, <1>4, <2>1, <2>2, <2>5, <3>1
  <2>6. CASE i # 1 /\ n # i + 1
    <3>1. new[1] = info[1] /\ new[n] = info[n]
      BY <1>1, <1>2, <1>4, <2>2, <2>6
    <3> QED BY <2>1, <3>1
  <2> QED BY <2>3, <2>4, <2>5, <2>6
<1>11. Ends(new)
  BY <1>2, <1>10 DEF Ends
<1> QED BY <1>9, <1>11 DEF new

LEMMA SiftedLists ==
    ASSUME NEW D, NEW held, NEW info, Lists(D, held, info), Ends(info), NEW i
    PROVE  /\ Lists(D, held, Sifted(info, i)) /\ Ends(Sifted(info, i))
           /\ Len(Sifted(info, i)) = Len(info)
<1>1. CASE i \in 1 .. Len(info) - 1 /\ info[i + 1].shardCnt < info[i].shardCnt
  <2>1. Sifted(info, i) = Swapped(info, i)
    BY <1>1 DEF Sifted, Swapped
  <2>2. Len(Swapped(info, i)) = Len(info)
    BY <1>1, SwappedIs DEF Lists
  <2> QED BY <1>1, <2>1, <2>2, SwappedLists
<1>2. CASE ~ (i \in 1 .. Len(info) - 1 /\ info[i + 1].shardCnt < info[i].shardCnt)
  BY <1>2 DEF Sifted
<1> QED BY <1>1, <1>2

\* The loop goes on only between two groups, the last of which has two shards more.
LEMMA UnevenEnds ==
    ASSUME NEW D, NEW held, NEW info, Lists(D, held, info), Ends(info), ~ IsEven(info)
    PROVE  /\ Len(info) \in Nat /\ Len(info) >= 2
           /\ info[1].shardCnt + 2 <= info[Len(info)].shardCnt
<1> DEFINE n == Len(info)
<1>1. n \in Nat \ {0} /\ info[1].shardCnt \in Nat /\ info[n].shardCnt \in Nat
  BY LoadType
<1>2. Head(info) = info[1] /\ Last(info) = info[n]
  BY DEF Last, Lists
<1>3. PICK a \in Nat : a = info[1].shardCnt
  BY <1>1
<1>4. PICK z \in Nat : z = info[n].shardCnt
  BY <1>1
<1>5. a <= z
  BY <1>3, <1>4 DEF Ends
<1>6. ~ (z - a \in -1 .. 1)
  BY <1>2, <1>3, <1>4 DEF IsEven
<1>7. a + 2 <= z
  BY <1>5, <1>6
<1>8. n # 1
  BY <1>3, <1>4, <1>7
<1> QED BY <1>1, <1>3, <1>4, <1>7, <1>8

Covers(D, held) == \A s \in Shard : \E g \in D : s \in held[g]

CountsMoved(D, held, new, max, min) ==
    \A g \in D : Cardinality(new[g]) =
        IF g = max THEN Cardinality(held[g]) - 1
        ELSE IF g = min THEN Cardinality(held[g]) + 1 ELSE Cardinality(held[g])

\* A shard goes from one group to another.
LEMMA MovedHolds ==
    ASSUME NEW D, NEW held, Holds(D, held), NEW max \in D, NEW min \in D, max # min,
           NEW sid \in held[max], NEW new,
           new = [held EXCEPT ![max] = @ \ {sid}, ![min] = @ \cup {sid}]
    PROVE  /\ Holds(D, new) /\ (Covers(D, held) => Covers(D, new))
           /\ CountsMoved(D, held, new, max, min)
<1>1. /\ held \in [D -> SUBSET Shard] /\ sid \in Shard
      /\ \A g, h \in D : g # h => held[g] \cap held[h] = {}
  BY DEF Holds
<1>2. /\ new \in [D -> SUBSET Shard]
      /\ \A g \in D : new[g] = IF g = max THEN held[g] \ {sid}
                               ELSE IF g = min THEN held[g] \cup {sid} ELSE held[g]
  BY <1>1
<1>3. \A g, h \in D : g # h => new[g] \cap new[h] = {}
  BY <1>1, <1>2
<1>4. Covers(D, held) => Covers(D, new)
  <2> SUFFICES ASSUME Covers(D, held), NEW s \in Shard PROVE \E g \in D : s \in new[g]
    BY DEF Covers
  <2>1. PICK g \in D : s \in held[g]
    BY DEF Covers
  <2>2. CASE s = sid
    BY <1>2, <2>2
  <2>3. CASE s # sid
    BY <1>2, <2>1, <2>3
  <2> QED BY <2>2, <2>3
<1>5. \A g \in D : IsFiniteSet(held[g]) /\ Cardinality(held[g]) \in Nat
  BY <1>1, ShardType
<1>6. Cardinality(held[max] \ {sid}) = Cardinality(held[max]) - 1
  BY <1>5, FS_RemoveElement
<1>7. Cardinality(held[min] \cup {sid}) = Cardinality(held[min]) + 1
  <2>1. sid \notin held[min]
    BY <1>1
  <2> QED BY <1>5, <2>1, FS_AddElement
<1>8. ASSUME NEW g \in D
      PROVE  Cardinality(new[g]) = IF g = max THEN Cardinality(held[g]) - 1
                 ELSE IF g = min THEN Cardinality(held[g]) + 1 ELSE Cardinality(held[g])
  BY <1>2, <1>6, <1>7
<1> QED BY <1>2, <1>3, <1>4, <1>8 DEF Holds, CountsMoved

\* The counts of the first and the last group after the move, before the list is sifted.
Counted(info) ==
    [info EXCEPT ![1].shardCnt = @ + 1, ![Len(info)].shardCnt = @ - 1]

LEMMA CountedIs ==
    ASSUME NEW D, NEW info \in Seq(Infos(D)), Len(info) >= 2, info[Len(info)].shardCnt # 0
    PROVE  /\ Counted(info) \in Seq(Infos(D)) /\ Len(Counted(info)) = Len(info)
           /\ \A j \in 1 .. Len(info) :
                 /\ Counted(info)[j].gid = info[j].gid
                 /\ Counted(info)[j].shardCnt = IF j = 1 THEN info[j].shardCnt + 1
                                               ELSE IF j = Len(info) THEN info[j].shardCnt - 1
                                               ELSE info[j].shardCnt
<1> DEFINE n == Len(info)
           new == Counted(info)
<1>1. n \in Nat /\ n >= 2 /\ 1 \in 1 .. n /\ n \in 1 .. n
  OBVIOUS
<1>2. \A j \in 1 .. n : info[j] \in Infos(D)
  OBVIOUS
<1>3. PICK first : first = [info[1] EXCEPT !.shardCnt = @ + 1]
  OBVIOUS
<1>4. PICK last : last = [info[n] EXCEPT !.shardCnt = @ - 1]
  OBVIOUS
<1>5. first \in Infos(D) /\ first.gid = info[1].gid /\ first.shardCnt = info[1].shardCnt + 1
  <2>1. info[1] \in Infos(D)
    BY <1>1, <1>2
  <2> QED BY <1>3, <2>1 DEF Infos
<1>6. last \in Infos(D) /\ last.gid = info[n].gid /\ last.shardCnt = info[n].shardCnt - 1
  <2>1. info[n] \in Infos(D) /\ info[n].shardCnt # 0
    BY <1>1, <1>2
  <2> HIDE DEF n
  <2> QED BY <1>4, <2>1 DEF Infos
<1>7. new = [info EXCEPT ![1] = first, ![n] = last]
  <2>1. n # 1
    BY <1>1
  <2> QED BY <1>1, <1>3, <1>4, <2>1 DEF Counted
<1>8. /\ new \in Seq(Infos(D)) /\ Len(new) = n
      /\ \A j \in 1 .. n : new[j] = IF j = n THEN last ELSE IF j = 1 THEN first ELSE info[j]
  <2> HIDE DEF new
  <2> QED BY <1>1, <1>5, <1>6, <1>7
<1> HIDE DEF new, n
<1>9. ASSUME NEW j \in 1 .. n
      PROVE  /\ new[j].gid = info[j].gid
             /\ new[j].shardCnt = IF j = 1 THEN info[j].shardCnt + 1
                                  ELSE IF j = n THEN info[j].shardCnt - 1 ELSE info[j].shardCnt
  <2>1. CASE j = n
    <3>1. j # 1 /\ new[j] = last
      BY <1>1, <1>8, <2>1
    <3> QED BY <1>6, <2>1, <3>1
  <2>2. CASE j = 1
    <3>1. j # n /\ new[j] = first
      BY <1>1, <1>8, <2>2
    <3> QED BY <1>5, <2>2, <3>1
  <2>3. CASE j # n /\ j # 1
    BY <1>8, <2>3
  <2> QED BY <2>1, <2>2, <2>3
<1> QED BY <1>8, <1>9 DEF new, n

\* What every state of the loop is.
IsState(D, state) ==
    Holds(D, state.held) /\ Lists(D, state.held, state.info) /\ Ends(state.info)

\* A round before the sifting: both ends are still in order, as they were two apart.
LEMMA MovedLists ==
    ASSUME NEW D \in SUBSET Gid, NEW state, IsState(D, state), ~ IsEven(state.info)
    PROVE  \E new :
             /\ Round(state).held = new
             /\ Round(state).info = Sifted(Sifted(Counted(state.info), 1), Len(state.info) - 1)
             /\ Holds(D, new) /\ (Covers(D, state.held) => Covers(D, new))
             /\ Lists(D, new, Counted(state.info)) /\ Ends(Counted(state.info))
             /\ Len(Counted(state.info)) = Len(state.info)
<1> DEFINE held == state.held
           info == state.info
           n == Len(info)
           max == info[n].gid
           min == info[1].gid
           sid == Min(held[max])
           new == [held EXCEPT ![max] = @ \ {sid}, ![min] = @ \cup {sid}]
           count == Counted(info)
<1>1. /\ n \in Nat /\ n >= 2
      /\ info[1].shardCnt + 2 <= info[n].shardCnt
  BY UnevenEnds DEF IsState
<1>2. \A i \in 1 .. n : info[i] \in Infos(D) /\ info[i].gid \in D /\ info[i].shardCnt \in Nat
  BY LoadType DEF IsState
<1>3. /\ info \in Seq(Infos(D))
      /\ \A i, j \in 1 .. n : info[i].gid = info[j].gid => i = j
      /\ \A g \in D : \E i \in 1 .. n : info[i].gid = g
      /\ \A i \in 1 .. n : info[i].shardCnt = Cardinality(held[info[i].gid])
  BY DEF IsState, Lists
<1>4. 1 \in 1 .. n /\ n \in 1 .. n /\ n # 1
  BY <1>1
<1>5. max \in D /\ min \in D /\ max # min
  BY <1>2, <1>3, <1>4
<1>6. info[n].shardCnt # 0
  BY <1>1, <1>2, <1>4
<1>7. held[max] \in SUBSET Nat /\ held[max] # {}
  <2>1. held[max] \in SUBSET Shard
    BY <1>5 DEF IsState, Holds
  <2>2. Cardinality(held[max]) # 0
    BY <1>3, <1>4, <1>6
  <2> HIDE DEF max, held
  <2> QED BY <2>1, <2>2, ShardType, FS_EmptySet
<1>8. sid \in held[max]
  <2> HIDE DEF max, held
  <2> QED BY <1>7, MinIn
<1>9. Head(info) = info[1] /\ Last(info) = info[n]
  BY <1>3, <1>4 DEF Last
<1>10. /\ count \in Seq(Infos(D)) /\ Len(count) = n
       /\ \A j \in 1 .. n :
             /\ count[j].gid = info[j].gid
             /\ count[j].shardCnt = IF j = 1 THEN info[j].shardCnt + 1
                                    ELSE IF j = n THEN info[j].shardCnt - 1 ELSE info[j].shardCnt
  BY <1>1, <1>3, <1>6, CountedIs
<1>11. Round(state).held = new /\ Round(state).info = Sifted(Sifted(count, 1), n - 1)
  BY <1>9, <1>10 DEF Round, Counted
<1>12. Holds(D, held)
  BY DEF IsState
<1> HIDE DEF sid, held, max, min, count, n
<1>13. /\ Holds(D, new) /\ (Covers(D, held) => Covers(D, new))
       /\ CountsMoved(D, held, new, max, min)
  BY <1>5, <1>8, <1>12, MovedHolds
<1> HIDE DEF new
<1>14. \A j \in 1 .. n : count[j].shardCnt = Cardinality(new[count[j].gid])
  <2> SUFFICES ASSUME NEW j \in 1 .. n PROVE count[j].shardCnt = Cardinality(new[count[j].gid])
    OBVIOUS
  <2>1. count[j].gid = info[j].gid /\ info[j].gid \in D
        /\ info[j].shardCnt = Cardinality(held[info[j].gid])
    BY <1>2, <1>3, <1>10
  <2>2. (info[j].gid = max <=> j = n) /\ (info[j].gid = min <=> j = 1)
    BY <1>3, <1>4 DEF max, min
  <2> QED BY <1>4, <1>10, <1>13, <2>1, <2>2 DEF CountsMoved
<1>15. Lists(D, new, count)
  <2>1. /\ \A i, j \in 1 .. n : count[i].gid = count[j].gid => i = j
        /\ \A g \in D : \E i \in 1 .. n : count[i].gid = g
    BY <1>3, <1>10
  <2> QED BY <1>1, <1>10, <1>14, <2>1 DEF Lists
<1>16. Ends(count)
  <2>1. count[1].shardCnt = info[1].shardCnt + 1 /\ count[n].shardCnt = info[n].shardCnt - 1
    BY <1>4, <1>10
  <2>2. info[1].shardCnt \in Nat /\ info[n].shardCnt \in Nat
    BY <1>2, <1>4
  <2> QED BY <1>1, <1>10, <2>1, <2>2, SMTT(30) DEF Ends
<1> QED BY <1>10, <1>11, <1>13, <1>15, <1>16 DEF count, n, held

LEMMA RoundKeeps ==
    ASSUME NEW D \in SUBSET Gid, NEW state, IsState(D, state), ~ IsEven(state.info)
    PROVE  /\ IsState(D, Round(state))
           /\ Covers(D, state.held) => Covers(D, Round(state).held)
<1>1. PICK new :
         /\ Round(state).held = new
         /\ Round(state).info = Sifted(Sifted(Counted(state.info), 1), Len(state.info) - 1)
         /\ Holds(D, new) /\ (Covers(D, state.held) => Covers(D, new))
         /\ Lists(D, new, Counted(state.info)) /\ Ends(Counted(state.info))
         /\ Len(Counted(state.info)) = Len(state.info)
  BY MovedLists
<1>2. PICK once : once = Sifted(Counted(state.info), 1)
  OBVIOUS
<1>3. Lists(D, new, once) /\ Ends(once)
  BY <1>1, <1>2, SiftedLists
<1>4. PICK i : i = Len(state.info) - 1
  OBVIOUS
<1>5. Lists(D, new, Sifted(once, i)) /\ Ends(Sifted(once, i))
  BY <1>3, SiftedLists
<1> QED BY <1>1, <1>2, <1>4, <1>5 DEF IsState

-----------------------------------------------------------------------------
(***************************************************************************)
(* The whole loop.  Its states are those that Balanced defines, shown of   *)
(* the least number of rounds for which they would not be there.           *)
(***************************************************************************)
First(held) == [held |-> held, info |-> SortedInfo(held)]

Step(state) == IF IsEven(state.info) THEN state ELSE Round(state)

IsLoop(f, held, n) ==
    f = [k \in 0 .. n |-> IF k = 0 THEN First(held) ELSE Step(f[k - 1])]

LEMMA LoopIs ==
    ASSUME NEW n \in Nat, NEW f, NEW held, IsLoop(f, held, n)
    PROVE  f[0] = First(held) /\ \A k \in 1 .. n : f[k] = Step(f[k - 1])
<1>1. \A k \in 0 .. n : f[k] = IF k = 0 THEN First(held) ELSE Step(f[k - 1])
  BY Zenon DEF IsLoop
<1> QED BY <1>1

LEMMA LoopExists ==
    ASSUME NEW held, NEW n \in Nat
    PROVE  \E f : IsLoop(f, held, n)
<1> DEFINE Bad == {m \in Nat : ~ \E f : IsLoop(f, held, m)}
<1> SUFFICES ASSUME n \in Bad PROVE FALSE
  OBVIOUS
<1>1. PICK m \in Bad : \A k \in Bad : m <= k
  BY LeastOf
<1>2. m # 0
  <2> DEFINE f == [k \in 0 .. 0 |-> First(held)]
  <2>1. IsLoop(f, held, 0)
    BY DEF IsLoop
  <2> QED BY <2>1
<1>3. m \in Nat /\ m - 1 \in Nat /\ m - 1 \notin Bad
  BY <1>1, <1>2
<1>4. PICK f : IsLoop(f, held, m - 1)
  BY <1>3
<1> DEFINE g == [k \in 0 .. m |-> IF k = m THEN Step(f[m - 1]) ELSE f[k]]
<1>5. /\ f[0] = First(held)
      /\ \A k \in 1 .. m - 1 : f[k] = Step(f[k - 1])
  BY <1>3, <1>4, LoopIs
<1>6. \A k \in 0 .. m : g[k] = IF k = 0 THEN First(held) ELSE Step(g[k - 1])
  <2> SUFFICES ASSUME NEW k \in 0 .. m
               PROVE  g[k] = IF k = 0 THEN First(held) ELSE Step(g[k - 1])
    OBVIOUS
  <2>1. CASE k = 0
    BY <1>2, <1>3, <1>5, <2>1
  <2>2. CASE k = m
    <3>1. g[k] = Step(f[m - 1])
      BY <1>3, <2>2
    <3>2. g[m - 1] = f[m - 1]
      BY <1>3
    <3> HIDE DEF g
    <3> QED BY <1>2, <2>2, <3>1, <3>2
  <2>3. CASE k # 0 /\ k # m
    <3>1. g[k] = f[k] /\ g[k - 1] = f[k - 1] /\ k \in 1 .. m - 1
      BY <1>3, <2>3
    <3> HIDE DEF g
    <3> QED BY <1>5, <2>3, <3>1
  <2> QED BY <2>1, <2>2, <2>3
<1>7. g = [k \in 0 .. m |-> g[k]]
  OBVIOUS
<1> HIDE DEF g
<1>8. IsLoop(g, held, m)
  BY <1>6, <1>7 DEF IsLoop
<1> QED BY <1>1, <1>8

LEMMA BalancedIs ==
    ASSUME NEW held, NEW n, n = NumShards * Cardinality(DOMAIN held), n \in Nat
    PROVE  \E f : IsLoop(f, held, n) /\ Balanced(held) = f[n].held
<1> DEFINE loop == CHOOSE f : IsLoop(f, held, n)
<1>1. IsLoop(loop, held, n)
  BY LoopExists
<1>2. Balanced(held) = loop[n].held
  BY DEF Balanced, IsLoop, First, Step
<1> HIDE DEF loop
<1> QED BY <1>1, <1>2

LEMMA RoundsType ==
    ASSUME NEW D \in SUBSET Gid, D # {}, NEW held, Holds(D, held)
    PROVE  /\ DOMAIN held = D
           /\ NumShards * Cardinality(DOMAIN held) \in Nat
           /\ NumShards <= NumShards * Cardinality(DOMAIN held)
<1>1. DOMAIN held = D /\ NumShards \in Nat \ {0}
  BY CtrlerAssumption DEF Holds
<1>2. IsFiniteSet(D) /\ Cardinality(D) \in Nat /\ Cardinality(D) # 0
  BY GidType, FS_CardinalityType, FS_EmptySet
<1>3. PICK c \in Nat \ {0} : c = Cardinality(D)
  BY <1>2
<1>4. PICK s \in Nat \ {0} : s = NumShards
  BY <1>1
<1>5. s * c \in Nat /\ s <= s * c
  OBVIOUS
<1> QED BY <1>1, <1>3, <1>4, <1>5

LEMMA LoopKeeps ==
    ASSUME NEW D \in SUBSET Gid, D # {}, NEW held, Holds(D, held),
           NEW n \in Nat, NEW f, IsLoop(f, held, n), NEW k \in 0 .. n
    PROVE  IsState(D, f[k]) /\ (Covers(D, held) => Covers(D, f[k].held))
<1> DEFINE Good(j) == IsState(D, f[j]) /\ (Covers(D, held) => Covers(D, f[j].held))
           Bad == {j \in 0 .. n : ~ Good(j)}
<1> SUFFICES ASSUME k \in Bad PROVE FALSE
  OBVIOUS
<1>1. PICK m \in Bad : \A j \in Bad : m <= j
  <2>1. Bad \subseteq Nat /\ Bad # {}
    OBVIOUS
  <2> HIDE DEF Bad
  <2> QED BY <2>1, LeastOf
<1>2. m \in 0 .. n /\ ~ Good(m)
  BY <1>1
<1>3. f[0] = First(held) /\ \A j \in 1 .. n : f[j] = Step(f[j - 1])
  BY LoopIs
<1>4. Good(0)
  <2>1. PICK info : /\ info = SortedInfo(held) /\ Lists(D, held, info)
                    /\ Ascending(info) /\ Len(info) <= Cardinality(D)
    BY SortedInfoLists
  <2>2. Ends(info)
    <3>1. /\ Len(info) \in Nat \ {0}
          /\ \A i \in 1 .. Len(info) : info[i].shardCnt \in Nat
      BY <2>1, LoadType
    <3>2. PICK e \in Nat \ {0} : e = Len(info)
      BY <3>1
    <3>3. 1 \in 1 .. e /\ e \in 1 .. e /\ (1 < e \/ 1 = e)
      OBVIOUS
    <3>4. 1 < e => info[1].shardCnt <= info[e].shardCnt
      BY <2>1, <3>2, <3>3 DEF Ascending
    <3>5. 1 = e => info[1].shardCnt <= info[e].shardCnt
      <4>1. info[1].shardCnt \in Nat
        BY <3>1, <3>2, <3>3
      <4>2. info[1].shardCnt <= info[1].shardCnt
        BY <4>1
      <4> QED BY <4>2
    <3> QED BY <3>2, <3>3, <3>4, <3>5 DEF Ends
  <2>3. f[0].held = held /\ f[0].info = info
    BY <1>3, <2>1 DEF First
  <2> QED BY <2>1, <2>2, <2>3 DEF IsState
<1>5. m # 0 /\ m - 1 \in 0 .. n /\ m \in 1 .. n /\ m - 1 < m
  BY <1>2, <1>4
<1>6. Good(m - 1)
  <2>1. m - 1 \notin Bad
    BY <1>1, <1>5
  <2> QED BY <1>5, <2>1
<1>7. PICK last : last = f[m - 1]
  OBVIOUS
<1>8. IsState(D, last) /\ (Covers(D, held) => Covers(D, last.held)) /\ f[m] = Step(last)
  BY <1>3, <1>5, <1>6, <1>7
<1> HIDE DEF Bad
<1>9. IsState(D, Step(last)) /\ (Covers(D, held) => Covers(D, Step(last).held))
  BY <1>8, RoundKeeps DEF Step
<1> QED BY <1>2, <1>8, <1>9

-----------------------------------------------------------------------------
(***************************************************************************)
(* Configurations that stay whole.                                         *)
(***************************************************************************)
LEMMA WholeIs ==
    ASSUME NEW config, IsWhole(config)
    PROVE  LET D == Groups(config)
           IN /\ D = config.groupHosts /\ D = DOMAIN config.gid2shards
              /\ \A g \in D : config.gid2shards[g] \in SUBSET Shard
              /\ \A g, h \in D : g # h => config.gid2shards[g] \cap config.gid2shards[h] = {}
              /\ D # {} => Covers(D, config.gid2shards)
              /\ D = {} => \A s \in Shard : config.shard2gid[s] = INVALID_GID
<1>1. \A g \in Groups(config) : config.gid2shards[g] \in SUBSET Shard
  <2>1. Groups(config) # {} => UNION {config.gid2shards[g] : g \in Groups(config)} = Shard
    BY DEF IsWhole
  <2> QED BY <2>1
<1>2. Groups(config) # {} => Covers(Groups(config), config.gid2shards)
  <2>1. Groups(config) # {} => UNION {config.gid2shards[g] : g \in Groups(config)} = Shard
    BY DEF IsWhole
  <2> QED BY <2>1 DEF Covers
<1> QED BY <1>1, <1>2 DEF IsWhole, Groups

LEMMA WholeBy ==
    ASSUME NEW config, NEW D, DOMAIN config.gid2shards = D, config.groupHosts = D,
           Holds(D, config.gid2shards), Covers(D, config.gid2shards), D # {}
    PROVE  IsWhole(config)
<1>1. Groups(config) = D
  BY DEF Groups
<1>2. UNION {config.gid2shards[g] : g \in D} = Shard
  BY DEF Holds, Covers
<1> QED BY <1>1, <1>2 DEF IsWhole, Holds

\* What a join makes of the groups before the loop.
LEMMA JoinedIs ==
    ASSUME NEW config, IsWhole(config), NEW gids \in SUBSET Gid, gids # {}
    PROVE  LET D == Groups(config) \cup gids
               held == Joined(config, gids).gid2shards
           IN /\ Holds(D, held)
              /\ gids \cap Groups(config) = {} => Covers(D, held)
<1> DEFINE D == Groups(config) \cup gids
           noGroup == DOMAIN config.gid2shards = {}
           held == Joined(config, gids).gid2shards
<1>1. PICK order \in Seq(gids) : order = InOrder(gids, <) /\ Len(order) \in Nat \ {0}
  BY OrderOfGids
<1> DEFINE dealt == [s \in Shard |-> order[(s % Len(order)) + 1]]
<1>2. \A s \in Shard : dealt[s] \in gids
  <2> SUFFICES ASSUME NEW s \in Shard PROVE order[(s % Len(order)) + 1] \in gids
    OBVIOUS
  <2>1. s \in Nat
    BY ShardType
  <2>2. PICK n \in Nat \ {0} : n = Len(order)
    BY <1>1
  <2>3. PICK k \in 1 .. n : k = (s % n) + 1
    <3>1. (s % n) + 1 \in 1 .. n
      BY <2>1
    <3> QED BY <3>1
  <2>4. order[k] \in gids
    BY <2>2
  <2> QED BY <2>2, <2>3, <2>4
<1>3. held = [g \in DOMAIN config.gid2shards \cup gids |->
                 IF noGroup THEN {s \in Shard : dealt[s] = g}
                 ELSE IF g \in gids THEN {} ELSE config.gid2shards[g]]
  BY <1>1 DEF Joined, Config
<1>4. /\ D = DOMAIN config.gid2shards \cup gids
      /\ \A g \in Groups(config) : config.gid2shards[g] \in SUBSET Shard
      /\ \A g, h \in Groups(config) : g # h => config.gid2shards[g] \cap config.gid2shards[h] = {}
      /\ Groups(config) # {} => Covers(Groups(config), config.gid2shards)
  BY WholeIs DEF Groups
<1> HIDE DEF held, dealt
<1>5. CASE noGroup
  <2>1. held = [g \in D |-> {s \in Shard : dealt[s] = g}]
    BY <1>3, <1>4, <1>5
  <2>2. Holds(D, held)
    BY <2>1 DEF Holds
  <2>3. Covers(D, held)
    BY <1>2, <2>1 DEF Covers
  <2> QED BY <2>2, <2>3 DEF held
<1>6. CASE ~ noGroup
  <2>1. held = [g \in D |-> IF g \in gids THEN {} ELSE config.gid2shards[g]]
    BY <1>3, <1>4, <1>6
  <2>2. Holds(D, held)
    <3>1. held \in [D -> SUBSET Shard]
      BY <1>4, <2>1
    <3>2. \A g, h \in D : g # h => held[g] \cap held[h] = {}
      BY <1>4, <2>1
    <3> QED BY <3>1, <3>2 DEF Holds
  <2>3. gids \cap Groups(config) = {} => Covers(D, held)
    <3> SUFFICES ASSUME gids \cap Groups(config) = {}, NEW s \in Shard
                 PROVE  \E g \in D : s \in held[g]
      BY DEF Covers
    <3>1. PICK g \in Groups(config) : s \in config.gid2shards[g]
      BY <1>4, <1>6 DEF Groups, Covers
    <3>2. held[g] = config.gid2shards[g]
      BY <2>1, <3>1
    <3> QED BY <3>1, <3>2
  <2> QED BY <2>2, <2>3 DEF held
<1> QED BY <1>5, <1>6

LEMMA JoinIs ==
    ASSUME NEW config, NEW gids
    PROVE  /\ Join(config, gids).gid2shards = Balanced(Joined(config, gids).gid2shards)
           /\ Join(config, gids).groupHosts = config.groupHosts \cup gids
<1>1. PICK a, b, c : Joined(config, gids) = Config(a, b, c) /\ c = config.groupHosts \cup gids
  BY DEF Joined
<1>2. Joined(config, gids).gid2shards = a
  BY <1>1 DEF Config
<1>3. Join(config, gids) = [gid2shards |-> Balanced(a), shard2gid |-> b, groupHosts |-> c]
  BY <1>1, <1>2 DEF Join, Config
<1> QED BY <1>1, <1>2, <1>3

LEMMA BalancedKeeps ==
    ASSUME NEW D \in SUBSET Gid, D # {}, NEW held, Holds(D, held)
    PROVE  Holds(D, Balanced(held)) /\ (Covers(D, held) => Covers(D, Balanced(held)))
<1>1. PICK n \in Nat : n = NumShards * Cardinality(DOMAIN held)
  BY RoundsType
<1>2. PICK f : IsLoop(f, held, n) /\ Balanced(held) = f[n].held
  BY <1>1, BalancedIs
<1>3. n \in 0 .. n
  OBVIOUS
<1>4. IsState(D, f[n]) /\ (Covers(D, held) => Covers(D, f[n].held))
  BY <1>2, <1>3, LoopKeeps
<1> QED BY <1>2, <1>4 DEF IsState

LEMMA JoinStaysWhole ==
    ASSUME NEW config, IsWhole(config), config.groupHosts \in SUBSET Gid,
           NEW gids \in SUBSET Gid, gids # {}, gids \cap Groups(config) = {}
    PROVE  IsWhole(Join(config, gids))
<1> DEFINE D == Groups(config) \cup gids
           held == Joined(config, gids).gid2shards
<1>1. Holds(D, held) /\ Covers(D, held)
  BY JoinedIs
<1>2. Groups(config) = config.groupHosts
  BY WholeIs
<1>3. D \in SUBSET Gid /\ D # {} /\ D = config.groupHosts \cup gids
  BY <1>2
<1> HIDE DEF held, D
<1>4. Holds(D, Balanced(held)) /\ Covers(D, Balanced(held))
  BY <1>1, <1>3, BalancedKeeps
<1>5. DOMAIN Balanced(held) = D
  BY <1>4 DEF Holds
<1>6. /\ Join(config, gids).gid2shards = Balanced(held)
      /\ Join(config, gids).groupHosts = D
  BY <1>3, JoinIs DEF held
<1> QED BY <1>3, <1>4, <1>5, <1>6, WholeBy

\* Who leaves hands its shards to one of those who stay, or to nobody.
LEMMA LeaveStaysWhole ==
    ASSUME NEW config, IsWhole(config), config.groupHosts \in SUBSET Gid, NEW gids
    PROVE  IsWhole(Leave(config, gids))
<1> DEFINE D == Groups(config)
           rest == DOMAIN config.gid2shards \ gids
           shards == UNION {HeldBy(config, g) : g \in gids}
           heir == IF rest = {} THEN INVALID_GID ELSE Heir(rest)
           new == Leave(config, gids)
<1>1. /\ D = config.groupHosts /\ D = DOMAIN config.gid2shards
      /\ \A g \in D : config.gid2shards[g] \in SUBSET Shard
      /\ \A g, h \in D : g # h => config.gid2shards[g] \cap config.gid2shards[h] = {}
      /\ D # {} => Covers(D, config.gid2shards)
      /\ D = {} => \A s \in Shard : config.shard2gid[s] = INVALID_GID
  BY WholeIs
<1>2. new = [gid2shards |-> [g \in rest |-> config.gid2shards[g] \cup (IF g = heir THEN shards ELSE {})],
             shard2gid |-> [s \in Shard |-> IF s \in shards THEN heir ELSE config.shard2gid[s]],
             groupHosts |-> config.groupHosts \ gids]
  BY DEF Leave, Config
<1>3. /\ new.gid2shards = [g \in rest |-> config.gid2shards[g] \cup (IF g = heir THEN shards ELSE {})]
      /\ new.shard2gid = [s \in Shard |-> IF s \in shards THEN heir ELSE config.shard2gid[s]]
      /\ new.groupHosts = rest
  <2>1. config.groupHosts \ gids = rest
    BY <1>1
  <2> HIDE DEF new, rest, shards, heir
  <2> QED BY <1>2, <2>1
<1>4. \A s : s \in shards <=> \E g \in gids \cap D : s \in config.gid2shards[g]
  <2>1. \A g : HeldBy(config, g) = IF g \in D THEN config.gid2shards[g] ELSE {}
    BY <1>1 DEF HeldBy
  <2> QED BY <2>1
<1> HIDE DEF new, shards
<1>5. CASE rest = {}
  <2>1. \A s \in Shard : new.shard2gid[s] = INVALID_GID
    <3> SUFFICES ASSUME NEW s \in Shard PROVE new.shard2gid[s] = INVALID_GID
      OBVIOUS
    <3>1. CASE D = {}
      BY <1>1, <1>3, <1>5, <3>1
    <3>2. CASE D # {}
      <4>1. PICK g \in D : s \in config.gid2shards[g]
        BY <1>1, <3>2 DEF Covers
      <4>2. g \in gids
        BY <1>1, <1>5
      <4>3. s \in shards
        BY <1>4, <4>1, <4>2
      <4> QED BY <1>3, <1>5, <4>3
    <3> QED BY <3>1, <3>2
  <2>2. Groups(new) = {} /\ new.groupHosts = {}
    BY <1>3, <1>5 DEF Groups
  <2>3. IsWhole(new)
    BY <2>1, <2>2 DEF IsWhole
  <2> QED BY <2>3 DEF new
<1>6. CASE rest # {}
  <2>1. rest \in SUBSET Nat /\ IsFiniteSet(rest)
    BY <1>1, GidType
  <2>2. heir \in rest
    <3>1. heir = Max(rest)
      BY <1>6 DEF Heir
    <3> HIDE DEF heir, rest
    <3> QED BY <1>6, <2>1, <3>1, MaxIn
  <2>3. shards \in SUBSET Shard
    BY <1>1, <1>4
  <2>4. \A g \in rest : g \in D /\ g \notin gids /\ config.gid2shards[g] \in SUBSET Shard
    BY <1>1
  <2>5. D # {}
    BY <1>1, <1>6
  <2>6. \A g \in D : g \in rest \/ g \in gids
    BY <1>1
  <2> HIDE DEF heir, rest
  <2>7. \A g \in rest : new.gid2shards[g] = config.gid2shards[g] \cup (IF g = heir THEN shards ELSE {})
    BY <1>3
  <2>8. Holds(rest, new.gid2shards)
    <3>1. new.gid2shards \in [rest -> SUBSET Shard]
      BY <1>3, <2>3, <2>4
    <3>2. \A g \in rest : config.gid2shards[g] \cap shards = {}
      BY <1>1, <1>4, <2>4
    <3>3. \A g, h \in rest : g # h => config.gid2shards[g] \cap config.gid2shards[h] = {}
      BY <1>1, <2>4
    <3>4. ASSUME NEW g \in rest, NEW h \in rest, g # h
          PROVE  new.gid2shards[g] \cap new.gid2shards[h] = {}
      BY <2>7, <3>2, <3>3, <3>4
    <3> QED BY <3>1, <3>4 DEF Holds
  <2>9. Covers(rest, new.gid2shards)
    <3> SUFFICES ASSUME NEW s \in Shard PROVE \E g \in rest : s \in new.gid2shards[g]
      BY DEF Covers
    <3>1. PICK g \in D : s \in config.gid2shards[g]
      BY <1>1, <2>5 DEF Covers
    <3>2. CASE g \in rest
      BY <2>7, <3>1, <3>2
    <3>3. CASE g \in gids
      <4>1. s \in shards
        BY <1>4, <3>1, <3>3
      <4> QED BY <2>2, <2>7, <4>1
    <3> QED BY <2>6, <3>2, <3>3
  <2>10. DOMAIN new.gid2shards = rest
    BY <1>3
  <2>11. new.groupHosts = rest
    BY <1>3
  <2>12. IsWhole(new)
    BY <1>6, <2>8, <2>9, <2>10, <2>11, WholeBy
  <2> QED BY <2>12 DEF new
<1> QED BY <1>5, <1>6 DEF new

\* A shard moves from the group that both maps give it to.
LEMMA MoveStaysWhole ==
    ASSUME NEW config, IsWhole(config), NEW sid \in Shard, NEW gid \in Groups(config),
           sid \in HeldBy(config, config.shard2gid[sid])
    PROVE  IsWhole(Move(config, sid, gid))
<1> DEFINE D == Groups(config)
           old == config.shard2gid[sid]
           held == config.gid2shards
           new == Move(config, sid, gid)
<1>1. /\ D = config.groupHosts /\ D = DOMAIN held
      /\ \A g \in D : held[g] \in SUBSET Shard
      /\ \A g, h \in D : g # h => held[g] \cap held[h] = {}
      /\ D # {} => Covers(D, held)
  BY WholeIs
<1>2. old \in D /\ sid \in held[old]
  BY <1>1 DEF HeldBy
<1>3. D \cup {old, gid} = D /\ D # {} /\ gid \in D
  BY <1>2
<1>4. HeldBy(config, gid) = held[gid] /\ HeldBy(config, old) = held[old]
  BY <1>1, <1>2, <1>3 DEF HeldBy
<1>5. /\ new.gid2shards = [g \in DOMAIN held \cup {old, gid} |->
                             CASE g = gid -> HeldBy(config, g) \cup {sid}
                               [] g # gid /\ g = old -> HeldBy(config, g) \ {sid}
                               [] OTHER -> held[g]]
      /\ new.groupHosts = D
  BY <1>1 DEF Move, Config
<1> HIDE DEF new, old, held, D
<1>6. /\ DOMAIN new.gid2shards = D
      /\ \A g \in D : new.gid2shards[g] = IF g = gid THEN held[g] \cup {sid}
                                          ELSE IF g = old THEN held[g] \ {sid} ELSE held[g]
  BY <1>1, <1>3, <1>4, <1>5
<1>7. Holds(D, new.gid2shards)
  <2>1. new.gid2shards = [g \in D |-> new.gid2shards[g]]
    BY <1>1, <1>3, <1>5
  <2>2. ASSUME NEW g \in D PROVE new.gid2shards[g] \in SUBSET Shard
    <3>1. held[g] \in SUBSET Shard
      BY <1>1
    <3>2. new.gid2shards[g] \in {held[g] \cup {sid}, held[g] \ {sid}, held[g]}
      BY <1>6
    <3> QED BY <3>1, <3>2
  <2>3. new.gid2shards \in [D -> SUBSET Shard]
    BY <2>1, <2>2
  <2>4. \A g \in D : sid \in held[g] => g = old
    BY <1>1, <1>2
  <2>5. ASSUME NEW g \in D, NEW h \in D, g # h
        PROVE  new.gid2shards[g] \cap new.gid2shards[h] = {}
    <3>1. held[g] \cap held[h] = {}
      BY <1>1, <2>5
    <3>2. /\ g # gid => new.gid2shards[g] \subseteq held[g] /\ sid \notin new.gid2shards[g]
          /\ h # gid => new.gid2shards[h] \subseteq held[h] /\ sid \notin new.gid2shards[h]
      BY <1>6, <2>4
    <3>3. /\ g = gid => new.gid2shards[g] = held[g] \cup {sid}
          /\ h = gid => new.gid2shards[h] = held[h] \cup {sid}
      BY <1>6
    <3> QED BY <2>5, <3>1, <3>2, <3>3
  <2> QED BY <2>3, <2>5 DEF Holds
<1>8. Covers(D, new.gid2shards)
  <2> SUFFICES ASSUME NEW s \in Shard PROVE \E g \in D : s \in new.gid2shards[g]
    BY DEF Covers
  <2>1. PICK g \in D : s \in held[g]
    BY <1>1, <1>3 DEF Covers
  <2>2. CASE s = sid
    BY <1>3, <1>6, <2>2
  <2>3. CASE s # sid
    BY <1>6, <2>1, <2>3
  <2> QED BY <2>2, <2>3
<1> QED BY <1>3, <1>5, <1>6, <1>7, <1>8, WholeBy DEF new

-----------------------------------------------------------------------------
(***************************************************************************)
(* What an applied command does to the newest configuration.               *)
(***************************************************************************)
LEMMA ReadArgs ==
    ASSUME NEW x \in Read
    PROVE  /\ x.op \in {"JOIN", "LEAVE"} => x.gids \in SUBSET Gid
           /\ x.op = "JOIN" => x.gids # {}
           /\ x.op = "MOVE" => x.shard \in Shard
<1>1. PICK cmd \in Command : x = Received(cmd)
  BY DEF Read
<1>2. cmd \in Commands
  BY CtrlerAssumption
<1>3. CASE cmd \in JoinArgs
  <2>1. cmd.op = "JOIN" /\ cmd.gids \in SUBSET Gid /\ cmd.gids # {}
    <3>1. cmd.op \in {"JOIN"} /\ cmd.gids \in (SUBSET Gid) \ {{}}
      BY <1>3 DEF JoinArgs
    <3>2. \A U \in (SUBSET Gid) \ {{}} : U \in SUBSET Gid /\ U # {}
      OBVIOUS
    <3> QED BY <3>1, <3>2, Zenon
  <2>2. Min(cmd.gids) \in cmd.gids
    BY <2>1, GidType, MinIn
  <2>3. x.op = "JOIN" /\ x.gids = {Min(cmd.gids)}
    BY <1>1, <1>3, <2>1 DEF Received, JoinArgs
  <2> QED BY <2>1, <2>2, <2>3
<1>4. CASE cmd \in LeaveArgs
  BY <1>1, <1>4 DEF LeaveArgs, Received
<1>5. CASE cmd \in MoveArgs
  BY <1>1, <1>5 DEF MoveArgs, Received
<1>6. CASE cmd \in QueryArgs
  BY <1>1, <1>6 DEF QueryArgs, Received
<1> QED BY <1>2, <1>3, <1>4, <1>5, <1>6 DEF Commands

LEMMA LastOfAppend ==
    ASSUME NEW list, IsList(list), NEW config
    PROVE  Last(Append(list, config)) = config
<1>1. PICK S : list \in Seq(S)
  BY DEF IsList
<1>2. Len(Append(list, config)) = Len(list) + 1 /\ Append(list, config)[Len(list) + 1] = config
  BY <1>1
<1> QED BY <1>2 DEF Last

LEMMA HandledLast ==
    ASSUME NEW list, IsList(list), NEW cmd \in Read
    PROVE  LET config == Last(list)
               new == Last(Handled(list, cmd))
           IN /\ cmd.op = "JOIN" => new = Join(config, cmd.gids)
              /\ cmd.op = "LEAVE" => new = Leave(config, cmd.gids)
              /\ cmd.op = "MOVE" => new = Move(config, cmd.shard, cmd.gid)
              /\ cmd.op = "QUERY" => new = config
<1>1. CASE cmd.op = "JOIN"
  BY <1>1, LastOfAppend DEF Handled
<1>2. CASE cmd.op = "LEAVE"
  BY <1>2, LastOfAppend DEF Handled
<1>3. CASE cmd.op = "MOVE"
  BY <1>3, LastOfAppend DEF Handled
<1>4. CASE cmd.op = "QUERY"
  BY <1>4 DEF Handled
<1> QED BY <1>1, <1>2, <1>3, <1>4

\* The groups with hosts are ones that clients name.
HostsInv == Last(configs).groupHosts \in SUBSET Gid

LEMMA ApplyHosts ==
    ASSUME Types, HostsInv, Apply
    PROVE  HostsInv'
<1> DEFINE cmd == log[lastApplyIndex + 1].cmd
           config == Last(configs)
           new == Last(configs')
<1>1. cmd \in Read /\ configs' = Handled(configs, cmd)
  BY ApplyFacts
<1>2. IsList(configs)
  BY DEF Types
<1>3. config.groupHosts \in SUBSET Gid
  BY DEF HostsInv
<1>4. /\ cmd.op = "JOIN" => new = Join(config, cmd.gids)
      /\ cmd.op = "LEAVE" => new = Leave(config, cmd.gids)
      /\ cmd.op = "MOVE" => new = Move(config, cmd.shard, cmd.gid)
      /\ cmd.op = "QUERY" => new = config
  BY <1>1, <1>2, HandledLast
<1>5. cmd.op \in {"JOIN", "LEAVE", "MOVE", "QUERY"}
  BY <1>1, ReadType
<1>6. cmd.op \in {"JOIN", "LEAVE"} => cmd.gids \in SUBSET Gid
  BY <1>1, ReadArgs
<1> HIDE DEF cmd, config, new
<1>7. new.groupHosts \in SUBSET Gid
  <2>1. CASE cmd.op = "JOIN"
    BY <1>3, <1>4, <1>6, <2>1, JoinIs
  <2>2. CASE cmd.op = "LEAVE"
    <3>1. new.groupHosts = config.groupHosts \ cmd.gids
      BY <1>4, <2>2 DEF Leave, Config
    <3> QED BY <1>3, <3>1
  <2>3. CASE cmd.op = "MOVE"
    <3>1. new.groupHosts = config.groupHosts
      BY <1>4, <2>3 DEF Move, Config
    <3> QED BY <1>3, <3>1
  <2>4. CASE cmd.op = "QUERY"
    BY <1>3, <1>4, <2>4
  <2> QED BY <1>5, <2>1, <2>2, <2>3, <2>4
<1> QED BY <1>7 DEF HostsInv, new

LEMMA FirstHosts == Last(<<FirstConfig>>).groupHosts = {}
<1>1. Last(<<FirstConfig>>) = FirstConfig
  BY DEF Last
<1> QED BY <1>1 DEF FirstConfig, Config

\* Whatever else happens, the configurations stay or start again.
LEMMA OtherSteps ==
    ASSUME Types, [Next]_vars
    PROVE  \/ Apply
           \/ configs' = configs /\ lastApplyIndex' = lastApplyIndex
           \/ configs' = <<FirstConfig>> /\ lastApplyIndex' = 0
<1>1. ASSUME NEW t \in Thread,
             (\E cmd \in Command : CallRefused(t, cmd) \/ Start(t, cmd)) \/ Register(t)
      PROVE  configs' = configs /\ lastApplyIndex' = lastApplyIndex
  BY <1>1 DEF CallRefused, Start, Register
<1>2. ASSUME Lead \/ (\E kept \in 0 .. MaxLog : Follow(kept)) \/ (\E cmd \in Command : Replicate(cmd))
      PROVE  configs' = configs /\ lastApplyIndex' = lastApplyIndex
  BY <1>2 DEF Lead, Follow, Replicate
<1>3. ASSUME NEW kept \in 0 .. MaxLog, Restart(kept)
      PROVE  configs' = <<FirstConfig>> /\ lastApplyIndex' = 0
  BY <1>3 DEF Restart
<1>4. CASE UNCHANGED vars
  BY <1>4 DEF vars
<1> QED BY <1>1, <1>2, <1>3, <1>4 DEF Next

THEOREM HostsInvariant == Spec => []HostsInv
<1>1. Init => HostsInv
  BY FirstHosts DEF Init, HostsInv
<1>2. Types /\ HostsInv /\ [Next]_vars => HostsInv'
  <2> SUFFICES ASSUME Types, HostsInv, [Next]_vars PROVE HostsInv'
    OBVIOUS
  <2>1. CASE Apply
    BY <2>1, ApplyHosts
  <2>2. CASE configs' = configs
    BY <2>2 DEF HostsInv
  <2>3. CASE configs' = <<FirstConfig>>
    BY <2>3, FirstHosts DEF HostsInv
  <2> QED BY <2>1, <2>2, <2>3, OtherSteps
<1> QED BY <1>1, <1>2, TypeCorrect, PTL DEF Spec

\* A step that raises lastApplyIndex_ by one applies the entry there.
LEMMA AppliesOneIs ==
    ASSUME Types, [Next]_vars, AppliesOne
    PROVE  /\ Apply /\ Applied \in Read
           /\ configs' = Handled(configs, Applied) /\ IsList(configs)
<1>1. lastApplyIndex \in Nat /\ lastApplyIndex' = lastApplyIndex + 1
  BY DEF Types, AppliesOne
<1>2. Apply
  BY <1>1, OtherSteps
<1> QED BY <1>2, ApplyFacts DEF Applied, Types

LEMMA StepStaysWhole ==
    ASSUME Types, HostsInv, [Next]_vars,
           AppliesOne, IsWhole(Last(configs)), IsHarmless(Applied, Last(configs))
    PROVE  IsWhole(Last(configs'))
<1> DEFINE config == Last(configs)
           new == Last(configs')
<1>1. Applied \in Read /\ configs' = Handled(configs, Applied) /\ IsList(configs)
  BY AppliesOneIs
<1>2. /\ Applied.op = "JOIN" => new = Join(config, Applied.gids)
      /\ Applied.op = "LEAVE" => new = Leave(config, Applied.gids)
      /\ Applied.op = "MOVE" => new = Move(config, Applied.shard, Applied.gid)
      /\ Applied.op = "QUERY" => new = config
  BY <1>1, HandledLast
<1>3. Applied.op \in {"JOIN", "LEAVE", "MOVE", "QUERY"}
  BY <1>1, ReadType
<1>4. /\ Applied.op \in {"JOIN", "LEAVE"} => Applied.gids \in SUBSET Gid
      /\ Applied.op = "JOIN" => Applied.gids # {}
      /\ Applied.op = "MOVE" => Applied.shard \in Shard
  BY <1>1, ReadArgs
<1>5. config.groupHosts \in SUBSET Gid /\ IsWhole(config)
  BY DEF HostsInv
<1>6. /\ Applied.op = "JOIN" => Applied.gids \cap Groups(config) = {}
      /\ Applied.op = "MOVE" => /\ Applied.gid \in Groups(config)
                                /\ Applied.shard \in HeldBy(config, config.shard2gid[Applied.shard])
  BY DEF IsHarmless
<1> HIDE DEF config, new
<1>7. IsWhole(new)
  <2>1. CASE Applied.op = "JOIN"
    BY <1>2, <1>4, <1>5, <1>6, <2>1, JoinStaysWhole
  <2>2. CASE Applied.op = "LEAVE"
    BY <1>2, <1>5, <2>2, LeaveStaysWhole
  <2>3. CASE Applied.op = "MOVE"
    BY <1>2, <1>4, <1>5, <1>6, <2>3, MoveStaysWhole
  <2>4. CASE Applied.op = "QUERY"
    BY <1>2, <1>5, <2>4
  <2> QED BY <1>3, <2>1, <2>2, <2>3, <2>4
<1> QED BY <1>7 DEF new

\* Joins of new groups, leaves, queries and moves of a shard that both maps give to
\* one group keep a whole configuration whole: handleJoin deals or balances every
\* shard, for any number of groups, handleLeave hands on what the group had.
THEOREM ConfigsStayWhole == Spec => StaysWhole
<1>1. Types /\ HostsInv /\ [Next]_vars
        => [AppliesOne /\ IsWhole(Last(configs)) /\ IsHarmless(Applied, Last(configs))
              => IsWhole(Last(configs'))]_vars
  BY StepStaysWhole
<1> QED BY <1>1, TypeCorrect, HostsInvariant, PTL DEF Spec, StaysWhole

-----------------------------------------------------------------------------
(***************************************************************************)
(* Joins level the loads of up to three groups.  A round keeps the list in *)
(* order, since one step of the bubble is enough there, and brings the two *)
(* ends closer; there are as many rounds as shards, or more.               *)
(***************************************************************************)
SiftsTo(info, new, i, k) ==
    /\ Len(new) = Len(info)
    /\ info[k].shardCnt < info[i].shardCnt
          => new[i].shardCnt = info[k].shardCnt /\ new[k].shardCnt = info[i].shardCnt
    /\ ~ (info[k].shardCnt < info[i].shardCnt)
          => new[i].shardCnt = info[i].shardCnt /\ new[k].shardCnt = info[k].shardCnt
    /\ \A j \in 1 .. Len(info) : j # i /\ j # k => new[j].shardCnt = info[j].shardCnt

LEMMA SiftedLoads ==
    ASSUME NEW D, NEW info \in Seq(Infos(D)), NEW i \in 1 .. Len(info) - 1, NEW k, k = i + 1
    PROVE  Sifted(info, i) \in Seq(Infos(D)) /\ SiftsTo(info, Sifted(info, i), i, k)
<1>0. i + 1 \in 1 .. Len(info) /\ i \in 1 .. Len(info) /\ i + 1 # i
  OBVIOUS
<1>1. CASE info[i + 1].shardCnt < info[i].shardCnt
  <2>1. Sifted(info, i) = Swapped(info, i)
    BY <1>1 DEF Sifted, Swapped
  <2>2. /\ Swapped(info, i) \in Seq(Infos(D)) /\ Len(Swapped(info, i)) = Len(info)
        /\ Swapped(info, i)[i] = info[i + 1] /\ Swapped(info, i)[i + 1] = info[i]
        /\ \A j \in 1 .. Len(info) : j # i /\ j # i + 1 => Swapped(info, i)[j] = info[j]
    BY <1>0, SwappedIs
  <2> QED BY <1>0, <1>1, <2>1, <2>2 DEF SiftsTo
<1>2. CASE ~ (info[i + 1].shardCnt < info[i].shardCnt)
  <2>1. Sifted(info, i) = info
    BY <1>2 DEF Sifted
  <2> QED BY <1>0, <1>2, <2>1 DEF SiftsTo
<1> QED BY <1>1, <1>2

Gap(info) == info[Len(info)].shardCnt - info[1].shardCnt

LEMMA RoundOfTwo ==
    ASSUME NEW D, NEW c \in Seq(Infos(D)), Len(c) = 2,
           NEW a \in Nat, NEW z \in Nat, a + 2 <= z,
           c[1].shardCnt = a + 1, c[2].shardCnt = z - 1
    PROVE  LET new == Sifted(Sifted(c, 1), 1)
           IN Len(new) = 2 /\ Ascending(new) /\ Gap(new) + 1 <= z - a
<1>1. Sifted(c, 1) = c
  BY DEF Sifted
<1>2. Ascending(c) /\ Gap(c) + 1 <= z - a
  BY DEF Ascending, Gap
<1> QED BY <1>1, <1>2

LEMMA RoundOfThree ==
    ASSUME NEW D, NEW c \in Seq(Infos(D)), Len(c) = 3,
           NEW a \in Nat, NEW b \in Nat, NEW z \in Nat, a <= b, b <= z, a + 2 <= z,
           c[1].shardCnt = a + 1, c[2].shardCnt = b, c[3].shardCnt = z - 1
    PROVE  LET new == Sifted(Sifted(c, 1), 2)
           IN Len(new) = 3 /\ Ascending(new) /\ Gap(new) + 1 <= z - a
<1>1. PICK d \in Seq(Infos(D)) : d = Sifted(c, 1)
  <2>1. 1 \in 1 .. Len(c) - 1
    OBVIOUS
  <2> QED BY <2>1, SiftedLoads
<1>2. PICK d1 \in Nat, d2 \in Nat :
        /\ Len(d) = 3 /\ d[1].shardCnt = d1 /\ d[2].shardCnt = d2 /\ d[3].shardCnt = z - 1
        /\ b < a + 1 => d1 = b /\ d2 = a + 1
        /\ ~ (b < a + 1) => d1 = a + 1 /\ d2 = b
  <2>1. 1 \in 1 .. Len(c) - 1 /\ 2 = 1 + 1 /\ 3 \in 1 .. Len(c) /\ 3 # 1 /\ 3 # 2
    OBVIOUS
  <2>2. SiftsTo(c, d, 1, 2)
    BY <1>1, <2>1, SiftedLoads
  <2>3. d[3].shardCnt = c[3].shardCnt
    BY <2>1, <2>2 DEF SiftsTo
  <2> QED BY <2>2, <2>3 DEF SiftsTo
<1>3. PICK e \in Seq(Infos(D)) : e = Sifted(d, 2)
  <2>1. 2 \in 1 .. Len(d) - 1
    BY <1>2
  <2> QED BY <2>1, SiftedLoads
<1>4. PICK e2 \in Int, e3 \in Int :
        /\ Len(e) = 3 /\ e[1].shardCnt = d1 /\ e[2].shardCnt = e2 /\ e[3].shardCnt = e3
        /\ z - 1 < d2 => e2 = z - 1 /\ e3 = d2
        /\ ~ (z - 1 < d2) => e2 = d2 /\ e3 = z - 1
  <2>1. 2 \in 1 .. Len(d) - 1 /\ 3 = 2 + 1 /\ 1 \in 1 .. Len(d) /\ 1 # 2 /\ 1 # 3
    BY <1>2
  <2>2. SiftsTo(d, e, 2, 3)
    BY <1>3, <2>1, SiftedLoads
  <2>3. e[1].shardCnt = d[1].shardCnt
    BY <2>1, <2>2 DEF SiftsTo
  <2> QED BY <1>2, <2>2, <2>3 DEF SiftsTo
<1>5. d1 <= e2 /\ e2 <= e3 /\ d1 <= e3 /\ e3 - d1 + 1 <= z - a
  BY <1>2, <1>4
<1>6. Gap(e) + 1 <= z - a
  BY <1>4, <1>5 DEF Gap
<1>7. Ascending(e)
  <2>1. ASSUME NEW i \in 1 .. 3, NEW j \in 1 .. 3, i < j
        PROVE  e[i].shardCnt <= e[j].shardCnt
    <3>1. (i = 1 /\ j = 2) \/ (i = 1 /\ j = 3) \/ (i = 2 /\ j = 3)
      BY <2>1
    <3> QED BY <1>4, <1>5, <3>1
  <2> QED BY <1>4, <2>1 DEF Ascending
<1> QED BY <1>1, <1>3, <1>4, <1>6, <1>7

LEMMA RoundLevels ==
    ASSUME NEW D \in SUBSET Gid, NEW state, IsState(D, state), ~ IsEven(state.info),
           Ascending(state.info), Len(state.info) <= 3
    PROVE  /\ Ascending(Round(state).info) /\ Len(Round(state).info) <= 3
           /\ Gap(Round(state).info) \in Int /\ Gap(Round(state).info) + 1 <= Gap(state.info)
<1> DEFINE info == state.info
           n == Len(info)
           count == Counted(info)
           new == Round(state).info
<1>1. n \in Nat /\ n >= 2 /\ info[1].shardCnt + 2 <= info[n].shardCnt
  BY UnevenEnds DEF IsState
<1>2. \A i \in 1 .. n : info[i].shardCnt \in Nat
  BY LoadType DEF IsState
<1>3. 1 \in 1 .. n /\ n \in 1 .. n /\ n # 1 /\ n \in {2, 3}
  <2>1. n <= 3
    OBVIOUS
  <2> HIDE DEF n
  <2> QED BY <1>1, <2>1
<1>4. PICK a \in Nat : a = info[1].shardCnt
  BY <1>2, <1>3
<1>5. PICK z \in Nat : z = info[n].shardCnt
  BY <1>2, <1>3
<1>6. a + 2 <= z /\ Gap(info) = z - a
  BY <1>1, <1>4, <1>5 DEF Gap
<1>7. new = Sifted(Sifted(count, 1), n - 1)
  BY MovedLists
<1>8. /\ count \in Seq(Infos(D)) /\ Len(count) = n
      /\ \A j \in 1 .. n :
           count[j].shardCnt = IF j = 1 THEN info[j].shardCnt + 1
                               ELSE IF j = n THEN info[j].shardCnt - 1 ELSE info[j].shardCnt
  <2>1. info \in Seq(Infos(D)) /\ info[n].shardCnt # 0
    BY <1>5, <1>6 DEF IsState, Lists
  <2> QED BY <1>1, <2>1, CountedIs
<1>9. count[1].shardCnt = a + 1 /\ count[n].shardCnt = z - 1
  BY <1>3, <1>4, <1>5, <1>8
<1>10. \A i, j \in 1 .. n : i < j => info[i].shardCnt <= info[j].shardCnt
  BY DEF Ascending
<1>11. Gap(new) \in Int
  <2>1. IsState(D, Round(state))
    BY RoundKeeps
  <2>2. /\ Len(new) \in Nat \ {0} /\ \A i \in 1 .. Len(new) : new[i].shardCnt \in Nat
    BY <2>1, LoadType DEF IsState
  <2> HIDE DEF new
  <2>3. new[1].shardCnt \in Nat /\ new[Len(new)].shardCnt \in Nat
    BY <2>2
  <2> QED BY <2>3 DEF Gap
<1> HIDE DEF new, count, n, info
<1>12. CASE n = 2
  <2>1. new = Sifted(Sifted(count, 1), 1)
    BY <1>7, <1>12
  <2>2. Len(new) = 2 /\ Ascending(new) /\ Gap(new) + 1 <= z - a
    BY <1>6, <1>8, <1>9, <1>12, <2>1, RoundOfTwo
  <2> QED BY <1>6, <1>11, <2>2 DEF new, info
<1>13. CASE n = 3
  <2>1. new = Sifted(Sifted(count, 1), 2)
    BY <1>7, <1>13
  <2>2. 2 \in 1 .. n /\ 1 < 2 /\ 2 < n /\ 2 # 1 /\ 2 # n
    BY <1>13
  <2>3. PICK b \in Nat : b = info[2].shardCnt
    BY <1>2, <2>2
  <2>4. a <= b /\ b <= z /\ count[2].shardCnt = b
    BY <1>3, <1>4, <1>5, <1>8, <1>10, <2>2, <2>3
  <2>5. Len(new) = 3 /\ Ascending(new) /\ Gap(new) + 1 <= z - a
    BY <1>6, <1>8, <1>9, <1>13, <2>1, <2>4, RoundOfThree
  <2> QED BY <1>6, <1>11, <2>5 DEF new, info
<1> QED BY <1>3, <1>12, <1>13

\* The first list of loads: none is above the number of shards.
LEMMA FirstGap ==
    ASSUME NEW D \in SUBSET Gid, D # {}, NEW held, Holds(D, held), Cardinality(D) <= 3
    PROVE  /\ Ascending(First(held).info) /\ Len(First(held).info) <= 3
           /\ Gap(First(held).info) \in Int /\ Gap(First(held).info) <= NumShards
<1>1. PICK info : /\ info = SortedInfo(held) /\ Lists(D, held, info)
                  /\ Ascending(info) /\ Len(info) <= Cardinality(D)
  BY SortedInfoLists
<1>2. First(held).info = info
  BY <1>1 DEF First
<1>3. /\ Len(info) \in Nat \ {0}
      /\ \A i \in 1 .. Len(info) : info[i].gid \in D /\ info[i].shardCnt \in Nat
  BY <1>1, LoadType
<1>4. PICK n \in Nat \ {0} : n = Len(info)
  BY <1>3
<1>5. n <= 3
  <2>1. IsFiniteSet(D) /\ Cardinality(D) \in Nat
    BY GidType, FS_CardinalityType
  <2> QED BY <1>1, <1>4, <2>1
<1>6. 1 \in 1 .. n /\ n \in 1 .. n
  OBVIOUS
<1>7. info[n].shardCnt <= NumShards
  <2>1. info[n].shardCnt = Cardinality(held[info[n].gid]) /\ info[n].gid \in D
    BY <1>1, <1>3, <1>4, <1>6 DEF Lists
  <2>2. held[info[n].gid] \in SUBSET Shard
    BY <2>1 DEF Holds
  <2> QED BY <2>1, <2>2, ShardType
<1>8. info[1].shardCnt \in Nat /\ info[n].shardCnt \in Nat /\ NumShards \in Nat
  BY <1>3, <1>4, <1>6, CtrlerAssumption
<1>9. Gap(info) \in Int /\ Gap(info) <= NumShards
  BY <1>4, <1>7, <1>8 DEF Gap
<1> QED BY <1>1, <1>2, <1>4, <1>5, <1>9

\* How level the loop is after k rounds.
LevelAfter(state, k) ==
    /\ Ascending(state.info) /\ Len(state.info) <= 3
    /\ Gap(state.info) \in Int
    /\ IsEven(state.info) \/ Gap(state.info) + k <= NumShards

LEMMA LoopLevels ==
    ASSUME NEW D \in SUBSET Gid, D # {}, NEW held, Holds(D, held), Cardinality(D) <= 3,
           NEW n \in Nat, NEW f, IsLoop(f, held, n), NEW k \in 0 .. n
    PROVE  LevelAfter(f[k], k)
<1> DEFINE Bad == {j \in 0 .. n : ~ LevelAfter(f[j], j)}
<1> SUFFICES ASSUME k \in Bad PROVE FALSE
  OBVIOUS
<1>1. PICK m \in Bad : \A j \in Bad : m <= j
  <2>1. Bad \subseteq Nat /\ Bad # {}
    OBVIOUS
  <2> HIDE DEF Bad
  <2> QED BY <2>1, LeastOf
<1>2. m \in 0 .. n /\ ~ LevelAfter(f[m], m)
  BY <1>1
<1>3. f[0] = First(held) /\ \A j \in 1 .. n : f[j] = Step(f[j - 1])
  BY LoopIs
<1>4. LevelAfter(f[0], 0)
  <2>1. PICK gap \in Int : gap = Gap(First(held).info) /\ gap <= NumShards
    BY FirstGap
  <2>2. gap + 0 <= NumShards
    BY <2>1
  <2> QED BY <1>3, <2>1, <2>2, FirstGap DEF LevelAfter
<1>5. m # 0 /\ m - 1 \in 0 .. n /\ m \in 1 .. n /\ m - 1 < m
  BY <1>2, <1>4
<1>6. LevelAfter(f[m - 1], m - 1)
  <2>1. m - 1 \notin Bad
    BY <1>1, <1>5
  <2> QED BY <1>5, <2>1
<1>7. PICK last : last = f[m - 1]
  OBVIOUS
<1>8. IsState(D, last) /\ LevelAfter(last, m - 1) /\ f[m] = Step(last)
  BY <1>3, <1>5, <1>6, <1>7, LoopKeeps
<1> HIDE DEF Bad
<1>9. CASE IsEven(last.info)
  <2>1. Step(last) = last
    BY <1>9 DEF Step
  <2> QED BY <1>2, <1>8, <1>9, <2>1 DEF LevelAfter
<1>10. CASE ~ IsEven(last.info)
  <2>1. Step(last) = Round(last)
    BY <1>10 DEF Step
  <2>2. Ascending(last.info) /\ Len(last.info) <= 3
    BY <1>8 DEF LevelAfter
  <2>3. /\ Ascending(Round(last).info) /\ Len(Round(last).info) <= 3
        /\ Gap(Round(last).info) \in Int /\ Gap(Round(last).info) + 1 <= Gap(last.info)
    BY <1>8, <1>10, <2>2, RoundLevels
  <2>4. PICK gap \in Int : gap = Gap(last.info) /\ gap + (m - 1) <= NumShards
    BY <1>8, <1>10 DEF LevelAfter
  <2>5. PICK new \in Int : new = Gap(Round(last).info) /\ new + 1 <= gap
    BY <2>3, <2>4
  <2>6. new + m <= NumShards
    BY <1>5, <2>4, <2>5, CtrlerAssumption
  <2>7. LevelAfter(Round(last), m)
    BY <2>3, <2>5, <2>6 DEF LevelAfter
  <2> QED BY <1>2, <1>8, <2>1, <2>7
<1> QED BY <1>9, <1>10

LEMMA BalancedLevels ==
    ASSUME NEW D \in SUBSET Gid, D # {}, NEW held, Holds(D, held), Cardinality(D) <= 3,
           NEW g \in D, NEW h \in D
    PROVE  Cardinality(Balanced(held)[g]) - Cardinality(Balanced(held)[h]) <= 1
<1>1. PICK n \in Nat : n = NumShards * Cardinality(DOMAIN held) /\ NumShards <= n
  BY RoundsType
<1>2. PICK f : IsLoop(f, held, n) /\ Balanced(held) = f[n].held
  BY <1>1, BalancedIs
<1>3. n \in 0 .. n
  OBVIOUS
<1>4. PICK end : end = f[n]
  OBVIOUS
<1>5. IsState(D, end) /\ LevelAfter(end, n) /\ Balanced(held) = end.held
  BY <1>2, <1>3, <1>4, LoopKeeps, LoopLevels
<1> DEFINE info == end.info
<1>6. /\ Lists(D, end.held, info) /\ Ends(info) /\ Ascending(info)
      /\ Gap(info) \in Int /\ (IsEven(info) \/ Gap(info) + n <= NumShards)
  BY <1>5 DEF IsState, LevelAfter
<1> HIDE DEF info
<1>7. /\ Len(info) \in Nat \ {0}
      /\ \A i \in 1 .. Len(info) : info[i].shardCnt \in Nat
  BY <1>6, LoadType
<1>8. PICK e \in Nat \ {0} : e = Len(info)
  BY <1>7
<1>9. 1 \in 1 .. e /\ e \in 1 .. e
  OBVIOUS
<1>10. PICK a \in Nat : a = info[1].shardCnt
  BY <1>7, <1>8, <1>9
<1>11. PICK z \in Nat : z = info[e].shardCnt
  BY <1>7, <1>8, <1>9
<1>12. z - a <= 1
  <2>1. Gap(info) = z - a
    BY <1>8, <1>10, <1>11 DEF Gap
  <2>2. CASE IsEven(info)
    <3>1. Head(info) = info[1] /\ Last(info) = info[e]
      BY <1>6, <1>8 DEF Last, Lists
    <3>2. z - a \in -1 .. 1
      BY <1>10, <1>11, <2>2, <3>1 DEF IsEven
    <3> QED BY <3>2
  <2>3. CASE ~ IsEven(info)
    <3>1. info[1].shardCnt + 2 <= info[Len(info)].shardCnt
      BY <1>6, <2>3, UnevenEnds
    <3>2. z - a >= 2
      BY <1>8, <1>10, <1>11, <3>1
    <3>3. z - a + n <= NumShards
      BY <1>6, <2>1, <2>3
    <3>4. NumShards \in Nat
      BY CtrlerAssumption
    <3> QED BY <1>1, <3>2, <3>3, <3>4
  <2> QED BY <2>2, <2>3
<1>13. ASSUME NEW i \in 1 .. e PROVE a <= info[i].shardCnt /\ info[i].shardCnt <= z
  <2>1. (i = 1 \/ 1 < i) /\ (i = e \/ i < e)
    OBVIOUS
  <2>2. 1 < i => info[1].shardCnt <= info[i].shardCnt
    BY <1>6, <1>8, <1>9 DEF Ascending
  <2>3. i < e => info[i].shardCnt <= info[e].shardCnt
    BY <1>6, <1>8, <1>9 DEF Ascending
  <2> QED BY <1>10, <1>11, <2>1, <2>2, <2>3
<1>14. PICK i \in 1 .. e : info[i].gid = g /\ info[i].shardCnt = Cardinality(end.held[g])
  BY <1>6, <1>8 DEF Lists
<1>15. PICK j \in 1 .. e : info[j].gid = h /\ info[j].shardCnt = Cardinality(end.held[h])
  BY <1>6, <1>8 DEF Lists
<1>16. PICK x \in Nat : x = info[i].shardCnt
  BY <1>7, <1>8
<1>17. PICK y \in Nat : y = info[j].shardCnt
  BY <1>7, <1>8
<1>18. x <= z /\ a <= y
  BY <1>13, <1>16, <1>17
<1>19. x - y <= 1
  BY <1>12, <1>18
<1> QED BY <1>5, <1>14, <1>15, <1>16, <1>17, <1>19

LEMMA StepJoinsLevel ==
    ASSUME Types, HostsInv, [Next]_vars,
           AppliesOne, Applied.op = "JOIN", IsWhole(Last(configs)),
           Cardinality(Groups(Last(configs'))) <= 3
    PROVE  IsLevel(Last(configs'))
<1> DEFINE config == Last(configs)
           new == Last(configs')
           gids == Applied.gids
           D == Groups(config) \cup gids
           held == Joined(config, gids).gid2shards
<1>1. Applied \in Read /\ configs' = Handled(configs, Applied) /\ IsList(configs)
  BY AppliesOneIs
<1>2. new = Join(config, gids)
  BY <1>1, HandledLast
<1>3. gids \in SUBSET Gid /\ gids # {}
  BY <1>1, ReadArgs
<1>4. config.groupHosts \in SUBSET Gid /\ IsWhole(config)
  BY DEF HostsInv
<1>5. Cardinality(Groups(new)) <= 3
  OBVIOUS
<1> HIDE DEF config, new, gids
<1>6. Holds(D, held)
  BY <1>3, <1>4, JoinedIs
<1>7. Groups(config) = config.groupHosts
  BY <1>4, WholeIs
<1>8. D \in SUBSET Gid /\ D # {}
  BY <1>3, <1>4, <1>7
<1>9. new.gid2shards = Balanced(held)
  BY <1>2, JoinIs
<1> HIDE DEF held, D
<1>10. Holds(D, Balanced(held))
  BY <1>6, <1>8, BalancedKeeps
<1>11. Groups(new) = D
  BY <1>9, <1>10 DEF Groups, Holds
<1>12. \A g, h \in D :
          Cardinality(Balanced(held)[g]) - Cardinality(Balanced(held)[h]) <= 1
  BY <1>5, <1>6, <1>8, <1>11, BalancedLevels
<1>13. IsLevel(new)
  BY <1>9, <1>11, <1>12 DEF IsLevel
<1> QED BY <1>13 DEF new

\* A join leaves loads that differ by one at most, for any number of shards and
\* whatever loads there were before, as long as there are three groups or fewer.
THEOREM JoinsLevelLoads == Spec => JoinsLevel
<1>1. Types /\ HostsInv /\ [Next]_vars
        => [AppliesOne /\ Applied.op = "JOIN" /\ IsWhole(Last(configs))
              /\ IsWhole(Last(configs')) /\ Cardinality(Groups(Last(configs'))) <= 3
              => IsLevel(Last(configs'))]_vars
  BY StepJoinsLevel
<1> QED BY <1>1, TypeCorrect, HostsInvariant, PTL DEF Spec, JoinsLevel
=============================================================================
