---------------------------- MODULE KVRaftProofs ----------------------------
(***************************************************************************)
(* The key-value servers, for any number of servers, clerks and calls:     *)
(* promises are kept, replies match their calls, the term tells whose      *)
(* entry is answered, and the whole implements the abstract store.         *)
(***************************************************************************)
EXTENDS KVRaft, SequenceTheorems, TLAPS

Request == PutAppendParams \cup GetParams
Code == {"SUCCEED", "ERR_NO_KEY", "ERR_WRONG_LEADER"}
Held == Value \cup {NoValue}

Handler ==
    [pc : {"sent", "register", "wait", "answered", "failed"}, clerk : Clerk,
     server : Server, cmd : Request, logId : Nat, term : Nat, connected : BOOLEAN]

Entry == [cmd : Request, by : Nat, term : Nat]
Replies == [call : Nat, code : Code, value : Held, own : BOOLEAN]

ClerkState ==
    [pc : {"idle", "recv"}, cmd : Request \cup {IdleClerk.cmd},
     leaderId : Server \cup {NoServer}, host : Server, scanning : BOOLEAN, call : Nat,
     first : Nat \ {0}, code : Code, value : Held, own : BOOLEAN]

Types ==
    /\ um \in [Server -> [Key -> Held]]
    /\ lastApplyIndex \in [Server -> Nat]
    /\ putWait \in [Server -> SUBSET Nat]
    /\ getWait \in [Server -> SUBSET Nat]
    /\ log \in [Server -> Seq(Entry)]
    /\ agreed \in Seq(Entry)
    /\ maps \in Seq([Key -> Held]) /\ maps # <<>>
    /\ leads \in [Server -> Nat]
    /\ term \in Nat
    /\ handler \in Seq(Handler)
    /\ inbox \in [Clerk -> [Server -> Seq(Replies)]]
    /\ clerk \in [Clerk -> ClerkState]
    /\ \A c \in Clerk : clerk[c].pc = "recv" => clerk[c].cmd \in Request

-----------------------------------------------------------------------------
(***************************************************************************)
(* Data.                                                                   *)
(***************************************************************************)
LEMMA ReceivedType ==
    ASSUME NEW cmd \in Request
    PROVE  Received(cmd) \in Request
BY KVAssumption DEF Request, Received, PutAppendParams, GetParams

LEMMA AppliedType ==
    ASSUME NEW cmd \in Request, NEW map \in [Key -> Held]
    PROVE  Applied(map, cmd) \in [Key -> Held]
BY DEF Request, Applied, PutInto, PutAppendParams, GetParams, Held

(* The servers execute a command as the abstract store does.               *)
LEMMA AppliedIsEffect ==
    ASSUME NEW cmd, NEW map
    PROVE  Applied(map, cmd) = Store!Effect(map, cmd)
BY DEF Applied, PutInto, Store!Effect

LEMMA ResultType ==
    ASSUME NEW entry \in Entry, NEW map \in [Key -> Held], NEW a \in Nat
    PROVE  ResultOf(a, map, entry) \in Replies
<1>1. entry.cmd \in Request
  BY DEF Entry
<1>2. CASE entry.cmd.op # "GET"
  BY <1>2 DEF ResultOf, Reply, Replies, Code, Held, Entry
<1>3. CASE entry.cmd.op = "GET"
  <2>1. map[entry.cmd.key] \in Held
    BY <1>1, <1>3 DEF Request, PutAppendParams, GetParams
  <2> QED BY <1>3, <2>1 DEF ResultOf, Reply, Replies, Code, Held, Entry
<1> QED BY <1>2, <1>3

LEMMA HandlersFrom ==
    ASSUME NEW f, handler \in Seq(Handler), f \in [DOMAIN handler -> Handler]
    PROVE  f \in Seq(Handler) /\ Len(f) = Len(handler) /\ DOMAIN f = DOMAIN handler
OBVIOUS

LEMMA HostType == ASSUME KVAssumption PROVE 0 \in Server /\ NoServer \notin Server
BY DEF KVAssumption, Server, NoServer

LEMMA IdleClerkType == IdleClerk \in ClerkState /\ IdleClerk.pc = "idle"
BY KVAssumption, HostType DEF IdleClerk, ClerkState, Code, Held

-----------------------------------------------------------------------------
(***************************************************************************)
(* Types.                                                                  *)
(***************************************************************************)
LEMMA InitTypes == ASSUME Init PROVE Types
<1>1. <<[k \in Key |-> NoValue]>> \in Seq([Key -> Held])
  BY DEF Held
<1> QED BY <1>1, IdleClerkType DEF Init, Types, Held

(* A call adds a handler.                                                  *)
LEMMA SentTypes ==
    ASSUME NEW c \in Clerk, NEW handlers \in Seq(Handler), NEW me \in ClerkState,
           clerk \in [Clerk -> ClerkState], me.pc = "recv", me.cmd \in Request,
           \A d \in Clerk : clerk[d].pc = "recv" => clerk[d].cmd \in Request,
           Sent(c, handlers, me)
    PROVE  /\ handler' \in Seq(Handler)
           /\ clerk' \in [Clerk -> ClerkState]
           /\ \A d \in Clerk : clerk'[d].pc = "recv" => clerk'[d].cmd \in Request
<1> DEFINE h == [pc |-> "sent", clerk |-> c, server |-> me.host, cmd |-> me.cmd, logId |-> 0,
                 term |-> 0, connected |-> TRUE]
           you == [me EXCEPT !.call = Len(handlers) + 1]
<1>1. h \in Handler
  BY DEF Handler, ClerkState
<1>2. you \in ClerkState
  <2>1. Len(handlers) + 1 \in Nat
    OBVIOUS
  <2> QED BY <2>1 DEF ClerkState
<1>5. you.pc = "recv" /\ you.cmd \in Request
  BY DEF ClerkState
<1>3. handler' = Append(handlers, h) /\ clerk' = [clerk EXCEPT ![c] = you]
  BY DEF Sent
<1>4. handler' \in Seq(Handler)
  BY <1>1, <1>3, AppendProperties
<1> HIDE DEF h, you
<1> QED BY <1>2, <1>3, <1>4, <1>5

LEMMA NextHostType ==
    ASSUME NEW me \in ClerkState, me.pc = "recv", me.cmd \in Request, ~IsLast(me)
    PROVE  NextHost(me) \in ClerkState /\ NextHost(me).pc = "recv" /\ NextHost(me).cmd \in Request
<1>1. CASE me.scanning
  <2>1. me.host + 1 \in Server
    BY <1>1 DEF IsLast
  <2> QED BY <1>1, <2>1 DEF NextHost, ClerkState
<1>2. CASE ~me.scanning
  BY <1>2, HostType, KVAssumption DEF NextHost, ClerkState
<1> QED BY <1>1, <1>2

LEMMA OutcomeType ==
    ASSUME Types, NEW c \in Clerk, NEW reply \in Replies, NEW known \in Server \cup {NoServer}
    PROVE  LET outcome == [IdleClerk EXCEPT !.leaderId = known, !.code = reply.code,
                               !.value = reply.value, !.own = reply.own]
           IN outcome \in ClerkState /\ outcome.pc = "idle"
BY IdleClerkType DEF Replies, ClerkState

(* A call returns: the clerk is told the end, or makes the next call.      *)
LEMMA ReturnedTypes ==
    ASSUME Types, NEW c \in Clerk, NEW handlers \in Seq(Handler), NEW reply \in Replies,
           clerk[c].pc = "recv", Returned(c, handlers, reply)
    PROVE  /\ handler' \in Seq(Handler)
           /\ clerk' \in [Clerk -> ClerkState]
           /\ \A d \in Clerk : clerk'[d].pc = "recv" => clerk'[d].cmd \in Request
<1> DEFINE me == clerk[c]
           known == IF reply.code = "ERR_WRONG_LEADER" THEN NoServer ELSE me.host
           outcome == [IdleClerk EXCEPT !.leaderId = known, !.code = reply.code,
                           !.value = reply.value, !.own = reply.own]
<1>1. me \in ClerkState /\ me.pc = "recv" /\ me.cmd \in Request
  BY DEF Types
<1>2. outcome \in ClerkState /\ outcome.pc = "idle"
  <2>1. known \in Server \cup {NoServer}
    BY <1>1 DEF ClerkState
  <2> HIDE DEF known
  <2> QED BY <2>1, OutcomeType
<1>3. CASE clerk' = [clerk EXCEPT ![c] = outcome] /\ handler' = handlers
  <2> HIDE DEF outcome
  <2> QED BY <1>2, <1>3 DEF Types
<1>4. CASE ~IsLast(me) /\ Sent(c, handlers, NextHost(me))
  <2> HIDE DEF me
  <2>1. NextHost(me) \in ClerkState /\ NextHost(me).pc = "recv" /\ NextHost(me).cmd \in Request
    BY <1>1, <1>4, NextHostType
  <2> QED BY <1>4, <2>1, SentTypes DEF Types
<1> QED BY <1>3, <1>4 DEF Returned

LEMMA DisconnectedType ==
    ASSUME Types, NEW c, NEW s
    PROVE  /\ Disconnected(c, s) \in Seq(Handler)
           /\ DOMAIN Disconnected(c, s) = DOMAIN handler
           /\ Len(Disconnected(c, s)) = Len(handler)
<1>1. \A a \in DOMAIN handler : handler[a] \in Handler
  BY DEF Types
<1>2. \A h \in Handler : [h EXCEPT !.connected = FALSE] \in Handler
  BY DEF Handler
<1>3. Disconnected(c, s) \in [DOMAIN handler -> Handler]
  BY <1>1, <1>2 DEF Disconnected
<1> QED BY <1>3, HandlersFrom DEF Types

LEMMA DeliveredType ==
    ASSUME Types, NEW a \in DOMAIN handler, NEW reply \in Replies
    PROVE  Delivered(a, reply) \in [Clerk -> [Server -> Seq(Replies)]]
<1>1. handler[a].clerk \in Clerk /\ handler[a].server \in Server
  <2>1. handler[a] \in Handler
    BY DEF Types
  <2> QED BY <2>1 DEF Handler
<1>2. Append(inbox[handler[a].clerk][handler[a].server], reply) \in Seq(Replies)
  BY <1>1, AppendProperties DEF Types
<1> QED BY <1>1, <1>2 DEF Delivered, Types

WrongLeader(a) == Reply(a, "ERR_WRONG_LEADER", NoValue, TRUE)

LEMMA WrongLeaderType == ASSUME NEW a \in Nat PROVE WrongLeader(a) \in Replies
BY DEF WrongLeader, Reply, Replies, Code, Held

LEMMA CaughtTypes ==
    ASSUME Types, NEW c \in Clerk, clerk[c].pc = "recv", Caught(c),
           UNCHANGED <<serverVars, raftVars>>
    PROVE  Types'
<1>1. clerk[c].call \in Nat /\ clerk[c].host \in Server
  BY DEF Types, ClerkState
<1>2. Returned(c, Disconnected(c, clerk[c].host), WrongLeader(clerk[c].call))
  BY DEF Caught, WrongLeader
<1>3. inbox' \in [Clerk -> [Server -> Seq(Replies)]]
  BY <1>1 DEF Caught, Types
<1>4. Disconnected(c, clerk[c].host) \in Seq(Handler)
  BY DisconnectedType
<1> QED BY <1>1, <1>2, <1>3, <1>4, WrongLeaderType, ReturnedTypes
        DEF Types, serverVars, raftVars

LEMMA StartTypes ==
    ASSUME Types, NEW a \in DOMAIN handler, Start(a)
    PROVE  Types'
<1> DEFINE s == handler[a].server
           entry == [cmd |-> Received(handler[a].cmd), by |-> a, term |-> leads[s]]
           h == [handler[a] EXCEPT !.pc = "register", !.logId = Len(log[s]) + 1, !.term = leads[s]]
<1>1. handler[a] \in Handler /\ a \in Nat
  BY DEF Types
<1>2. s \in Server /\ handler[a].cmd \in Request
  BY <1>1 DEF Handler
<1>3. leads[s] \in Nat /\ log[s] \in Seq(Entry) /\ Len(log[s]) + 1 \in Nat
  BY <1>2 DEF Types
<1>4. entry \in Entry
  BY <1>1, <1>2, <1>3, ReceivedType DEF Entry
<1>5. h \in Handler
  BY <1>1, <1>3 DEF Handler
<1>6. log' = [log EXCEPT ![s] = Append(@, entry)] /\ handler' = [handler EXCEPT ![a] = h]
  BY DEF Start
<1> HIDE DEF s, entry, h
<1>7. log' \in [Server -> Seq(Entry)]
  BY <1>2, <1>3, <1>4, <1>6, AppendProperties DEF Types
<1>8. handler' \in Seq(Handler)
  BY <1>5, <1>6, ExceptSeq DEF Types
<1> QED BY <1>7, <1>8 DEF Start, Types, serverVars

LEMMA RegisterTypes ==
    ASSUME Types, NEW a \in DOMAIN handler, Register(a)
    PROVE  Types'
<1> DEFINE s == handler[a].server
           pc == IF handler[a].logId \in WaitFor(s, handler[a].cmd) THEN "failed" ELSE "wait"
           h == [handler[a] EXCEPT !.pc = pc]
<1>1. handler[a] \in Handler
  BY DEF Types
<1>2. s \in Server /\ handler[a].logId \in Nat
  BY <1>1 DEF Handler
<1>3. h \in Handler
  BY <1>1 DEF Handler
<1>4. handler' = [handler EXCEPT ![a] = h]
  BY DEF Register
<1> HIDE DEF h
<1>5. handler' \in Seq(Handler)
  BY <1>3, <1>4, ExceptSeq DEF Types
<1>6. putWait' \in [Server -> SUBSET Nat] /\ getWait' \in [Server -> SUBSET Nat]
  BY <1>2 DEF Register, Types
<1> QED BY <1>5, <1>6 DEF Register, Types, raftVars

LEMMA RefuseTypes ==
    ASSUME Types, NEW a \in DOMAIN handler, Refuse(a)
    PROVE  Types'
<1> DEFINE h == [handler[a] EXCEPT !.pc = "answered", !.connected = FALSE]
<1>1. handler[a] \in Handler /\ a \in Nat
  BY DEF Types
<1>2. h \in Handler
  BY <1>1 DEF Handler
<1>3. handler' = [handler EXCEPT ![a] = h] /\ inbox' = Delivered(a, WrongLeader(a))
  BY DEF Refuse, WrongLeader
<1> HIDE DEF h
<1>4. handler' \in Seq(Handler)
  BY <1>2, <1>3, ExceptSeq DEF Types
<1>5. inbox' \in [Clerk -> [Server -> Seq(Replies)]]
  BY <1>1, <1>3, WrongLeaderType, DeliveredType
<1> QED BY <1>4, <1>5 DEF Refuse, Types, serverVars, raftVars

(* The thread that apply answers.                                          *)
Answered(s, index, cmd) == {a \in DOMAIN handler : Awaits(a, s, index, cmd)}
Chosen(s, index, cmd) == CHOOSE b \in Answered(s, index, cmd) : TRUE

LEMMA ApplyTypes ==
    ASSUME Types, NEW s \in Server, Apply(s)
    PROVE  Types'
<1> DEFINE index == lastApplyIndex[s] + 1
           entry == log[s][index]
           answered == Answered(s, index, entry.cmd)
           b == Chosen(s, index, entry.cmd)
<1>1. index \in DOMAIN log[s] /\ index \in Nat /\ entry \in Entry
  <2>1. index \in DOMAIN log[s] \cap DOMAIN agreed
    BY DEF Apply
  <2>2. log[s] \in Seq(Entry) /\ index \in Nat
    BY DEF Types
  <2> HIDE DEF index
  <2> QED BY <2>1, <2>2
<1>2. entry.cmd \in Request /\ um[s] \in [Key -> Held]
  BY <1>1 DEF Entry, Types
<1>3. um' = [um EXCEPT ![s] = Applied(@, entry.cmd)]
  BY DEF Apply
<1>4. um' \in [Server -> [Key -> Held]]
  <2> HIDE DEF entry
  <2> QED BY <1>2, <1>3, AppliedType DEF Types
<1>5. \A a \in DOMAIN handler :
        handler'[a] = IF a \in answered THEN [handler[a] EXCEPT !.pc = "answered", !.connected = FALSE]
                      ELSE handler[a]
  BY DEF Apply, Answered
<1>6. \A h \in Handler : [h EXCEPT !.pc = "answered", !.connected = FALSE] \in Handler
  BY DEF Handler
<1>7. handler' \in [DOMAIN handler -> Handler]
  <2>1. \A a \in DOMAIN handler : handler[a] \in Handler
    BY DEF Types
  <2>2. \A a \in DOMAIN handler : handler'[a] \in Handler
    <3> HIDE DEF answered
    <3> QED BY <1>5, <1>6, <2>1
  <2>3. handler' = [a \in DOMAIN handler |-> handler'[a]]
    BY DEF Apply
  <2> QED BY <2>2, <2>3
<1>8. handler' \in Seq(Handler)
  BY <1>7, HandlersFrom DEF Types
<1>9. inbox' \in [Clerk -> [Server -> Seq(Replies)]]
  <2>1. CASE answered = {}
    BY <2>1 DEF Apply, Answered, Types
  <2>2. CASE answered # {}
    <3>1. b \in DOMAIN handler /\ b \in Nat
      BY <2>2 DEF Chosen, Answered, Types
    <3>2. inbox' = Delivered(b, ResultOf(b, um[s], entry))
      BY <2>2 DEF Apply, Answered, Chosen
    <3> HIDE DEF b, entry
    <3> QED BY <1>1, <1>2, <3>1, <3>2, ResultType, DeliveredType
  <2> QED BY <2>1, <2>2
<1>10. putWait' \in [Server -> SUBSET Nat] /\ getWait' \in [Server -> SUBSET Nat]
  BY DEF Apply, Erased, Types
<1>11. lastApplyIndex' \in [Server -> Nat]
  BY <1>1 DEF Apply, Types
<1> QED BY <1>4, <1>8, <1>9, <1>10, <1>11 DEF Apply, Types, raftVars

LEMMA RestartTypes ==
    ASSUME Types, NEW s \in Server, Restart(s)
    PROVE  Types'
<1>1. \A h \in Handler : [h EXCEPT !.pc = "failed"] \in Handler
  BY DEF Handler
<1>2. handler' \in [DOMAIN handler -> Handler]
  <2>1. \A a \in DOMAIN handler : handler[a] \in Handler
    BY DEF Types
  <2> QED BY <1>1, <2>1 DEF Restart
<1>3. handler' \in Seq(Handler)
  BY <1>2, HandlersFrom DEF Types
<1>4. um' \in [Server -> [Key -> Held]] /\ lastApplyIndex' \in [Server -> Nat]
  BY DEF Restart, Types, Held
<1>5. putWait' \in [Server -> SUBSET Nat] /\ getWait' \in [Server -> SUBSET Nat]
  BY DEF Restart, Types
<1>6. leads' \in [Server -> Nat]
  BY DEF Restart, Types
<1> QED BY <1>3, <1>4, <1>5, <1>6 DEF Restart, Types

LEMMA CommitTypes ==
    ASSUME Types, NEW s \in Server, Commit(s)
    PROVE  Types'
<1> DEFINE entry == log[s][Len(agreed) + 1]
<1>1. entry \in Entry
  BY DEF Commit, Types
<1>2. entry.cmd \in Request
  BY <1>1 DEF Entry
<1>3. Last(maps) \in [Key -> Held]
  BY DEF Last, Types
<1>4. Store!Effect(Last(maps), entry.cmd) \in [Key -> Held]
  <2> HIDE DEF entry
  <2> QED BY <1>2, <1>3, AppliedType, AppliedIsEffect
<1>5. agreed' \in Seq(Entry) /\ maps' \in Seq([Key -> Held]) /\ maps' # <<>>
  <2>1. agreed' = Append(agreed, entry) /\ maps' = Append(maps, Store!Effect(Last(maps), entry.cmd))
    BY DEF Commit
  <2> HIDE DEF entry
  <2> QED BY <1>1, <1>4, <2>1, AppendProperties DEF Types
<1> QED BY <1>5 DEF Commit, Types, serverVars, callVars

LEMMA LeadTypes ==
    ASSUME Types, NEW s \in Server, Lead(s)
    PROVE  Types'
BY DEF Lead, Types, serverVars, callVars

LEMMA FollowTypes ==
    ASSUME Types, NEW s \in Server, NEW leader \in Server, Follow(s, leader)
    PROVE  Types'
BY DEF Follow, Types, serverVars, callVars

LEMMA ClerkCallsTypes ==
    ASSUME Types, NEW c \in Clerk, NEW cmd \in Command, ClerkCalls(c, cmd)
    PROVE  Types'
<1> DEFINE known == clerk[c].leaderId
           me == [IdleClerk EXCEPT !.pc = "recv", !.cmd = cmd, !.leaderId = known,
                                   !.host = IF known = NoServer THEN 0 ELSE known,
                                   !.scanning = (known = NoServer),
                                   !.first = Len(handler) + 1]
<1>1. known \in Server \cup {NoServer} /\ cmd \in Request /\ Len(handler) + 1 \in Nat \ {0}
  BY KVAssumption DEF Types, ClerkState, Request
<1>2. me \in ClerkState /\ me.pc = "recv" /\ me.cmd \in Request
  <2> HIDE DEF known
  <2> QED BY <1>1, IdleClerkType, HostType, KVAssumption DEF ClerkState
<1>3. Sent(c, handler, me)
  BY DEF ClerkCalls
<1> HIDE DEF me
<1> QED BY <1>2, <1>3, SentTypes DEF ClerkCalls, Types, serverVars, raftVars

LEMMA ClerkReceivesTypes ==
    ASSUME Types, NEW c \in Clerk, ClerkReceives(c)
    PROVE  Types'
<1> DEFINE s == clerk[c].host
<1>1. s \in Server
  BY DEF Types, ClerkState
<1>2. inbox[c][s] \in Seq(Replies) /\ inbox[c][s] # <<>>
  BY <1>1 DEF ClerkReceives, Types
<1>3. Head(inbox[c][s]) \in Replies /\ Tail(inbox[c][s]) \in Seq(Replies)
  BY <1>2, HeadTailProperties
<1>4. inbox' \in [Clerk -> [Server -> Seq(Replies)]]
  BY <1>1, <1>3 DEF ClerkReceives, Types
<1>5. Returned(c, handler, Head(inbox[c][s]))
  BY DEF ClerkReceives
<1> QED BY <1>3, <1>4, <1>5, ReturnedTypes DEF ClerkReceives, Types, serverVars, raftVars

LEMMA TypesStep == ASSUME Types, Next PROVE Types'
<1>1. CASE \E c \in Clerk, cmd \in Command : ClerkCalls(c, cmd)
  BY <1>1, ClerkCallsTypes
<1>2. CASE \E c \in Clerk : ClerkReceives(c) \/ ClerkTimesOut(c) \/ ClerkCatches(c)
  BY <1>2, ClerkReceivesTypes, CaughtTypes DEF ClerkTimesOut, ClerkCatches
<1>3. CASE \E a \in DOMAIN handler : Refuse(a) \/ Start(a) \/ Register(a)
  BY <1>3, RefuseTypes, StartTypes, RegisterTypes
<1>4. CASE \E s \in Server : Apply(s) \/ Restart(s) \/ Lead(s) \/ Commit(s)
  BY <1>4, ApplyTypes, RestartTypes, LeadTypes, CommitTypes
<1>5. CASE \E s, leader \in Server : Follow(s, leader)
  BY <1>5, FollowTypes
<1> QED BY <1>1, <1>2, <1>3, <1>4, <1>5 DEF Next

LEMMA TypesStutter == ASSUME Types, UNCHANGED vars PROVE Types'
BY DEF Types, vars, serverVars, raftVars, callVars

(* Types, in every reachable state.                                        *)
THEOREM TypeCorrect == Spec => []Types
<1>1. Init => Types
  BY InitTypes
<1>2. Types /\ [Next]_vars => Types'
  BY TypesStep, TypesStutter
<1> QED BY <1>1, <1>2, PTL DEF Spec

-----------------------------------------------------------------------------
(***************************************************************************)
(* What the steps of clerks and of handlers do to calls.                   *)
(***************************************************************************)
SameCall(a) ==
    /\ handler'[a].pc = handler[a].pc
    /\ handler'[a].clerk = handler[a].clerk
    /\ handler'[a].server = handler[a].server
    /\ handler'[a].cmd = handler[a].cmd
    /\ handler'[a].logId = handler[a].logId
    /\ handler'[a].term = handler[a].term
    /\ handler'[a].connected => handler[a].connected

OldCalls == \A a \in DOMAIN handler : a \in DOMAIN handler' /\ SameCall(a)

OtherClerks(c) == \A d \in Clerk \ {c} : clerk'[d] = clerk[d]

\* A clerk sends a copy of its request.
NewCall(c) ==
    /\ OldCalls
    /\ OtherClerks(c)
    /\ Len(handler') = Len(handler) + 1
    /\ Len(handler) + 1 \in 1 .. MaxCalls
    /\ handler'[Len(handler) + 1] =
          [pc |-> "sent", clerk |-> c, server |-> clerk'[c].host, cmd |-> clerk'[c].cmd,
           logId |-> 0, term |-> 0, connected |-> TRUE]
    /\ clerk'[c].pc = "recv"
    /\ clerk'[c].call = Len(handler) + 1

\* A request ends.
Ends(c, reply) ==
    /\ OldCalls
    /\ OtherClerks(c)
    /\ Len(handler') = Len(handler)
    /\ clerk'[c].pc = "idle"
    /\ clerk'[c].code = reply.code
    /\ clerk'[c].value = reply.value
    /\ clerk'[c].own = reply.own

Resends(c) ==
    /\ NewCall(c)
    /\ clerk'[c].first = clerk[c].first
    /\ clerk'[c].cmd = clerk[c].cmd
    /\ clerk'[c].code = clerk[c].code
    /\ clerk'[c].value = clerk[c].value
    /\ clerk'[c].own = clerk[c].own

\* The handlers as a clerk's step finds them: some connections may have ended.
Same(handlers) ==
    /\ handlers \in Seq(Handler) /\ Len(handlers) = Len(handler)
    /\ \A a \in DOMAIN handler :
          /\ \A f \in {"pc", "clerk", "server", "cmd", "logId", "term"} :
                handlers[a][f] = handler[a][f]
          /\ handlers[a].connected => handler[a].connected

LEMMA SentIsNewCall ==
    ASSUME Types, NEW c \in Clerk, NEW handlers, Same(handlers), NEW me \in ClerkState,
           me.pc = "recv", me.cmd \in Request, Sent(c, handlers, me)
    PROVE  /\ NewCall(c)
           /\ clerk'[c].first = me.first /\ clerk'[c].cmd = me.cmd /\ clerk'[c].code = me.code
           /\ clerk'[c].value = me.value /\ clerk'[c].own = me.own
           /\ \A a \in DOMAIN handler : handler'[a] = handlers[a]
<1> DEFINE n == Len(handler) + 1
           h == [pc |-> "sent", clerk |-> c, server |-> me.host, cmd |-> me.cmd, logId |-> 0,
                 term |-> 0, connected |-> TRUE]
           you == [me EXCEPT !.call = n]
<1>1. handler' = Append(handlers, h) /\ clerk' = [clerk EXCEPT ![c] = you]
      /\ Len(handlers) < MaxCalls
  BY DEF Sent, Same
<1>2. h \in Handler /\ handlers \in Seq(Handler) /\ Len(handlers) = Len(handler)
  BY DEF Handler, ClerkState, Same
<1>3. you \in ClerkState /\ you.pc = "recv" /\ you.call = n /\ you.host = me.host /\ you.cmd = me.cmd
      /\ you.first = me.first /\ you.code = me.code /\ you.value = me.value /\ you.own = me.own
  BY DEF ClerkState
<1>4. clerk'[c] = you /\ OtherClerks(c)
  <2> HIDE DEF you
  <2> QED BY <1>1, <1>3 DEF OtherClerks, Types
<1>5. /\ Len(handler') = n /\ handler'[n] = h /\ n \in 1 .. MaxCalls
      /\ \A a \in DOMAIN handler : a \in DOMAIN handler' /\ handler'[a] = handlers[a]
  <2> HIDE DEF h
  <2>1. DOMAIN handler = 1 .. Len(handler) /\ Len(handler) \in Nat
    BY DEF Types
  <2>2. /\ handler' \in Seq(Handler) /\ Len(handler') = n
        /\ \A a \in 1 .. Len(handlers) : handler'[a] = handlers[a]
        /\ handler'[n] = h
    BY <1>1, <1>2, AppendProperties
  <2>3. DOMAIN handler' = 1 .. n
    BY <2>2
  <2>4. n \in 1 .. MaxCalls
    BY <1>1, <1>2, <2>1, KVAssumption DEF KVAssumption
  <2>5. \A a \in DOMAIN handler : a \in DOMAIN handler' /\ handler'[a] = handlers[a]
    <3> SUFFICES ASSUME NEW a \in 1 .. Len(handler)
                 PROVE  a \in DOMAIN handler' /\ handler'[a] = handlers[a]
      BY <2>1
    <3>1. a \in 1 .. n
      BY <2>1
    <3> QED BY <1>2, <2>2, <2>3, <3>1
  <2> QED BY <2>2, <2>4, <2>5
<1>6. OldCalls
  BY <1>5 DEF OldCalls, SameCall, Same
<1> HIDE DEF you
<1> QED BY <1>3, <1>4, <1>5, <1>6 DEF NewCall

LEMMA SameItself == ASSUME Types PROVE Same(handler)
BY DEF Same, Types

LEMMA SameDisconnected ==
    ASSUME Types, NEW c, NEW s
    PROVE  /\ Same(Disconnected(c, s))
           /\ \A a \in DOMAIN handler : handler[a].clerk = c /\ handler[a].server = s
                                            => ~Disconnected(c, s)[a].connected
<1>1. \A a \in DOMAIN handler : handler[a] \in Handler
  BY DEF Types
<1>2. \A h \in Handler :
        /\ \A f \in {"pc", "clerk", "server", "cmd", "logId", "term"} :
              [h EXCEPT !.connected = FALSE][f] = h[f]
        /\ ~[h EXCEPT !.connected = FALSE].connected
  BY DEF Handler
<1>3. \A a \in DOMAIN handler :
        Disconnected(c, s)[a] = IF handler[a].clerk = c /\ handler[a].server = s
                                THEN [handler[a] EXCEPT !.connected = FALSE] ELSE handler[a]
  BY DEF Disconnected
<1>4. SUFFICES ASSUME NEW a \in DOMAIN handler
               PROVE  /\ \A f \in {"pc", "clerk", "server", "cmd", "logId", "term"} :
                            Disconnected(c, s)[a][f] = handler[a][f]
                      /\ Disconnected(c, s)[a].connected => handler[a].connected
                      /\ handler[a].clerk = c /\ handler[a].server = s
                            => ~Disconnected(c, s)[a].connected
  BY DisconnectedType DEF Same
<1>5. CASE handler[a].clerk = c /\ handler[a].server = s
  <2>1. Disconnected(c, s)[a] = [handler[a] EXCEPT !.connected = FALSE]
    BY <1>3, <1>5
  <2>2. handler[a] \in Handler
    BY <1>1
  <2> QED BY <1>2, <2>1, <2>2, ZenonT(30)
<1>6. CASE ~(handler[a].clerk = c /\ handler[a].server = s)
  BY <1>3, <1>6
<1> QED BY <1>5, <1>6

LEMMA ReturnedEnds ==
    ASSUME Types, NEW c \in Clerk, NEW handlers, Same(handlers), NEW reply \in Replies,
           clerk[c].pc = "recv", Returned(c, handlers, reply)
    PROVE  /\ \/ Ends(c, reply) /\ handler' = handlers
              \/ Resends(c)
           /\ \A a \in DOMAIN handler : handler'[a] = handlers[a]
<1> DEFINE me == clerk[c]
           known == IF reply.code = "ERR_WRONG_LEADER" THEN NoServer ELSE me.host
           outcome == [IdleClerk EXCEPT !.leaderId = known, !.code = reply.code,
                           !.value = reply.value, !.own = reply.own]
<1>1. me \in ClerkState /\ me.pc = "recv" /\ me.cmd \in Request
  BY DEF Types
<1>2. CASE clerk' = [clerk EXCEPT ![c] = outcome] /\ handler' = handlers
  <2>1. outcome.pc = "idle" /\ outcome.code = reply.code /\ outcome.value = reply.value
        /\ outcome.own = reply.own
    BY IdleClerkType DEF ClerkState
  <2>2. clerk'[c] = outcome /\ OtherClerks(c)
    <3> HIDE DEF outcome
    <3> QED BY <1>2 DEF Types, OtherClerks
  <2>3. OldCalls /\ Len(handler') = Len(handler)
    BY <1>2 DEF OldCalls, SameCall, Same, Types
  <2> HIDE DEF outcome
  <2> QED BY <1>2, <2>1, <2>2, <2>3 DEF Ends
<1>3. CASE ~IsLast(me) /\ Sent(c, handlers, NextHost(me))
  <2>1. NextHost(me).first = me.first /\ NextHost(me).cmd = me.cmd /\ NextHost(me).code = me.code
        /\ NextHost(me).value = me.value /\ NextHost(me).own = me.own
    BY <1>1 DEF NextHost, ClerkState
  <2> HIDE DEF me
  <2>2. NextHost(me) \in ClerkState /\ NextHost(me).pc = "recv" /\ NextHost(me).cmd \in Request
    BY <1>1, <1>3, NextHostType
  <2>3. /\ NewCall(c)
        /\ clerk'[c].first = NextHost(me).first /\ clerk'[c].cmd = NextHost(me).cmd
        /\ clerk'[c].code = NextHost(me).code
        /\ clerk'[c].value = NextHost(me).value /\ clerk'[c].own = NextHost(me).own
        /\ \A a \in DOMAIN handler : handler'[a] = handlers[a]
    BY <1>3, <2>2, SentIsNewCall
  <2> QED BY <2>1, <2>3 DEF Resends, me
<1> QED BY <1>2, <1>3 DEF Returned

LEMMA ClerkCallsIsNewCall ==
    ASSUME Types, NEW c \in Clerk, NEW cmd \in Command, ClerkCalls(c, cmd)
    PROVE  /\ NewCall(c)
           /\ clerk[c].pc = "idle"
           /\ clerk'[c].cmd = cmd
           /\ clerk'[c].first = Len(handler) + 1 /\ clerk'[c].code = "ERR_WRONG_LEADER"
           /\ clerk'[c].value = NoValue /\ clerk'[c].own = TRUE
           /\ \A a \in DOMAIN handler : handler'[a] = handler[a]
<1> DEFINE known == clerk[c].leaderId
           me == [IdleClerk EXCEPT !.pc = "recv", !.cmd = cmd, !.leaderId = known,
                                   !.host = IF known = NoServer THEN 0 ELSE known,
                                   !.scanning = (known = NoServer),
                                   !.first = Len(handler) + 1]
<1>1. known \in Server \cup {NoServer} /\ cmd \in Request /\ Len(handler) + 1 \in Nat \ {0}
  BY KVAssumption DEF Types, ClerkState, Request
<1>2. me \in ClerkState /\ me.pc = "recv" /\ me.cmd = cmd
  <2> HIDE DEF known
  <2> QED BY <1>1, IdleClerkType, HostType, KVAssumption DEF ClerkState
<1>3. me.first = Len(handler) + 1 /\ me.code = "ERR_WRONG_LEADER" /\ me.value = NoValue
      /\ me.own = TRUE
  BY DEF IdleClerk
<1>4. Sent(c, handler, me) /\ clerk[c].pc = "idle"
  BY DEF ClerkCalls
<1>5. clerk'[c].cmd = cmd
  <2>1. clerk' = [clerk EXCEPT ![c] = [me EXCEPT !.call = Len(handler) + 1]]
    BY <1>4 DEF Sent
  <2>2. [me EXCEPT !.call = Len(handler) + 1].cmd = cmd
    <3> HIDE DEF me
    <3> QED BY <1>1, <1>2 DEF ClerkState
  <2> HIDE DEF me
  <2> QED BY <2>1, <2>2 DEF Types
<1> HIDE DEF me
<1> QED BY <1>1, <1>2, <1>3, <1>4, <1>5, SameItself, SentIsNewCall

SameCalls ==
    /\ DOMAIN handler' = DOMAIN handler
    /\ Len(handler') = Len(handler)
    /\ clerk' = clerk
    /\ \A b \in DOMAIN handler :
          /\ handler'[b].clerk = handler[b].clerk
          /\ handler'[b].server = handler[b].server
          /\ handler'[b].cmd = handler[b].cmd
          /\ handler'[b].connected => handler[b].connected

OthersStay(a) == \A b \in DOMAIN handler \ {a} : handler'[b] = handler[b]

(* The connection of a call is not touched by what sets other fields.      *)
LEMMA ConnectionKept ==
    ASSUME NEW h \in Handler, NEW x, NEW y, NEW z
    PROVE  /\ [h EXCEPT !.pc = x].connected = h.connected
           /\ [h EXCEPT !.pc = x, !.logId = y, !.term = z].connected = h.connected
BY Zenon DEF Handler

LEMMA RefuseMoves ==
    ASSUME Types, NEW a \in DOMAIN handler, Refuse(a)
    PROVE  /\ SameCalls /\ OthersStay(a)
           /\ handler'[a].pc = "answered" /\ ~handler'[a].connected
           /\ handler'[a].logId = handler[a].logId /\ handler'[a].term = handler[a].term
<1>1. \A b \in DOMAIN handler : handler[b] \in Handler
  BY DEF Types
<1>2. handler' = [handler EXCEPT ![a] = [@ EXCEPT !.pc = "answered", !.connected = FALSE]]
      /\ clerk' = clerk
  BY DEF Refuse
<1>3. handler'[a] = [handler[a] EXCEPT !.pc = "answered", !.connected = FALSE]
      /\ DOMAIN handler' = DOMAIN handler /\ OthersStay(a)
  BY <1>2 DEF OthersStay
<1>4. handler' \in Seq(Handler) /\ Len(handler') = Len(handler)
  BY <1>1, <1>3, RefuseTypes DEF Types
<1> QED BY <1>1, <1>2, <1>3, <1>4 DEF SameCalls, Handler, OthersStay

LEMMA StartMoves ==
    ASSUME Types, NEW a \in DOMAIN handler, Start(a)
    PROVE  /\ SameCalls /\ OthersStay(a)
           /\ handler'[a].pc = "register"
           /\ handler'[a].logId = Len(log[handler[a].server]) + 1
           /\ handler'[a].term = leads[handler[a].server]
<1>1. \A b \in DOMAIN handler : handler[b] \in Handler
  BY DEF Types
<1>2. handler'[a] = [handler[a] EXCEPT !.pc = "register",
                         !.logId = Len(log[handler[a].server]) + 1, !.term = leads[handler[a].server]]
      /\ DOMAIN handler' = DOMAIN handler /\ OthersStay(a) /\ clerk' = clerk
  BY DEF Start, OthersStay
<1>3. handler' \in Seq(Handler) /\ Len(handler') = Len(handler)
  BY <1>1, <1>2, StartTypes DEF Types
<1>4. handler'[a].connected = handler[a].connected
  BY <1>1, <1>2, ConnectionKept
<1>5. handler'[a].clerk = handler[a].clerk /\ handler'[a].server = handler[a].server
      /\ handler'[a].cmd = handler[a].cmd /\ handler'[a].pc = "register"
      /\ handler'[a].logId = Len(log[handler[a].server]) + 1
      /\ handler'[a].term = leads[handler[a].server]
  BY <1>1, <1>2 DEF Handler
<1> QED BY <1>2, <1>3, <1>4, <1>5 DEF SameCalls, OthersStay

LEMMA RegisterMoves ==
    ASSUME Types, NEW a \in DOMAIN handler, Register(a)
    PROVE  /\ SameCalls /\ OthersStay(a)
           /\ handler'[a].pc \in {"wait", "failed"}
           /\ handler'[a].pc = "wait" <=> handler[a].logId \notin WaitFor(handler[a].server, handler[a].cmd)
           /\ handler'[a].logId = handler[a].logId /\ handler'[a].term = handler[a].term
<1> DEFINE pc == IF handler[a].logId \in WaitFor(handler[a].server, handler[a].cmd)
                 THEN "failed" ELSE "wait"
<1>1. \A b \in DOMAIN handler : handler[b] \in Handler
  BY DEF Types
<1>2. handler'[a] = [handler[a] EXCEPT !.pc = pc]
      /\ DOMAIN handler' = DOMAIN handler /\ OthersStay(a) /\ clerk' = clerk
  BY DEF Register, OthersStay
<1>3. handler' \in Seq(Handler) /\ Len(handler') = Len(handler)
  BY <1>1, <1>2, RegisterTypes DEF Types
<1>4. pc \in {"wait", "failed"}
      /\ (pc = "wait" <=> handler[a].logId \notin WaitFor(handler[a].server, handler[a].cmd))
  OBVIOUS
<1> HIDE DEF pc
<1>5. handler'[a].connected = handler[a].connected
  BY <1>1, <1>2, ConnectionKept
<1>6. handler'[a].clerk = handler[a].clerk /\ handler'[a].server = handler[a].server
      /\ handler'[a].cmd = handler[a].cmd /\ handler'[a].pc = pc
      /\ handler'[a].logId = handler[a].logId /\ handler'[a].term = handler[a].term
  BY <1>1, <1>2 DEF Handler
<1> QED BY <1>2, <1>3, <1>4, <1>5, <1>6 DEF SameCalls, OthersStay

LEMMA ApplyMoves ==
    ASSUME Types, NEW s \in Server, Apply(s)
    PROVE  /\ SameCalls
           /\ \A b \in DOMAIN handler :
                /\ handler'[b].logId = handler[b].logId /\ handler'[b].term = handler[b].term
                /\ IF b \in Answered(s, lastApplyIndex[s] + 1, log[s][lastApplyIndex[s] + 1].cmd)
                   THEN handler'[b].pc = "answered" /\ ~handler'[b].connected
                   ELSE handler'[b] = handler[b]
<1> DEFINE answered == Answered(s, lastApplyIndex[s] + 1, log[s][lastApplyIndex[s] + 1].cmd)
<1>1. \A b \in DOMAIN handler : handler[b] \in Handler
  BY DEF Types
<1>2. /\ DOMAIN handler' = DOMAIN handler /\ clerk' = clerk
      /\ \A b \in DOMAIN handler :
           handler'[b] = IF b \in answered
                         THEN [handler[b] EXCEPT !.pc = "answered", !.connected = FALSE]
                         ELSE handler[b]
  BY DEF Apply, Answered
<1>3. handler' \in Seq(Handler) /\ Len(handler') = Len(handler)
  <2>1. handler' \in Seq(Handler) /\ handler \in Seq(Handler)
    BY ApplyTypes DEF Types
  <2>2. DOMAIN handler' = DOMAIN handler
    BY <1>2
  <2> QED BY <2>1, <2>2
<1> HIDE DEF answered
<1>4. \A b \in DOMAIN handler :
        /\ handler'[b].clerk = handler[b].clerk /\ handler'[b].server = handler[b].server
        /\ handler'[b].cmd = handler[b].cmd
        /\ handler'[b].logId = handler[b].logId /\ handler'[b].term = handler[b].term
        /\ IF b \in answered THEN handler'[b].pc = "answered" ELSE handler'[b] = handler[b]
  BY <1>1, <1>2 DEF Handler
<1>5. \A h \in Handler : ~[h EXCEPT !.pc = "answered", !.connected = FALSE].connected
  BY Zenon DEF Handler
<1>6. \A b \in DOMAIN handler :
        /\ b \in answered => ~handler'[b].connected
        /\ b \notin answered => handler'[b] = handler[b]
  BY <1>1, <1>2, <1>5
<1> QED BY <1>2, <1>3, <1>4, <1>6 DEF SameCalls, answered

LEMMA RestartMoves ==
    ASSUME Types, NEW s \in Server, Restart(s)
    PROVE  /\ SameCalls
           /\ \A b \in DOMAIN handler :
                /\ handler'[b].logId = handler[b].logId /\ handler'[b].term = handler[b].term
                /\ IF handler[b].server = s /\ handler[b].pc \in {"sent", "register", "wait"}
                   THEN handler'[b].pc = "failed" ELSE handler'[b] = handler[b]
<1>1. \A b \in DOMAIN handler : handler[b] \in Handler
  BY DEF Types
<1>2. /\ DOMAIN handler' = DOMAIN handler /\ clerk' = clerk
      /\ \A b \in DOMAIN handler :
           handler'[b] = IF handler[b].server = s /\ handler[b].pc \in {"sent", "register", "wait"}
                         THEN [handler[b] EXCEPT !.pc = "failed"] ELSE handler[b]
  BY DEF Restart
<1>3. handler' \in Seq(Handler) /\ Len(handler') = Len(handler)
  BY <1>1, <1>2, RestartTypes DEF Types
<1>4. \A b \in DOMAIN handler : handler'[b].connected = handler[b].connected
  <2> TAKE b \in DOMAIN handler
  <2>1. [handler[b] EXCEPT !.pc = "failed"].connected = handler[b].connected
    BY <1>1, ConnectionKept
  <2> QED BY <1>2, <2>1, Zenon
<1>5. \A b \in DOMAIN handler :
        /\ handler'[b].clerk = handler[b].clerk /\ handler'[b].server = handler[b].server
        /\ handler'[b].cmd = handler[b].cmd
        /\ handler'[b].logId = handler[b].logId /\ handler'[b].term = handler[b].term
        /\ IF handler[b].server = s /\ handler[b].pc \in {"sent", "register", "wait"}
           THEN handler'[b].pc = "failed" ELSE handler'[b] = handler[b]
  BY <1>1, <1>2 DEF Handler
<1> QED BY <1>2, <1>3, <1>4, <1>5 DEF SameCalls

LEMMA ClerkCallsDomain ==
    ASSUME Types, Types', NEW c \in Clerk, NewCall(c)
    PROVE  /\ DOMAIN handler' = DOMAIN handler \cup {Len(handler) + 1}
           /\ Len(handler) + 1 \notin DOMAIN handler
BY DEF Types, NewCall

LEMMA EndsDomain ==
    ASSUME Types, Types', NEW c \in Clerk, NEW reply, Ends(c, reply)
    PROVE  DOMAIN handler' = DOMAIN handler
BY DEF Types, Ends

(* What every step of a clerk is.                                          *)
ClerkStep(c) ==
    /\ \/ NewCall(c)
       \/ \E reply \in Replies : Ends(c, reply)
    /\ UNCHANGED <<serverVars, raftVars>>

LEMMA ClerkCallsStep ==
    ASSUME Types, NEW c \in Clerk, NEW cmd \in Command, ClerkCalls(c, cmd)
    PROVE  ClerkStep(c)
BY ClerkCallsIsNewCall DEF ClerkStep, ClerkCalls

LEMMA ClerkReceivesEnds ==
    ASSUME Types, NEW c \in Clerk, ClerkReceives(c)
    PROVE  LET reply == Head(inbox[c][clerk[c].host])
           IN /\ reply \in Replies
              /\ (Ends(c, reply) /\ handler' = handler) \/ Resends(c)
              /\ \A a \in DOMAIN handler : handler'[a] = handler[a]
<1> DEFINE s == clerk[c].host
<1>1. s \in Server /\ clerk[c].pc = "recv"
  BY DEF Types, ClerkState, ClerkReceives
<1>2. Head(inbox[c][s]) \in Replies
  <2>1. inbox[c][s] \in Seq(Replies) /\ inbox[c][s] # <<>>
    BY <1>1 DEF ClerkReceives, Types
  <2> QED BY <2>1, HeadTailProperties
<1>3. Returned(c, handler, Head(inbox[c][s]))
  BY DEF ClerkReceives
<1> QED BY <1>1, <1>2, <1>3, SameItself, ReturnedEnds

LEMMA CaughtEnds ==
    ASSUME Types, NEW c \in Clerk, clerk[c].pc = "recv", Caught(c)
    PROVE  /\ WrongLeader(clerk[c].call) \in Replies
           /\ Ends(c, WrongLeader(clerk[c].call)) \/ Resends(c)
           /\ Len(handler') = Len(handler) => Ends(c, WrongLeader(clerk[c].call))
           /\ \A a \in DOMAIN handler :
                 handler[a].clerk = c /\ handler[a].server = clerk[c].host => ~handler'[a].connected
<1> DEFINE s == clerk[c].host
           reply == WrongLeader(clerk[c].call)
<1>1. clerk[c].call \in Nat
  BY DEF Types, ClerkState
<1>2. reply \in Replies
  BY <1>1, WrongLeaderType
<1>3. Returned(c, Disconnected(c, s), reply)
  BY DEF Caught, WrongLeader
<1> HIDE DEF reply
<1>4. /\ Ends(c, reply) \/ Resends(c)
      /\ \A a \in DOMAIN handler : handler'[a] = Disconnected(c, s)[a]
  BY <1>2, <1>3, SameDisconnected, ReturnedEnds
<1>5. Len(handler') = Len(handler) => ~Resends(c)
  BY DEF Resends, NewCall, Types
<1> QED BY <1>2, <1>4, <1>5, SameDisconnected DEF reply

LEMMA AnyClerkStep ==
    ASSUME Types, NEW c \in Clerk, ClerkReceives(c) \/ ClerkTimesOut(c) \/ ClerkCatches(c)
    PROVE  ClerkStep(c)
<1>1. CASE ClerkReceives(c)
  BY <1>1, ClerkReceivesEnds DEF ClerkStep, ClerkReceives, Resends
<1>2. CASE ClerkTimesOut(c) \/ ClerkCatches(c)
  BY <1>2, CaughtEnds DEF ClerkStep, ClerkTimesOut, ClerkCatches, Resends
<1> QED BY <1>1, <1>2

-----------------------------------------------------------------------------
(***************************************************************************)
(* Promises.                                                               *)
(***************************************************************************)
LEMMA WaitersKept ==
    ASSUME Types, PromiseIsKept, UNCHANGED serverVars,
           \A a \in DOMAIN handler' : handler'[a].pc = "wait" =>
                /\ a \in DOMAIN handler /\ handler[a].pc = "wait"
                /\ handler'[a].server = handler[a].server
                /\ handler'[a].cmd = handler[a].cmd
                /\ handler'[a].logId = handler[a].logId
    PROVE  PromiseIsKept'
BY DEF PromiseIsKept, serverVars, WaitFor

LEMMA ClerkStepWaiters ==
    ASSUME Types, Types', PromiseIsKept, NEW c \in Clerk, ClerkStep(c)
    PROVE  PromiseIsKept'
<1>1. CASE NewCall(c)
  <2>1. handler'[Len(handler) + 1].pc # "wait"
    BY <1>1 DEF NewCall
  <2> QED BY <1>1, <2>1, ClerkCallsDomain, WaitersKept
          DEF ClerkStep, NewCall, OldCalls, SameCall, serverVars
<1>2. ASSUME NEW reply \in Replies, Ends(c, reply) PROVE PromiseIsKept'
  BY <1>2, EndsDomain, WaitersKept DEF ClerkStep, Ends, OldCalls, SameCall, serverVars
<1> QED BY <1>1, <1>2 DEF ClerkStep

LEMMA RegisterWaiters ==
    ASSUME Types, Types', PromiseIsKept, NEW a \in DOMAIN handler, Register(a)
    PROVE  PromiseIsKept'
<1> SUFFICES ASSUME NEW b \in DOMAIN handler', handler'[b].pc = "wait",
                    handler'[b].logId > lastApplyIndex'[handler'[b].server]
             PROVE  handler'[b].logId \in WaitFor(handler[b].server, handler[b].cmd)'
  BY DEF PromiseIsKept
<1>1. b \in DOMAIN handler
  BY RegisterMoves DEF SameCalls
<1>2. lastApplyIndex' = lastApplyIndex
  BY DEF Register
<1>3. handler'[b].server \in Server
  <2>1. handler'[b] \in Handler
    BY DEF Types
  <2> QED BY <2>1 DEF Handler
<1>4. CASE b = a
  <2>1. handler[a].server \in Server
    BY <1>1, <1>3, <1>4, RegisterMoves DEF SameCalls
  <2>2. handler'[a].server = handler[a].server /\ handler'[a].cmd = handler[a].cmd
        /\ handler'[a].logId = handler[a].logId
    BY RegisterMoves DEF SameCalls
  <2>3. IF IsGet(handler[a].cmd) THEN handler[a].logId \in getWait'[handler[a].server]
                                 ELSE handler[a].logId \in putWait'[handler[a].server]
    BY <2>1 DEF Register, Types
  <2> QED BY <1>4, <2>2, <2>3 DEF WaitFor, IsGet
<1>5. CASE b # a
  <2>1. handler'[b] = handler[b]
    BY <1>1, <1>5, RegisterMoves DEF OthersStay
  <2>2. handler[b].logId \in WaitFor(handler[b].server, handler[b].cmd)
    BY <1>1, <1>2, <2>1 DEF PromiseIsKept
  <2> QED BY <1>3, <2>1, <2>2 DEF Register, WaitFor, Types
<1> QED BY <1>4, <1>5

LEMMA ApplyWaiters ==
    ASSUME Types, Types', PromiseIsKept, NEW s \in Server, Apply(s)
    PROVE  PromiseIsKept'
<1> SUFFICES ASSUME NEW b \in DOMAIN handler', handler'[b].pc = "wait",
                    handler'[b].logId > lastApplyIndex'[handler'[b].server]
             PROVE  handler'[b].logId \in WaitFor(handler[b].server, handler[b].cmd)'
  BY DEF PromiseIsKept
<1>1. b \in DOMAIN handler /\ handler'[b] = handler[b]
  BY ApplyMoves DEF SameCalls
<1>2. handler[b].server \in Server /\ handler[b].logId \in Nat
  <2>1. handler[b] \in Handler
    BY <1>1 DEF Types
  <2> QED BY <2>1 DEF Handler
<1>3. lastApplyIndex' = [lastApplyIndex EXCEPT ![s] = lastApplyIndex[s] + 1]
  BY DEF Apply
<1>4. handler[b].logId > lastApplyIndex[handler[b].server]
  <2>1. handler[b].logId > lastApplyIndex'[handler[b].server]
    BY <1>1
  <2>2. lastApplyIndex'[handler[b].server] \in Nat /\ lastApplyIndex[handler[b].server] \in Nat
        /\ lastApplyIndex'[handler[b].server] >= lastApplyIndex[handler[b].server]
    <3>1. lastApplyIndex \in [Server -> Nat]
      BY DEF Types
    <3> QED BY <1>2, <1>3, <3>1
  <2> QED BY <1>2, <2>1, <2>2
<1>5. handler[b].logId \in WaitFor(handler[b].server, handler[b].cmd)
  BY <1>1, <1>4 DEF PromiseIsKept
<1>6. handler[b].server = s => handler[b].logId # lastApplyIndex[s] + 1
  BY <1>1, <1>2, <1>3 DEF Types
<1>7. \A t \in Server, i \in Nat : (t = s => i # lastApplyIndex[s] + 1) =>
        /\ i \in putWait[t] => i \in putWait'[t]
        /\ i \in getWait[t] => i \in getWait'[t]
  BY DEF Apply, Erased, Types
<1>8. \A t \in Server : t # s => putWait'[t] = putWait[t] /\ getWait'[t] = getWait[t]
  BY DEF Apply, Erased, Types
<1> QED BY <1>1, <1>2, <1>5, <1>6, <1>7, <1>8 DEF WaitFor

LEMMA RestartWaiters ==
    ASSUME Types, Types', PromiseIsKept, NEW s \in Server, Restart(s)
    PROVE  PromiseIsKept'
<1> SUFFICES ASSUME NEW b \in DOMAIN handler', handler'[b].pc = "wait",
                    handler'[b].logId > lastApplyIndex'[handler'[b].server]
             PROVE  handler'[b].logId \in WaitFor(handler[b].server, handler[b].cmd)'
  BY DEF PromiseIsKept
<1>1. b \in DOMAIN handler /\ handler'[b] = handler[b] /\ handler[b].server # s
  BY RestartMoves DEF SameCalls
<1>2. handler[b].server \in Server
  <2>1. handler[b] \in Handler
    BY <1>1 DEF Types
  <2> QED BY <2>1 DEF Handler
<1> QED BY <1>1, <1>2 DEF Restart, PromiseIsKept, WaitFor, Types

LEMMA PromisesStep ==
    ASSUME Types, Types', PromiseIsKept, Next
    PROVE  PromiseIsKept'
<1>1. CASE \E c \in Clerk, cmd \in Command : ClerkCalls(c, cmd)
  BY <1>1, ClerkCallsStep, ClerkStepWaiters
<1>2. CASE \E c \in Clerk : ClerkReceives(c) \/ ClerkTimesOut(c) \/ ClerkCatches(c)
  BY <1>2, AnyClerkStep, ClerkStepWaiters
<1>3. ASSUME NEW a \in DOMAIN handler, Refuse(a) \/ Start(a) PROVE PromiseIsKept'
  <2>1. UNCHANGED serverVars
    BY <1>3 DEF Refuse, Start
  <2> QED BY <1>3, <2>1, RefuseMoves, StartMoves, WaitersKept DEF SameCalls, OthersStay
<1>4. ASSUME NEW a \in DOMAIN handler, Register(a) PROVE PromiseIsKept'
  BY <1>4, RegisterWaiters
<1>5. ASSUME NEW s \in Server, Apply(s) \/ Restart(s) PROVE PromiseIsKept'
  BY <1>5, ApplyWaiters, RestartWaiters
<1>6. ASSUME NEW s \in Server, Lead(s) \/ Commit(s) \/ \E leader \in Server : Follow(s, leader)
      PROVE PromiseIsKept'
  <2>1. UNCHANGED <<serverVars, handler>>
    BY <1>6 DEF Lead, Commit, Follow, callVars
  <2> QED BY <2>1, WaitersKept
<1> QED BY <1>1, <1>2, <1>3, <1>4, <1>5, <1>6 DEF Next

(* PromiseIsKept: apply (KVRaft.cpp:85) finds the promise of every thread  *)
(* that waits for an index it has still to reach.                          *)
THEOREM PromisesAreKept == Spec => []PromiseIsKept
<1>1. Init => PromiseIsKept
  BY DEF Init, PromiseIsKept
<1>2. Types /\ Types' /\ PromiseIsKept /\ [Next]_vars => PromiseIsKept'
  <2>1. ASSUME PromiseIsKept, UNCHANGED vars PROVE PromiseIsKept'
    BY <2>1 DEF PromiseIsKept, WaitFor, vars, serverVars, callVars
  <2> QED BY <2>1, PromisesStep
<1> QED BY <1>1, <1>2, TypeCorrect, PTL DEF Spec

-----------------------------------------------------------------------------
(***************************************************************************)
(* Terms and owners.  A term has one leader, whose log has every entry of  *)
(* that term and every index it has given to a call; so an entry of the    *)
(* term of a call, at the index of that call, is the call's own.           *)
(***************************************************************************)
OldTerms ==
    /\ \A s \in Server : leads[s] <= term
    /\ \A s \in Server : \A i \in DOMAIN log[s] : log[s][i].term <= term
    /\ \A a \in DOMAIN handler : handler[a].term <= term

OneLeader ==
    \A s, l \in Server : leads[l] # 0 /\ leads[s] = leads[l] => s = l

LeaderHasEntries ==
    \A l, s \in Server : \A i \in DOMAIN log[s] :
        leads[l] # 0 /\ log[s][i].term = leads[l] => i <= Len(log[l])

LeaderHasCalls ==
    \A l \in Server : \A a \in DOMAIN handler :
        leads[l] # 0 /\ handler[a].term = leads[l] => handler[a].logId <= Len(log[l])

OwnEntries ==
    \A s \in Server : \A a \in DOMAIN handler :
        LET i == handler[a].logId
        IN i \in DOMAIN log[s] /\ log[s][i].term = handler[a].term => log[s][i].by = a

TermInv == OldTerms /\ OneLeader /\ LeaderHasEntries /\ LeaderHasCalls /\ OwnEntries

\* A step that gives no index to a call, and no term to a server.
SameTerms ==
    /\ UNCHANGED <<log, term>>
    /\ \A s \in Server : leads'[s] \in {leads[s], 0}
    /\ \A a \in DOMAIN handler' :
          \/ a \in DOMAIN handler /\ handler'[a].logId = handler[a].logId
             /\ handler'[a].term = handler[a].term
          \/ handler'[a].logId = 0 /\ handler'[a].term = 0

LEMMA SameTermsStep ==
    ASSUME Types, Types', TermInv, SameTerms
    PROVE  TermInv'
<1>1. OldTerms'
  <2>0. term \in Nat /\ term' = term
    BY DEF Types, SameTerms
  <2>1. \A s \in Server : leads'[s] <= term'
    <3> TAKE s \in Server
    <3>1. leads[s] <= term /\ leads'[s] \in {leads[s], 0}
      BY DEF TermInv, SameTerms, OldTerms
    <3> QED BY <2>0, <3>1
  <2>2. \A s \in Server : \A i \in DOMAIN log'[s] : log'[s][i].term <= term'
    BY DEF TermInv, SameTerms, OldTerms
  <2>3. \A a \in DOMAIN handler' : handler'[a].term <= term'
    <3> TAKE a \in DOMAIN handler'
    <3>1. CASE handler'[a].term = 0
      BY <2>0, <3>1
    <3>2. CASE a \in DOMAIN handler /\ handler'[a].term = handler[a].term
      BY <2>0, <3>2 DEF TermInv, OldTerms
    <3> QED BY <3>1, <3>2 DEF SameTerms
  <2> QED BY <2>1, <2>2, <2>3 DEF OldTerms
<1>2. OneLeader'
  BY DEF TermInv, SameTerms, OneLeader, Types
<1>3. LeaderHasEntries'
  BY DEF TermInv, SameTerms, LeaderHasEntries, Types
<1>4. LeaderHasCalls'
  BY DEF TermInv, SameTerms, LeaderHasCalls, Types
<1>5. OwnEntries'
  <2>1. \A s \in Server : 0 \notin DOMAIN log[s]
    BY DEF Types
  <2> QED BY <2>1 DEF TermInv, SameTerms, OwnEntries
<1> QED BY <1>1, <1>2, <1>3, <1>4, <1>5 DEF TermInv

LEMMA StartTerms ==
    ASSUME Types, Types', TermInv, NEW a \in DOMAIN handler, Start(a)
    PROVE  TermInv'
<1> DEFINE s == handler[a].server
           n == Len(log[s]) + 1
           entry == [cmd |-> Received(handler[a].cmd), by |-> a, term |-> leads[s]]
<1>1. s \in Server /\ handler[a].cmd \in Request
  <2>1. handler[a] \in Handler
    BY DEF Types
  <2> QED BY <2>1 DEF Handler
<1>2. leads[s] # 0 /\ leads' = leads /\ term' = term /\ log' = [log EXCEPT ![s] = Append(@, entry)]
  BY DEF Start
<1>3. entry \in Entry
  <2>1. Received(handler[a].cmd) \in Request
    BY <1>1, ReceivedType
  <2>2. a \in Nat /\ leads[s] \in Nat
    BY <1>1 DEF Types
  <2> QED BY <2>1, <2>2 DEF Entry
<1>4. /\ log[s] \in Seq(Entry) /\ Len(log'[s]) = n /\ n \in Nat /\ log'[s][n] = entry
      /\ \A i \in 1 .. Len(log[s]) : log'[s][i] = log[s][i]
      /\ DOMAIN log'[s] = 1 .. n /\ DOMAIN log[s] = 1 .. Len(log[s])
      /\ \A t \in Server \ {s} : log'[t] = log[t]
  <2> HIDE DEF entry
  <2>1. log'[s] = Append(log[s], entry) /\ \A t \in Server \ {s} : log'[t] = log[t]
    BY <1>1, <1>2 DEF Types
  <2>2. log[s] \in Seq(Entry)
    BY <1>1 DEF Types
  <2> QED BY <1>3, <2>1, <2>2, AppendProperties
<1>5. /\ DOMAIN handler' = DOMAIN handler
      /\ \A b \in DOMAIN handler \ {a} : handler'[b] = handler[b]
      /\ handler'[a].logId = n /\ handler'[a].term = leads[s]
  BY StartMoves DEF SameCalls, OthersStay
<1>6. entry.by = a /\ entry.term = leads[s]
  OBVIOUS
<1> HIDE DEF s, n, entry
<1>7. OldTerms'
  <2>1. leads[s] <= term
    BY <1>1 DEF TermInv, OldTerms
  <2>2. ASSUME NEW t \in Server, NEW i \in DOMAIN log'[t] PROVE log'[t][i].term <= term
    <3>1. CASE t # s
      BY <1>4, <2>2, <3>1 DEF TermInv, OldTerms
    <3>2. CASE t = s /\ i = n
      BY <1>4, <1>6, <2>1, <3>2
    <3>3. CASE t = s /\ i # n
      <4>1. i \in 1 .. Len(log[s])
        BY <1>4, <2>2, <3>3 DEF n
      <4> QED BY <1>1, <1>4, <3>3, <4>1 DEF TermInv, OldTerms
    <3> QED BY <3>1, <3>2, <3>3
  <2> QED BY <1>2, <1>5, <2>1, <2>2 DEF TermInv, OldTerms
<1>8. OneLeader'
  BY <1>2 DEF TermInv, OneLeader
<1>9. \A l \in Server : Len(log'[l]) >= Len(log[l]) /\ Len(log[l]) \in Nat
  <2> TAKE l \in Server
  <2>1. Len(log[l]) \in Nat
    BY DEF Types
  <2>2. CASE l = s
    BY <1>4, <2>1, <2>2 DEF n
  <2>3. CASE l # s
    BY <1>4, <2>1, <2>3
  <2> QED BY <2>1, <2>2, <2>3
<1>10. LeaderHasEntries'
  <2> SUFFICES ASSUME NEW l \in Server, NEW t \in Server, NEW i \in DOMAIN log'[t],
                      leads[l] # 0, log'[t][i].term = leads[l]
               PROVE  i <= Len(log'[l])
    BY <1>2 DEF LeaderHasEntries
  <2>1. CASE t = s /\ i = n
    <3>1. l = s
      BY <1>1, <1>2, <1>4, <1>6, <2>1 DEF TermInv, OneLeader
    <3> QED BY <1>4, <2>1, <3>1
  <2>2. CASE ~(t = s /\ i = n)
    <3>1. i \in DOMAIN log[t] /\ log'[t][i] = log[t][i]
      BY <1>4, <2>2 DEF n
    <3>2. i <= Len(log[l])
      BY <3>1 DEF TermInv, LeaderHasEntries
    <3>3. i \in Nat
      <4>1. log[t] \in Seq(Entry)
        BY DEF Types
      <4> QED BY <3>1, <4>1
    <3> QED BY <1>9, <3>2, <3>3, Types' DEF Types
  <2> QED BY <2>1, <2>2
<1>11. LeaderHasCalls'
  <2> SUFFICES ASSUME NEW l \in Server, NEW b \in DOMAIN handler,
                      leads[l] # 0, handler'[b].term = leads[l]
               PROVE  handler'[b].logId <= Len(log'[l])
    BY <1>2, <1>5 DEF LeaderHasCalls
  <2>1. CASE b = a
    <3>1. l = s
      BY <1>1, <1>2, <1>5, <2>1 DEF TermInv, OneLeader
    <3> QED BY <1>4, <1>5, <2>1, <3>1
  <2>2. CASE b # a
    <3>1. handler'[b] = handler[b] /\ handler[b].logId <= Len(log[l])
      BY <1>5, <2>2 DEF TermInv, LeaderHasCalls
    <3>2. handler[b].logId \in Nat
      <4>1. handler[b] \in Handler
        BY DEF Types
      <4> QED BY <4>1 DEF Handler
    <3> QED BY <1>9, <3>1, <3>2, Types', SMTT(30) DEF Types
  <2> QED BY <2>1, <2>2
<1>12. OwnEntries'
  <2> SUFFICES ASSUME NEW t \in Server, NEW b \in DOMAIN handler,
                      handler'[b].logId \in DOMAIN log'[t],
                      log'[t][handler'[b].logId].term = handler'[b].term
               PROVE  log'[t][handler'[b].logId].by = b
    BY <1>5 DEF OwnEntries
  <2>1. CASE b = a
    <3>1. CASE t = s
      BY <1>4, <1>5, <1>6, <2>1, <3>1
    <3>2. CASE t # s
      <4>1. n \in DOMAIN log[t] /\ log[t][n].term = leads[s]
        BY <1>4, <1>5, <2>1, <3>2
      <4>2. n <= Len(log[s])
        BY <1>1, <1>2, <4>1 DEF TermInv, LeaderHasEntries
      <4> QED BY <1>4, <4>2 DEF n
    <3> QED BY <3>1, <3>2
  <2>2. CASE b # a
    <3>1. handler'[b] = handler[b]
      BY <1>5, <2>2
    <3>2. CASE t = s /\ handler[b].logId = n
      <4>1. handler[b].term = leads[s]
        BY <1>4, <1>6, <3>1, <3>2
      <4>2. n <= Len(log[s])
        BY <1>1, <1>2, <3>2, <4>1 DEF TermInv, LeaderHasCalls
      <4> QED BY <1>4, <4>2 DEF n
    <3>3. CASE ~(t = s /\ handler[b].logId = n)
      <4>1. handler[b].logId \in DOMAIN log[t] /\ log'[t][handler[b].logId] = log[t][handler[b].logId]
        BY <1>4, <3>1, <3>3 DEF n
      <4> QED BY <3>1, <4>1 DEF TermInv, OwnEntries
    <3> QED BY <3>2, <3>3
  <2> QED BY <2>1, <2>2
<1> QED BY <1>7, <1>8, <1>10, <1>11, <1>12 DEF TermInv

LEMMA LeadTerms ==
    ASSUME Types, TermInv, NEW s \in Server, Lead(s)
    PROVE  TermInv'
<1>1. term \in Nat /\ term' = term + 1 /\ leads' = [leads EXCEPT ![s] = term + 1]
      /\ log' = log /\ handler' = handler /\ leads \in [Server -> Nat]
  BY DEF Lead, callVars, Types
<1>2. \A l \in Server : leads[l] <= term /\ leads[l] \in Nat
  BY <1>1 DEF TermInv, OldTerms
<1>3. \A l \in Server : \A i \in DOMAIN log[l] : log[l][i].term <= term /\ log[l][i].term \in Nat
  <2> TAKE l \in Server
  <2> TAKE i \in DOMAIN log[l]
  <2>1. log[l] \in Seq(Entry)
    BY DEF Types
  <2>2. log[l][i] \in Entry
    BY <2>1
  <2> QED BY <2>2 DEF TermInv, OldTerms, Entry
<1>4. \A a \in DOMAIN handler : handler[a].term <= term /\ handler[a].term \in Nat
  <2>1. \A a \in DOMAIN handler : handler[a] \in Handler
    BY DEF Types
  <2> QED BY <2>1 DEF TermInv, OldTerms, Handler
<1>5. OldTerms'
  BY <1>1, <1>2, <1>3, <1>4 DEF OldTerms
<1>6. OneLeader'
  BY <1>1, <1>2 DEF TermInv, OneLeader
<1>7. LeaderHasEntries'
  BY <1>1, <1>3 DEF TermInv, LeaderHasEntries
<1>8. LeaderHasCalls'
  BY <1>1, <1>4 DEF TermInv, LeaderHasCalls
<1>9. OwnEntries'
  BY <1>1 DEF TermInv, OwnEntries
<1> QED BY <1>5, <1>6, <1>7, <1>8, <1>9 DEF TermInv

LEMMA FollowTerms ==
    ASSUME Types, TermInv, NEW s \in Server, NEW l \in Server, Follow(s, l)
    PROVE  TermInv'
<1>1. term' = term /\ leads' = [leads EXCEPT ![s] = 0] /\ handler' = handler /\ s # l
      /\ log' = [log EXCEPT ![s] = log[l]]
  BY DEF Follow, callVars
<1>2. /\ \A t \in Server \ {s} : log'[t] = log[t] /\ leads'[t] = leads[t]
      /\ log'[s] = log[l] /\ leads'[s] = 0
  BY <1>1 DEF Types
<1>3. OldTerms'
  BY <1>1, <1>2 DEF TermInv, OldTerms, Types
<1>4. OneLeader'
  BY <1>2 DEF TermInv, OneLeader
<1>5. LeaderHasEntries'
  BY <1>2 DEF TermInv, LeaderHasEntries
<1>6. LeaderHasCalls'
  BY <1>1, <1>2 DEF TermInv, LeaderHasCalls
<1>7. OwnEntries'
  BY <1>1, <1>2 DEF TermInv, OwnEntries
<1> QED BY <1>3, <1>4, <1>5, <1>6, <1>7 DEF TermInv

LEMMA ClerkStepTerms ==
    ASSUME Types, Types', NEW c \in Clerk, ClerkStep(c)
    PROVE  SameTerms
<1>1. CASE NewCall(c)
  <2>1. handler'[Len(handler) + 1].logId = 0 /\ handler'[Len(handler) + 1].term = 0
    BY <1>1 DEF NewCall
  <2> QED BY <1>1, <2>1, ClerkCallsDomain DEF ClerkStep, NewCall, OldCalls, SameCall, raftVars, SameTerms
<1>2. ASSUME NEW reply \in Replies, Ends(c, reply) PROVE SameTerms
  BY <1>2, EndsDomain DEF ClerkStep, Ends, OldCalls, SameCall, raftVars, SameTerms
<1> QED BY <1>1, <1>2 DEF ClerkStep

LEMMA TermsStep == ASSUME Types, Types', TermInv, Next PROVE TermInv'
<1>1. CASE \E c \in Clerk, cmd \in Command : ClerkCalls(c, cmd)
  BY <1>1, ClerkCallsStep, ClerkStepTerms, SameTermsStep
<1>2. CASE \E c \in Clerk : ClerkReceives(c) \/ ClerkTimesOut(c) \/ ClerkCatches(c)
  BY <1>2, AnyClerkStep, ClerkStepTerms, SameTermsStep
<1>3. ASSUME NEW a \in DOMAIN handler, Refuse(a) \/ Register(a) PROVE TermInv'
  <2>1. UNCHANGED raftVars
    BY <1>3 DEF Refuse, Register
  <2>2. SameTerms
    BY <1>3, <2>1, RefuseMoves, RegisterMoves DEF SameTerms, raftVars, SameCalls, OthersStay
  <2> QED BY <2>2, SameTermsStep
<1>4. ASSUME NEW a \in DOMAIN handler, Start(a) PROVE TermInv'
  BY <1>4, StartTerms
<1>5. ASSUME NEW s \in Server, Apply(s) PROVE TermInv'
  <2>1. UNCHANGED raftVars
    BY <1>5 DEF Apply
  <2>2. SameTerms
    BY <1>5, <2>1, ApplyMoves DEF SameTerms, raftVars, SameCalls
  <2> QED BY <2>2, SameTermsStep
<1>6. ASSUME NEW s \in Server, Restart(s) PROVE TermInv'
  <2>1. log' = log /\ term' = term /\ \A t \in Server : leads'[t] \in {leads[t], 0}
    BY <1>6 DEF Restart, Types
  <2>2. SameTerms
    BY <1>6, <2>1, RestartMoves DEF SameTerms, SameCalls
  <2> QED BY <2>2, SameTermsStep
<1>7. ASSUME NEW s \in Server, Commit(s) PROVE TermInv'
  <2>1. SameTerms
    BY <1>7 DEF Commit, SameTerms, callVars
  <2> QED BY <2>1, SameTermsStep
<1>8. ASSUME NEW s \in Server, Lead(s) \/ \E l \in Server : Follow(s, l) PROVE TermInv'
  BY <1>8, LeadTerms, FollowTerms
<1> QED BY <1>1, <1>2, <1>3, <1>4, <1>5, <1>6, <1>7, <1>8 DEF Next

OwnAnswers ==
    \A a \in DOMAIN handler :
        LET s == handler[a].server
            entry == log[s][lastApplyIndex'[s]]
        IN handler[a].pc = "wait" /\ handler'[a].pc = "answered" /\ entry.term = handler[a].term
               => entry.by = a

LEMMA AnswersAreOwn == ASSUME Types, Types', TermInv, Next PROVE OwnAnswers
<1> SUFFICES ASSUME NEW a \in DOMAIN handler, handler[a].pc = "wait", handler'[a].pc = "answered"
             PROVE  LET s == handler[a].server
                        entry == log[s][lastApplyIndex'[s]]
                    IN entry.term = handler[a].term => entry.by = a
  BY DEF OwnAnswers
<1>1. ASSUME NEW s \in Server, Apply(s)
      PROVE  LET entry == log[s][lastApplyIndex'[s]]
             IN handler[a].server = s /\ (entry.term = handler[a].term => entry.by = a)
  <2>1. Awaits(a, s, lastApplyIndex[s] + 1, log[s][lastApplyIndex[s] + 1].cmd)
    BY <1>1, ApplyMoves DEF Answered
  <2>2. handler[a].server = s /\ handler[a].logId = lastApplyIndex[s] + 1
    BY <2>1 DEF Awaits
  <2>3. lastApplyIndex'[s] = lastApplyIndex[s] + 1 /\ lastApplyIndex[s] + 1 \in DOMAIN log[s]
    BY <1>1 DEF Apply, Types
  <2> QED BY <2>2, <2>3 DEF TermInv, OwnEntries
<1>2. ASSUME NEW c \in Clerk, ClerkStep(c) PROVE FALSE
  BY <1>2 DEF ClerkStep, NewCall, Ends, OldCalls, SameCall
<1>3. ASSUME NEW b \in DOMAIN handler, Refuse(b) \/ Start(b) \/ Register(b) PROVE FALSE
  BY <1>3, RefuseMoves, StartMoves, RegisterMoves DEF OthersStay, Refuse, Start, Register
<1>4. ASSUME NEW s \in Server, Restart(s) PROVE FALSE
  BY <1>4, RestartMoves
<1>5. ASSUME NEW s \in Server, Lead(s) \/ Commit(s) \/ \E l \in Server : Follow(s, l) PROVE FALSE
  BY <1>5 DEF Lead, Commit, Follow, callVars
<1> QED BY <1>1, <1>2, <1>3, <1>4, <1>5, ClerkCallsStep, AnyClerkStep DEF Next

LEMMA TermInvariant == Spec => []TermInv
<1>1. Init => TermInv
  BY DEF Init, TermInv, OldTerms, OneLeader, LeaderHasEntries, LeaderHasCalls, OwnEntries
<1>2. Types /\ Types' /\ TermInv /\ [Next]_vars => TermInv'
  <2>1. ASSUME TermInv, UNCHANGED vars PROVE TermInv'
    BY <2>1 DEF TermInv, OldTerms, OneLeader, LeaderHasEntries, LeaderHasCalls, OwnEntries,
                vars, raftVars, callVars
  <2> QED BY <2>1, TermsStep
<1> QED BY <1>1, <1>2, TypeCorrect, PTL DEF Spec

(* TermTellsOwner: had putAppend and get kept the term that start gave     *)
(* them (KVRaft.cpp:33, 56), apply could tell whose entry it applies.      *)
THEOREM TermTells == Spec => TermTellsOwner
<1>1. Types /\ Types' /\ TermInv /\ [Next]_vars => [OwnAnswers]_vars
  BY AnswersAreOwn
<1> QED BY <1>1, TypeCorrect, TermInvariant, PTL DEF Spec, TermTellsOwner, OwnAnswers

-----------------------------------------------------------------------------
(***************************************************************************)
(* Connections.  A call that still has its connection is the latest call   *)
(* of a clerk that waits; once it is answered, its reply is all there is   *)
(* on the connections of the clerk.                                        *)
(***************************************************************************)
ConnectedCalls ==
    \A a \in DOMAIN handler : handler[a].connected =>
        LET me == clerk[handler[a].clerk]
        IN me.pc = "recv" /\ me.call = a /\ me.host = handler[a].server

OnlyReplies ==
    \A c \in Clerk, s \in Server : inbox[c][s] # <<>> =>
        /\ Len(inbox[c][s]) = 1
        /\ clerk[c].pc = "recv" /\ clerk[c].host = s
        /\ inbox[c][s][1].call = clerk[c].call
        /\ clerk[c].call \in DOMAIN handler /\ ~handler[clerk[c].call].connected

ConnInv == ConnectedCalls /\ OnlyReplies

LEMMA ConnImpliesMatch == ASSUME Types, ConnInv PROVE RepliesMatch
<1> SUFFICES ASSUME NEW c \in Clerk, clerk[c].pc = "recv", inbox[c][clerk[c].host] # <<>>
             PROVE  Head(inbox[c][clerk[c].host]).call = clerk[c].call
  BY DEF RepliesMatch
<1>1. clerk[c].host \in Server
  BY DEF Types, ClerkState
<1>2. inbox[c][clerk[c].host] \in Seq(Replies)
  BY <1>1 DEF Types
<1> QED BY <1>1, <1>2 DEF ConnInv, OnlyReplies

(* A call returns, or the first one is made: the clerk has nothing left    *)
(* from earlier calls.                                                     *)
LEMMA ClerkStepConn ==
    ASSUME Types, Types', ConnInv, NEW c \in Clerk, ClerkStep(c),
           \A a \in DOMAIN handler : handler[a].clerk = c => ~handler'[a].connected,
           \A s \in Server : inbox'[c][s] = <<>>,
           \A d \in Clerk \ {c} : inbox'[d] = inbox[d]
    PROVE  ConnInv'
<1>1. OldCalls /\ OtherClerks(c)
  BY DEF ClerkStep, NewCall, Ends
<1>2. ConnectedCalls'
  <2> SUFFICES ASSUME NEW a \in DOMAIN handler', handler'[a].connected
               PROVE  LET me == clerk'[handler'[a].clerk]
                      IN me.pc = "recv" /\ me.call = a /\ me.host = handler'[a].server
    BY DEF ConnectedCalls
  <2>1. CASE a \in DOMAIN handler
    <3>1. handler[a].connected /\ handler[a].clerk # c /\ handler'[a].clerk = handler[a].clerk
          /\ handler'[a].server = handler[a].server
      BY <1>1, <2>1 DEF OldCalls, SameCall
    <3>2. handler[a].clerk \in Clerk
      <4>1. handler[a] \in Handler
        BY <2>1 DEF Types
      <4> QED BY <4>1 DEF Handler
    <3>3. clerk'[handler[a].clerk] = clerk[handler[a].clerk]
      BY <1>1, <3>1, <3>2 DEF OtherClerks
    <3> QED BY <2>1, <3>1, <3>3 DEF ConnInv, ConnectedCalls
  <2>2. CASE a \notin DOMAIN handler
    <3>1. NewCall(c) /\ a = Len(handler) + 1
      BY <2>2, ClerkCallsDomain, EndsDomain DEF ClerkStep
    <3> QED BY <3>1 DEF NewCall
  <2> QED BY <2>1, <2>2
<1>3. OnlyReplies'
  <2> SUFFICES ASSUME NEW d \in Clerk, NEW s \in Server, inbox'[d][s] # <<>>
               PROVE  /\ Len(inbox'[d][s]) = 1
                      /\ clerk'[d].pc = "recv" /\ clerk'[d].host = s
                      /\ inbox'[d][s][1].call = clerk'[d].call
                      /\ clerk'[d].call \in DOMAIN handler' /\ ~handler'[clerk'[d].call].connected
    BY DEF OnlyReplies
  <2>1. d # c /\ inbox'[d] = inbox[d] /\ clerk'[d] = clerk[d]
    BY <1>1 DEF OtherClerks
  <2>2. /\ Len(inbox[d][s]) = 1 /\ clerk[d].pc = "recv" /\ clerk[d].host = s
        /\ inbox[d][s][1].call = clerk[d].call
        /\ clerk[d].call \in DOMAIN handler /\ ~handler[clerk[d].call].connected
    BY <2>1 DEF ConnInv, OnlyReplies
  <2>3. clerk[d].call \in DOMAIN handler' /\ ~handler'[clerk[d].call].connected
    BY <1>1, <2>2 DEF OldCalls, SameCall
  <2> QED BY <2>1, <2>2, <2>3
<1> QED BY <1>2, <1>3 DEF ConnInv

(* A handler answers.                                                      *)
LEMMA DeliveredConn ==
    ASSUME Types, Types', ConnInv, NEW a \in DOMAIN handler, NEW reply \in Replies, reply.call = a,
           SameCalls, ~handler'[a].connected, inbox' = Delivered(a, reply)
    PROVE  ConnInv'
<1>1. ConnectedCalls'
  BY DEF ConnInv, ConnectedCalls, SameCalls
<1>2. OnlyReplies'
  <2>1. CASE ~handler[a].connected
    BY <2>1 DEF Delivered, ConnInv, OnlyReplies, SameCalls
  <2>2. CASE handler[a].connected
    <3> DEFINE c == handler[a].clerk  s == handler[a].server
    <3>1. c \in Clerk /\ s \in Server
      <4>1. handler[a] \in Handler
        BY DEF Types
      <4> QED BY <4>1 DEF Handler
    <3>2. clerk[c].pc = "recv" /\ clerk[c].call = a /\ clerk[c].host = s
      BY <2>2 DEF ConnInv, ConnectedCalls
    <3>3. inbox[c][s] = <<>>
      BY <2>2, <3>1, <3>2 DEF ConnInv, OnlyReplies
    <3>4. inbox' = [inbox EXCEPT ![c][s] = Append(@, reply)]
      BY <2>2 DEF Delivered
    <3> HIDE DEF c, s
    <3>5. inbox'[c][s] = <<reply>>
      BY <3>1, <3>3, <3>4 DEF Types
    <3>6. \A d \in Clerk, t \in Server : d # c \/ t # s => inbox'[d][t] = inbox[d][t]
      BY <3>1, <3>4 DEF Types
    <3> SUFFICES ASSUME NEW d \in Clerk, NEW t \in Server, inbox'[d][t] # <<>>
                 PROVE  /\ Len(inbox'[d][t]) = 1
                        /\ clerk[d].pc = "recv" /\ clerk[d].host = t
                        /\ inbox'[d][t][1].call = clerk[d].call
                        /\ clerk[d].call \in DOMAIN handler /\ ~handler'[clerk[d].call].connected
      BY DEF OnlyReplies, SameCalls
    <3>7. CASE d = c /\ t = s
      <4>1. Len(<<reply>>) = 1 /\ <<reply>>[1].call = a
        OBVIOUS
      <4>2. inbox'[d][t] = <<reply>> /\ clerk[d].call = a /\ clerk[d].pc = "recv" /\ clerk[d].host = t
        BY <3>2, <3>5, <3>7
      <4> QED BY <4>1, <4>2
    <3>8. CASE d # c \/ t # s
      BY <3>6, <3>8 DEF ConnInv, OnlyReplies, SameCalls
    <3> QED BY <3>7, <3>8
  <2> QED BY <2>1, <2>2
<1> QED BY <1>1, <1>2 DEF ConnInv

LEMMA SameCallsConn ==
    ASSUME Types, ConnInv, SameCalls, inbox' = inbox
    PROVE  ConnInv'
BY DEF ConnInv, ConnectedCalls, OnlyReplies, SameCalls

LEMMA ClerkCallsConn ==
    ASSUME Types, Types', ConnInv, NEW c \in Clerk, NEW cmd \in Command, ClerkCalls(c, cmd)
    PROVE  ConnInv'
<1>1. clerk[c].pc = "idle" /\ inbox' = inbox /\ ClerkStep(c)
  BY ClerkCallsStep DEF ClerkCalls
<1>2. \A s \in Server : inbox[c][s] = <<>>
  BY <1>1 DEF ConnInv, OnlyReplies
<1>3. \A a \in DOMAIN handler : handler[a].clerk = c => ~handler'[a].connected
  BY <1>1, ClerkCallsIsNewCall DEF ConnInv, ConnectedCalls
<1> QED BY <1>1, <1>2, <1>3, ClerkStepConn

LEMMA ClerkReceivesConn ==
    ASSUME Types, Types', ConnInv, NEW c \in Clerk, ClerkReceives(c)
    PROVE  ConnInv'
<1> DEFINE h == clerk[c].host
<1>1. h \in Server /\ inbox[c][h] # <<>> /\ inbox' = [inbox EXCEPT ![c][h] = Tail(@)]
  BY DEF Types, ClerkState, ClerkReceives
<1>2. /\ Len(inbox[c][h]) = 1 /\ inbox[c][h][1].call = clerk[c].call
      /\ clerk[c].call \in DOMAIN handler /\ ~handler[clerk[c].call].connected
  BY <1>1 DEF ConnInv, OnlyReplies
<1> HIDE DEF h
<1>3. inbox'[c][h] = <<>>
  <2>1. inbox[c][h] \in Seq(Replies)
    BY <1>1 DEF Types
  <2>2. Tail(inbox[c][h]) = <<>>
    <3>1. inbox[c][h] # <<>>
      BY <1>1
    <3>2. Tail(inbox[c][h]) \in Seq(Replies) /\ Len(Tail(inbox[c][h])) = 0
      BY <1>2, <2>1, <3>1, HeadTailProperties
    <3> QED BY <3>2, EmptySeq
  <2> QED BY <1>1, <2>2 DEF Types
<1>4. \A s \in Server : inbox'[c][s] = <<>>
  <2> SUFFICES ASSUME NEW s \in Server, s # h PROVE inbox'[c][s] = <<>>
    BY <1>3
  <2>1. inbox'[c][s] = inbox[c][s]
    BY <1>1 DEF Types
  <2> QED BY <2>1 DEF ConnInv, OnlyReplies, h
<1>5. \A d \in Clerk \ {c} : inbox'[d] = inbox[d]
  BY <1>1 DEF Types
<1>6. \A a \in DOMAIN handler : handler[a].clerk = c => ~handler'[a].connected
  BY <1>2, ClerkReceivesEnds DEF ConnInv, ConnectedCalls
<1> QED BY <1>4, <1>5, <1>6, AnyClerkStep, ClerkStepConn

LEMMA CaughtConn ==
    ASSUME Types, Types', ConnInv, NEW c \in Clerk, ClerkTimesOut(c) \/ ClerkCatches(c)
    PROVE  ConnInv'
<1> DEFINE h == clerk[c].host
<1>1. h \in Server /\ clerk[c].pc = "recv" /\ Caught(c)
  BY DEF Types, ClerkState, ClerkTimesOut, ClerkCatches
<1>2. inbox' = [inbox EXCEPT ![c][h] = <<>>]
  BY <1>1 DEF Caught
<1>3. \A s \in Server : inbox'[c][s] = <<>>
  <2> TAKE s \in Server
  <2>1. CASE s = h
    BY <1>1, <1>2, <2>1 DEF Types
  <2>2. CASE s # h
    <3>1. inbox'[c][s] = inbox[c][s]
      BY <1>2, <2>2 DEF Types
    <3> QED BY <2>2, <3>1 DEF ConnInv, OnlyReplies
  <2> QED BY <2>1, <2>2
<1>4. \A d \in Clerk \ {c} : inbox'[d] = inbox[d]
  BY <1>2 DEF Types
<1>5. ClerkStep(c)
  BY AnyClerkStep
<1>6. \A a \in DOMAIN handler : handler[a].clerk = c => ~handler'[a].connected
  <2> SUFFICES ASSUME NEW a \in DOMAIN handler, handler[a].clerk = c, handler'[a].connected
               PROVE  FALSE
    OBVIOUS
  <2>1. handler[a].connected
    BY <1>5 DEF ClerkStep, NewCall, Ends, OldCalls, SameCall
  <2>2. handler[a].server = h
    BY <2>1 DEF ConnInv, ConnectedCalls
  <2> QED BY <1>1, <2>2, CaughtEnds
<1> QED BY <1>3, <1>4, <1>5, <1>6, ClerkStepConn

LEMMA ResultCall ==
    ASSUME NEW a, NEW map, NEW entry
    PROVE  ResultOf(a, map, entry).call = a /\ WrongLeader(a).call = a
BY DEF ResultOf, Reply, WrongLeader

LEMMA ConnStep == ASSUME Types, Types', ConnInv, Next PROVE ConnInv'
<1>1. CASE \E c \in Clerk, cmd \in Command : ClerkCalls(c, cmd)
  BY <1>1, ClerkCallsConn
<1>2. CASE \E c \in Clerk : ClerkReceives(c) \/ ClerkTimesOut(c) \/ ClerkCatches(c)
  BY <1>2, ClerkReceivesConn, CaughtConn
<1>3. ASSUME NEW a \in DOMAIN handler, Refuse(a) PROVE ConnInv'
  <2>1. inbox' = Delivered(a, WrongLeader(a)) /\ WrongLeader(a) \in Replies
    <3>1. a \in Nat
      BY DEF Types
    <3> QED BY <1>3, <3>1, WrongLeaderType DEF Refuse, WrongLeader
  <2> QED BY <1>3, <2>1, RefuseMoves, DeliveredConn, ResultCall
<1>4. ASSUME NEW a \in DOMAIN handler, Start(a) \/ Register(a) PROVE ConnInv'
  <2>1. inbox' = inbox
    BY <1>4 DEF Start, Register
  <2> QED BY <1>4, <2>1, StartMoves, RegisterMoves, SameCallsConn
<1>5. ASSUME NEW s \in Server, Apply(s) PROVE ConnInv'
  <2> DEFINE index == lastApplyIndex[s] + 1
             entry == log[s][index]
             b == Chosen(s, index, entry.cmd)
  <2>1. CASE Answered(s, index, entry.cmd) = {}
    <3>1. inbox' = inbox
      BY <1>5, <2>1 DEF Apply, Answered
    <3> QED BY <1>5, <3>1, ApplyMoves, SameCallsConn
  <2>2. CASE Answered(s, index, entry.cmd) # {}
    <3>1. b \in Answered(s, index, entry.cmd) /\ b \in DOMAIN handler /\ b \in Nat
      BY <2>2, SMTT(30) DEF Chosen, Answered, Types
    <3>2. inbox' = Delivered(b, ResultOf(b, um[s], entry))
      BY <1>5, <2>2 DEF Apply, Answered, Chosen
    <3>3. entry \in Entry
      <4>1. index \in DOMAIN log[s] /\ log[s] \in Seq(Entry)
        BY <1>5 DEF Apply, Types
      <4> HIDE DEF index
      <4> QED BY <4>1
    <3>4. um[s] \in [Key -> Held]
      BY DEF Types
    <3>5. SameCalls /\ ~handler'[b].connected
      BY <1>5, <3>1, ApplyMoves
    <3> HIDE DEF b, entry
    <3>6. ResultOf(b, um[s], entry) \in Replies
      BY <3>1, <3>3, <3>4, ResultType
    <3> QED BY <3>1, <3>2, <3>5, <3>6, DeliveredConn, ResultCall
  <2> QED BY <2>1, <2>2
<1>6. ASSUME NEW s \in Server, Restart(s) PROVE ConnInv'
  BY <1>6, RestartMoves, SameCallsConn DEF Restart
<1>7. ASSUME NEW s \in Server, Lead(s) \/ Commit(s) \/ \E l \in Server : Follow(s, l)
      PROVE ConnInv'
  <2>1. UNCHANGED callVars
    BY <1>7 DEF Lead, Commit, Follow
  <2> QED BY <2>1 DEF callVars, ConnInv, ConnectedCalls, OnlyReplies
<1> QED BY <1>1, <1>2, <1>3, <1>4, <1>5, <1>6, <1>7 DEF Next

LEMMA ConnInvariant == Spec => []ConnInv
<1>1. Init => ConnInv
  BY DEF Init, ConnInv, ConnectedCalls, OnlyReplies
<1>2. Types /\ Types' /\ ConnInv /\ [Next]_vars => ConnInv'
  <2>1. ASSUME ConnInv, UNCHANGED vars PROVE ConnInv'
    BY <2>1 DEF vars, callVars, ConnInv, ConnectedCalls, OnlyReplies
  <2> QED BY <2>1, ConnStep
<1> QED BY <1>1, <1>2, TypeCorrect, PTL DEF Spec

(* RepliesMatch: setInvalid (ClientManager.hpp:48) is enough to keep the   *)
(* late reply of one call from being read as the reply of the next.        *)
THEOREM RepliesAreOwn == Spec => []RepliesMatch
<1>1. Types /\ ConnInv => RepliesMatch
  BY ConnImpliesMatch
<1> QED BY <1>1, TypeCorrect, ConnInvariant, PTL

-----------------------------------------------------------------------------
(***************************************************************************)
(* The servers and their clerks implement the abstract store, whatever the *)
(* numbers of calls, faults and elections.                                 *)
(*                                                                         *)
(* Logs.  Each entry is the command of a call that a leader has accepted,  *)
(* once in a log; the newest leader has all that is agreed on.             *)
(***************************************************************************)
Accepted(entry) ==
    /\ entry.by \in DOMAIN handler
    /\ entry.cmd = Received(handler[entry.by].cmd)
    /\ handler[entry.by].pc # "sent"

AcceptedEntries ==
    /\ \A s \in Server : \A i \in DOMAIN log[s] : Accepted(log[s][i])
    /\ \A i \in DOMAIN agreed : Accepted(agreed[i])

OncePerLog ==
    \A s \in Server : \A i, j \in DOMAIN log[s] : log[s][i].by = log[s][j].by => i = j

LeaderHasAgreed ==
    \A l \in Server : leads[l] = term /\ term > 0 =>
        /\ Len(agreed) <= Len(log[l])
        /\ \A i \in DOMAIN agreed : agreed[i] = log[l][i]

LogInv == AcceptedEntries /\ OncePerLog /\ LeaderHasAgreed

AcceptedStay ==
    \A a \in DOMAIN handler :
        /\ a \in DOMAIN handler' /\ handler'[a].cmd = handler[a].cmd
        /\ handler[a].pc # "sent" => handler'[a].pc # "sent"

LEMMA AcceptedKept ==
    ASSUME AcceptedStay, NEW entry, Accepted(entry)
    PROVE  Accepted(entry)'
BY DEF AcceptedStay, Accepted

LEMMA SameLogsStep ==
    ASSUME Types, LogInv, AcceptedStay, UNCHANGED <<log, agreed, term>>,
           \A s \in Server : leads'[s] \in {leads[s], 0}
    PROVE  LogInv'
<1>1. AcceptedEntries'
  BY DEF LogInv, AcceptedEntries, AcceptedStay, Accepted
<1>2. OncePerLog'
  BY DEF LogInv, OncePerLog
<1>3. LeaderHasAgreed'
  BY DEF LogInv, LeaderHasAgreed, Types
<1> QED BY <1>1, <1>2, <1>3 DEF LogInv

LEMMA StartLogs ==
    ASSUME Types, LogInv, NEW a \in DOMAIN handler, Start(a)
    PROVE  LogInv'
<1> DEFINE s == handler[a].server
           n == Len(log[s]) + 1
           entry == [cmd |-> Received(handler[a].cmd), by |-> a, term |-> leads[s]]
<1>1. s \in Server /\ handler[a].cmd \in Request /\ handler[a].pc = "sent"
  <2>1. handler[a] \in Handler
    BY DEF Types
  <2> QED BY <2>1 DEF Handler, Start
<1>2. leads' = leads /\ term' = term /\ agreed' = agreed /\ log' = [log EXCEPT ![s] = Append(@, entry)]
  BY DEF Start
<1>3. entry \in Entry
  <2>1. Received(handler[a].cmd) \in Request
    BY <1>1, ReceivedType
  <2>2. a \in Nat /\ leads[s] \in Nat
    BY <1>1 DEF Types
  <2> QED BY <2>1, <2>2 DEF Entry
<1>4. /\ Len(log'[s]) = n /\ n \in Nat /\ log'[s][n] = entry
      /\ \A i \in 1 .. Len(log[s]) : log'[s][i] = log[s][i]
      /\ DOMAIN log'[s] = 1 .. n /\ DOMAIN log[s] = 1 .. Len(log[s])
      /\ \A t \in Server \ {s} : log'[t] = log[t]
  <2> HIDE DEF entry
  <2>1. log'[s] = Append(log[s], entry) /\ \A t \in Server \ {s} : log'[t] = log[t]
    BY <1>1, <1>2 DEF Types
  <2>2. log[s] \in Seq(Entry)
    BY <1>1 DEF Types
  <2> QED BY <1>3, <2>1, <2>2, AppendProperties
<1>5. AcceptedStay /\ a \in DOMAIN handler' /\ handler'[a].pc = "register"
      /\ handler'[a].cmd = handler[a].cmd
  BY StartMoves DEF SameCalls, OthersStay, AcceptedStay
<1>6. entry.by = a /\ entry.cmd = Received(handler[a].cmd)
  OBVIOUS
<1> HIDE DEF s, n, entry
<1>7. AcceptedEntries'
  <2>2. ASSUME NEW t \in Server, NEW i \in DOMAIN log'[t] PROVE Accepted(log[t][i])'
    <3>1. CASE t = s /\ i = n
      BY <1>4, <1>5, <1>6, <3>1 DEF Accepted
    <3>2. CASE ~(t = s /\ i = n)
      <4>1. i \in DOMAIN log[t] /\ log'[t][i] = log[t][i]
        BY <1>4, <2>2, <3>2 DEF n
      <4>2. Accepted(log[t][i])
        BY <4>1 DEF LogInv, AcceptedEntries
      <4> QED BY <1>5, <4>1, <4>2 DEF AcceptedStay, Accepted
    <3> QED BY <3>1, <3>2
  <2>3. \A i \in DOMAIN agreed : Accepted(agreed[i])'
    BY <1>2, <1>5 DEF LogInv, AcceptedEntries, AcceptedStay, Accepted
  <2> QED BY <1>2, <2>2, <2>3 DEF AcceptedEntries
<1>8. OncePerLog'
  <2>1. \A i \in DOMAIN log[s] : log[s][i].by # a
    BY <1>1 DEF LogInv, AcceptedEntries, Accepted
  <2>2. ASSUME NEW i \in DOMAIN log'[s], NEW j \in DOMAIN log'[s], log'[s][i].by = log'[s][j].by
        PROVE  i = j
    <3>1. CASE i # n /\ j # n
      BY <1>1, <1>4, <2>2, <3>1 DEF n, LogInv, OncePerLog
    <3>2. CASE i = n \/ j = n
      BY <1>4, <1>6, <2>1, <2>2, <3>2 DEF n
    <3> QED BY <3>1, <3>2
  <2> QED BY <1>4, <2>2 DEF LogInv, OncePerLog
<1>9. LeaderHasAgreed'
  <2> SUFFICES ASSUME NEW l \in Server, leads[l] = term, term > 0
               PROVE  /\ Len(agreed) <= Len(log'[l])
                      /\ \A i \in DOMAIN agreed : agreed[i] = log'[l][i]
    BY <1>2 DEF LeaderHasAgreed
  <2>1. /\ Len(agreed) <= Len(log[l]) /\ Len(agreed) \in Nat /\ DOMAIN agreed = 1 .. Len(agreed)
        /\ \A i \in DOMAIN agreed : agreed[i] = log[l][i]
    BY DEF LogInv, LeaderHasAgreed, Types
  <2>2. Len(log[s]) \in Nat
    BY <1>1 DEF Types
  <2>3. CASE l = s
    BY <1>4, <2>1, <2>2, <2>3 DEF n
  <2>4. CASE l # s
    BY <1>4, <2>1, <2>4
  <2> QED BY <2>3, <2>4
<1> QED BY <1>7, <1>8, <1>9 DEF LogInv

LEMMA PrefixMeans ==
    ASSUME NEW S, NEW p \in Seq(S), NEW q \in Seq(S), IsPrefix(p, q)
    PROVE  Len(p) <= Len(q) /\ \A i \in DOMAIN p : p[i] = q[i]
<1>1. Len(p) <= Len(q) /\ SubSeq(p, 1, Len(p)) = SubSeq(q, 1, Len(p))
  BY DEF IsPrefix
<1>2. \A i \in 1 .. Len(p) : SubSeq(p, 1, Len(p))[i] = p[i] /\ SubSeq(q, 1, Len(p))[i] = q[i]
  BY <1>1
<1> QED BY <1>1, <1>2

LEMMA LeadLogs ==
    ASSUME Types, TermInv, LogInv, NEW s \in Server, Lead(s)
    PROVE  LogInv'
<1>1. UNCHANGED <<log, agreed, handler>> /\ term' = term + 1 /\ leads' = [leads EXCEPT ![s] = term + 1]
      /\ IsPrefix(agreed, log[s])
  BY DEF Lead, callVars
<1>2. AcceptedEntries' /\ OncePerLog'
  BY <1>1 DEF LogInv, AcceptedEntries, Accepted, OncePerLog
<1>3. Len(agreed) <= Len(log[s]) /\ \A i \in DOMAIN agreed : agreed[i] = log[s][i]
  <2>1. agreed \in Seq(Entry) /\ log[s] \in Seq(Entry)
    BY DEF Types
  <2> QED BY <1>1, <2>1, PrefixMeans
<1>4. \A l \in Server : leads'[l] = term' => l = s
  BY <1>1 DEF Types, TermInv, OldTerms
<1> QED BY <1>1, <1>2, <1>3, <1>4 DEF LogInv, LeaderHasAgreed

LEMMA FollowLogs ==
    ASSUME Types, LogInv, NEW s \in Server, NEW l \in Server, Follow(s, l)
    PROVE  LogInv'
<1>1. UNCHANGED <<agreed, handler, term>> /\ s # l
      /\ log' = [log EXCEPT ![s] = log[l]] /\ leads' = [leads EXCEPT ![s] = 0]
  BY DEF Follow, callVars
<1>2. /\ \A t \in Server \ {s} : log'[t] = log[t] /\ leads'[t] = leads[t]
      /\ log'[s] = log[l] /\ leads'[s] = 0
  BY <1>1 DEF Types
<1>3. AcceptedEntries'
  BY <1>1, <1>2 DEF LogInv, AcceptedEntries, Accepted
<1>4. OncePerLog'
  BY <1>2 DEF LogInv, OncePerLog
<1>5. LeaderHasAgreed'
  BY <1>1, <1>2 DEF LogInv, LeaderHasAgreed
<1> QED BY <1>3, <1>4, <1>5 DEF LogInv

(* What a commit adds.                                                     *)
LEMMA CommitAdds ==
    ASSUME Types, LogInv, NEW l \in Server, Commit(l)
    PROVE  LET n == Len(agreed) + 1
               entry == log[l][n]
           IN /\ n \in DOMAIN log[l] /\ entry \in Entry /\ n \in Nat
              /\ agreed' \in Seq(Entry) /\ Len(agreed') = n /\ DOMAIN agreed' = 1 .. n
              /\ agreed'[n] = entry
              /\ \A i \in DOMAIN agreed : agreed'[i] = agreed[i] /\ agreed[i] = log[l][i]
              /\ \A i \in DOMAIN agreed : agreed[i].by # entry.by
              /\ Accepted(entry)
<1> DEFINE n == Len(agreed) + 1
           entry == log[l][n]
<1>1. agreed \in Seq(Entry) /\ log[l] \in Seq(Entry) /\ Len(agreed) \in Nat /\ Len(log[l]) \in Nat
      /\ DOMAIN agreed = 1 .. Len(agreed)
  BY DEF Types
<1>2. n \in DOMAIN log[l] /\ n \in Nat /\ agreed' = Append(agreed, entry)
  BY <1>1 DEF Commit
<1>3. entry \in Entry
  BY <1>1, <1>2
<1>4. /\ Len(agreed) <= Len(log[l])
      /\ \A i \in DOMAIN agreed : agreed[i] = log[l][i] /\ i \in DOMAIN log[l] /\ i # n
  <2>1. leads[l] = term /\ term > 0
    BY DEF Commit
  <2> QED BY <1>1, <2>1 DEF LogInv, LeaderHasAgreed
<1>5. \A i \in DOMAIN agreed : agreed[i].by # entry.by
  BY <1>2, <1>4 DEF LogInv, OncePerLog
<1>6. Accepted(entry)
  BY <1>2 DEF LogInv, AcceptedEntries
<1> HIDE DEF entry
<1>7. agreed' \in Seq(Entry) /\ Len(agreed') = n /\ agreed'[n] = entry
      /\ \A i \in DOMAIN agreed : agreed'[i] = agreed[i]
  BY <1>1, <1>2, <1>3, AppendProperties
<1> QED BY <1>2, <1>3, <1>4, <1>5, <1>6, <1>7 DEF entry

LEMMA CommitLogs ==
    ASSUME Types, TermInv, LogInv, NEW l \in Server, Commit(l)
    PROVE  LogInv'
<1>1. UNCHANGED <<log, leads, term, handler>> /\ leads[l] = term /\ term > 0
  BY DEF Commit, callVars
<1>2. OncePerLog'
  BY <1>1 DEF LogInv, OncePerLog
<1>3. AcceptedEntries'
  <2>1. ASSUME NEW i \in DOMAIN agreed' PROVE Accepted(agreed'[i])
    <3>1. agreed \in Seq(Entry) /\ DOMAIN agreed = 1 .. Len(agreed)
      BY DEF Types
    <3>2. CASE i = Len(agreed) + 1
      BY <3>2, CommitAdds
    <3>3. CASE i # Len(agreed) + 1
      <4>1. i \in DOMAIN agreed
        BY <3>1, <3>3, CommitAdds
      <4>2. agreed'[i] = agreed[i]
        BY <4>1, CommitAdds
      <4> QED BY <4>1, <4>2 DEF LogInv, AcceptedEntries
    <3> QED BY <3>2, <3>3
  <2> QED BY <1>1, <2>1 DEF LogInv, AcceptedEntries, Accepted
<1>4. \A k \in Server : leads[k] = term => k = l
  BY <1>1 DEF TermInv, OneLeader, Types
<1>5. /\ Len(agreed') <= Len(log[l])
      /\ \A i \in DOMAIN agreed' : agreed'[i] = log[l][i]
  BY CommitAdds, SMTT(30) DEF Types
<1>6. LeaderHasAgreed'
  BY <1>1, <1>4, <1>5 DEF LeaderHasAgreed
<1> QED BY <1>2, <1>3, <1>6 DEF LogInv

LEMMA ClerkStepKeeps ==
    ASSUME Types, Types', NEW c \in Clerk, ClerkStep(c)
    PROVE  AcceptedStay
BY DEF ClerkStep, NewCall, Ends, OldCalls, SameCall, AcceptedStay

LEMMA LogStep == ASSUME Types, Types', TermInv, LogInv, Next PROVE LogInv'
<1>1. ASSUME NEW c \in Clerk, ClerkStep(c) PROVE LogInv'
  <2>1. UNCHANGED raftVars
    BY <1>1 DEF ClerkStep
  <2> QED BY <1>1, <2>1, ClerkStepKeeps, SameLogsStep DEF raftVars
<1>2. ASSUME NEW a \in DOMAIN handler, Refuse(a) \/ Register(a) PROVE LogInv'
  <2>1. UNCHANGED raftVars
    BY <1>2 DEF Refuse, Register
  <2>2. AcceptedStay
    BY <1>2, RefuseMoves, RegisterMoves DEF SameCalls, OthersStay, AcceptedStay
  <2> QED BY <2>1, <2>2, SameLogsStep DEF raftVars
<1>3. ASSUME NEW s \in Server, Apply(s) PROVE LogInv'
  <2>1. UNCHANGED raftVars
    BY <1>3 DEF Apply
  <2>2. AcceptedStay
    BY <1>3, ApplyMoves DEF SameCalls, AcceptedStay
  <2> QED BY <2>1, <2>2, SameLogsStep DEF raftVars
<1>4. ASSUME NEW s \in Server, Restart(s) PROVE LogInv'
  <2>1. UNCHANGED <<log, agreed, term>> /\ \A t \in Server : leads'[t] \in {leads[t], 0}
    BY <1>4 DEF Restart, Types
  <2>2. AcceptedStay
    BY <1>4, RestartMoves DEF SameCalls, AcceptedStay
  <2> QED BY <2>1, <2>2, SameLogsStep
<1> QED BY <1>1, <1>2, <1>3, <1>4, ClerkCallsStep, AnyClerkStep, StartLogs, LeadLogs,
           FollowLogs, CommitLogs DEF Next

LEMMA LogInvariant == Spec => []LogInv
<1>1. Init => LogInv
  BY DEF Init, LogInv, AcceptedEntries, OncePerLog, LeaderHasAgreed
<1>2. Types /\ Types' /\ TermInv /\ LogInv /\ [Next]_vars => LogInv'
  <2>1. ASSUME LogInv, UNCHANGED vars PROVE LogInv'
    BY <2>1 DEF vars, callVars, raftVars, LogInv, AcceptedEntries, Accepted, OncePerLog,
                LeaderHasAgreed
  <2> QED BY <2>1, LogStep
<1> QED BY <1>1, <1>2, TypeCorrect, TermInvariant, PTL DEF Spec

-----------------------------------------------------------------------------
(***************************************************************************)
(* Maps.  The map of a server is the map after as many of the agreed       *)
(* entries as it has applied.                                              *)
(***************************************************************************)
Histories ==
    /\ Len(maps) = Len(agreed) + 1
    /\ did \in Seq(Store!Outcome) /\ Len(did) = Len(agreed)
    /\ \A i \in DOMAIN agreed :
          /\ maps[i + 1] = Store!Effect(maps[i], agreed[i].cmd)
          /\ did[i] = Store!Result(maps[i], agreed[i].cmd)

AppliedMaps ==
    \A s \in Server :
        /\ lastApplyIndex[s] <= Len(agreed)
        /\ um[s] = maps[lastApplyIndex[s] + 1]

MapInv == Histories /\ AppliedMaps

LEMMA EffectType ==
    ASSUME NEW cmd \in Request, NEW map \in [Key -> Held]
    PROVE  Store!Effect(map, cmd) \in [Key -> Held]
BY AppliedType, AppliedIsEffect

LEMMA ResultIsOutcome ==
    ASSUME NEW cmd \in Request, NEW map \in [Key -> Held]
    PROVE  Store!Result(map, cmd) \in Store!Outcome
<1>1. CASE cmd.op # "GET"
  BY <1>1 DEF Store!Result, Store!Outcome
<1>2. CASE cmd.op = "GET"
  <2>1. map[cmd.key] \in Held
    BY <1>2 DEF Request, PutAppendParams, GetParams
  <2> QED BY <1>2, <2>1 DEF Store!Result, Store!Outcome, Held
<1> QED BY <1>1, <1>2

LEMMA CommitMaps ==
    ASSUME Types, LogInv, MapInv, NEW l \in Server, Commit(l)
    PROVE  MapInv'
<1> DEFINE n == Len(agreed)
           map == maps[Len(maps)]
           cmd == log[l][Len(agreed) + 1].cmd
<1>1. /\ agreed \in Seq(Entry) /\ n \in Nat /\ DOMAIN agreed = 1 .. n
      /\ maps \in Seq([Key -> Held]) /\ Len(maps) = n + 1
      /\ did \in Seq(Store!Outcome) /\ Len(did) = n
  BY DEF Types, MapInv, Histories
<1>2. /\ maps' = Append(maps, Store!Effect(map, cmd))
      /\ did' = Append(did, Store!Result(map, cmd))
  BY <1>1 DEF Commit, Last
<1>3. /\ Len(agreed') = n + 1 /\ DOMAIN agreed' = 1 .. n + 1
      /\ agreed'[n + 1].cmd = cmd /\ cmd \in Request
      /\ \A i \in 1 .. n : agreed'[i] = agreed[i]
  BY <1>1, CommitAdds DEF Entry
<1>4. map \in [Key -> Held] /\ map = maps[n + 1]
  BY <1>1
<1> HIDE DEF map, cmd
<1>5. Store!Effect(map, cmd) \in [Key -> Held] /\ Store!Result(map, cmd) \in Store!Outcome
  BY <1>3, <1>4, EffectType, ResultIsOutcome
<1>6. /\ Len(maps') = n + 2 /\ maps'[n + 2] = Store!Effect(map, cmd)
      /\ \A i \in 1 .. n + 1 : maps'[i] = maps[i]
  BY <1>1, <1>2, <1>5, AppendProperties
<1>7. /\ did' \in Seq(Store!Outcome) /\ Len(did') = n + 1
      /\ did'[n + 1] = Store!Result(map, cmd)
      /\ \A i \in 1 .. n : did'[i] = did[i]
  BY <1>1, <1>2, <1>5, AppendProperties
<1>8. ASSUME NEW i \in 1 .. n + 1
      PROVE  /\ maps'[i + 1] = Store!Effect(maps'[i], agreed'[i].cmd)
             /\ did'[i] = Store!Result(maps'[i], agreed'[i].cmd)
  <2>1. CASE i = n + 1
    BY <1>1, <1>3, <1>4, <1>6, <1>7, <2>1
  <2>2. CASE i # n + 1
    <3>1. i \in 1 .. n /\ i + 1 \in 1 .. n + 1
      BY <1>1, <2>2
    <3>2. maps[i + 1] = Store!Effect(maps[i], agreed[i].cmd)
          /\ did[i] = Store!Result(maps[i], agreed[i].cmd)
      BY <1>1, <3>1 DEF MapInv, Histories
    <3> QED BY <1>3, <1>6, <1>7, <3>1, <3>2
  <2> QED BY <2>1, <2>2
<1>9. Histories'
  <2>1. \A i \in DOMAIN agreed' :
          /\ maps'[i + 1] = Store!Effect(maps'[i], agreed'[i].cmd)
          /\ did'[i] = Store!Result(maps'[i], agreed'[i].cmd)
    BY <1>3, <1>8
  <2>2. Len(maps') = Len(agreed') + 1 /\ Len(did') = Len(agreed')
    BY <1>1, <1>3, <1>6, <1>7
  <2>3. did' \in Seq(Store!Outcome)
    BY <1>7
  <2> QED BY <2>1, <2>2, <2>3 DEF Histories
<1>10. AppliedMaps'
  <2>1. um' = um /\ lastApplyIndex' = lastApplyIndex
    BY DEF Commit, serverVars
  <2>2. \A s \in Server : lastApplyIndex[s] \in Nat /\ lastApplyIndex[s] <= n
                          /\ um[s] = maps[lastApplyIndex[s] + 1]
    BY DEF Types, MapInv, AppliedMaps
  <2> QED BY <1>1, <1>3, <1>6, <2>1, <2>2 DEF AppliedMaps
<1> QED BY <1>9, <1>10 DEF MapInv

LEMMA ApplyMaps ==
    ASSUME Types, MapInv, NEW s \in Server, Apply(s)
    PROVE  MapInv'
<1> DEFINE index == lastApplyIndex[s] + 1
<1>1. /\ index \in DOMAIN agreed /\ index \in Nat /\ log[s][index] = agreed[index]
      /\ um' = [um EXCEPT ![s] = Applied(@, log[s][index].cmd)]
      /\ lastApplyIndex' = [lastApplyIndex EXCEPT ![s] = index]
      /\ UNCHANGED <<agreed, maps, did>>
  <2>1. lastApplyIndex[s] \in Nat
    BY DEF Types
  <2>2. index \in DOMAIN log[s] \cap DOMAIN agreed /\ log[s][index] = agreed[index]
    BY DEF Apply
  <2>3. um' = [um EXCEPT ![s] = Applied(@, log[s][index].cmd)]
    BY DEF Apply
  <2>4. lastApplyIndex' = [lastApplyIndex EXCEPT ![s] = index] /\ UNCHANGED raftVars
    BY DEF Apply
  <2> QED BY <2>1, <2>2, <2>3, <2>4 DEF raftVars
<1>2. um[s] = maps[index] /\ maps[index + 1] = Store!Effect(maps[index], agreed[index].cmd)
  BY <1>1 DEF MapInv, Histories, AppliedMaps
<1> HIDE DEF index
<1>3. um'[s] = maps[index + 1] /\ lastApplyIndex'[s] = index /\ index <= Len(agreed)
  <2>1. um'[s] = Applied(um[s], agreed[index].cmd)
    BY <1>1 DEF Types
  <2> QED BY <1>1, <1>2, <2>1, AppliedIsEffect DEF Types
<1>4. \A t \in Server \ {s} : um'[t] = um[t] /\ lastApplyIndex'[t] = lastApplyIndex[t]
  BY <1>1 DEF Types
<1>5. Histories'
  BY <1>1 DEF MapInv, Histories
<1>6. AppliedMaps'
  BY <1>1, <1>3, <1>4 DEF MapInv, AppliedMaps
<1> QED BY <1>5, <1>6 DEF MapInv

LEMMA RestartMaps ==
    ASSUME Types, MapInv, maps[1] = [k \in Key |-> NoValue], NEW s \in Server, Restart(s)
    PROVE  MapInv'
<1>1. /\ um' = [um EXCEPT ![s] = [k \in Key |-> NoValue]]
      /\ lastApplyIndex' = [lastApplyIndex EXCEPT ![s] = 0]
      /\ UNCHANGED <<agreed, maps, did>>
  BY DEF Restart
<1>2. um'[s] = maps[1] /\ lastApplyIndex'[s] = 0 /\ 0 <= Len(agreed)
  BY <1>1 DEF Types
<1>3. \A t \in Server \ {s} : um'[t] = um[t] /\ lastApplyIndex'[t] = lastApplyIndex[t]
  BY <1>1 DEF Types
<1>4. Histories'
  BY <1>1 DEF MapInv, Histories
<1>5. AppliedMaps'
  BY <1>1, <1>2, <1>3 DEF MapInv, AppliedMaps
<1> QED BY <1>4, <1>5 DEF MapInv

\* Before the first entry the map is empty.
FirstMap == maps[1] = [k \in Key |-> NoValue]

LEMMA FirstMapStep == ASSUME Types, Next PROVE maps'[1] = maps[1]
<1>1. ASSUME NEW l \in Server, Commit(l) PROVE maps'[1] = maps[1]
  <2>1. PICK map : maps' = Append(maps, map)
    BY <1>1 DEF Commit
  <2> QED BY <2>1 DEF Types
<1>2. ASSUME NEW c \in Clerk, ClerkStep(c) PROVE maps'[1] = maps[1]
  BY <1>2 DEF ClerkStep, raftVars
<1>3. ASSUME NEW a \in DOMAIN handler, Refuse(a) \/ Start(a) \/ Register(a)
      PROVE  maps'[1] = maps[1]
  BY <1>3 DEF Refuse, Start, Register, raftVars
<1>4. ASSUME NEW s \in Server, Apply(s) \/ Restart(s) \/ Lead(s) \/ \E l \in Server : Follow(s, l)
      PROVE  maps'[1] = maps[1]
  BY <1>4 DEF Apply, Restart, Lead, Follow, raftVars
<1> QED BY <1>1, <1>2, <1>3, <1>4, ClerkCallsStep, AnyClerkStep DEF Next

LEMMA MapStep ==
    ASSUME Types, LogInv, MapInv, FirstMap, Next
    PROVE  MapInv' /\ FirstMap'
<1>1. FirstMap'
  BY FirstMapStep DEF FirstMap
<1>2. ASSUME UNCHANGED <<um, lastApplyIndex, agreed, maps, did>> PROVE MapInv'
  BY <1>2 DEF MapInv, Histories, AppliedMaps
<1>3. ASSUME NEW c \in Clerk, ClerkStep(c) PROVE MapInv'
  BY <1>2, <1>3 DEF ClerkStep, serverVars, raftVars
<1>4. ASSUME NEW a \in DOMAIN handler, Refuse(a) \/ Start(a) \/ Register(a) PROVE MapInv'
  BY <1>2, <1>4 DEF Refuse, Start, Register, serverVars, raftVars
<1>5. ASSUME NEW s \in Server, Lead(s) \/ \E l \in Server : Follow(s, l) PROVE MapInv'
  BY <1>2, <1>5 DEF Lead, Follow, serverVars
<1> QED BY <1>1, <1>3, <1>4, <1>5, ApplyMaps, RestartMaps, CommitMaps, ClerkCallsStep, AnyClerkStep
        DEF Next, FirstMap

LEMMA MapInvariant == Spec => []MapInv
<1>1. Init => MapInv /\ FirstMap
  <2> SUFFICES ASSUME Init PROVE MapInv /\ FirstMap
    OBVIOUS
  <2>1. /\ agreed = <<>> /\ did = <<>> /\ maps = <<[k \in Key |-> NoValue]>>
        /\ um = [s \in Server |-> [k \in Key |-> NoValue]]
        /\ lastApplyIndex = [s \in Server |-> 0]
    BY DEF Init
  <2>2. did \in Seq(Store!Outcome) /\ Len(did) = 0 /\ Len(agreed) = 0 /\ Len(maps) = 1
        /\ DOMAIN agreed = {} /\ maps[1] = [k \in Key |-> NoValue]
    BY <2>1
  <2>3. Histories
    BY <2>2 DEF Histories
  <2>4. AppliedMaps
    BY <2>1, <2>2 DEF AppliedMaps
  <2> QED BY <2>2, <2>3, <2>4 DEF MapInv, FirstMap
<1>2. Types /\ LogInv /\ MapInv /\ FirstMap /\ [Next]_vars => MapInv' /\ FirstMap'
  <2>1. ASSUME MapInv, FirstMap, UNCHANGED vars PROVE MapInv' /\ FirstMap'
    BY <2>1 DEF vars, serverVars, raftVars, MapInv, Histories, AppliedMaps, FirstMap
  <2> QED BY <2>1, MapStep
<1> QED BY <1>1, <1>2, TypeCorrect, LogInvariant, PTL DEF Spec

-----------------------------------------------------------------------------
(***************************************************************************)
(* Replies.  A reply that is its call's own says what the call did when it *)
(* was executed, or that it failed.                                        *)
(***************************************************************************)
IsTold(reply) ==
    \/ ~reply.own
    \/ Told(reply) = Store!Fail
    \/ \E j \in DOMAIN agreed : agreed[j].by = reply.call /\ did[j] = Told(reply)

OwnReplies ==
    \A c \in Clerk, s \in Server : inbox[c][s] # <<>> => IsTold(inbox[c][s][1])

\* A step that leaves what is agreed on.
LEMMA SameReplies ==
    ASSUME OwnReplies, UNCHANGED <<agreed, did>>, NEW replies, \A r \in replies : IsTold(r),
           \A c \in Clerk, s \in Server :
              inbox'[c][s] = inbox[c][s] \/ inbox'[c][s] = <<>>
                \/ \E r \in replies : inbox'[c][s] = <<r>>
    PROVE  OwnReplies'
<1> SUFFICES ASSUME NEW c \in Clerk, NEW s \in Server, inbox'[c][s] # <<>>
             PROVE  IsTold(inbox'[c][s][1])
  BY ZenonT(30) DEF OwnReplies, IsTold, Told
<1>1. CASE inbox'[c][s] = inbox[c][s]
  BY <1>1 DEF OwnReplies
<1>2. CASE \E r \in replies : inbox'[c][s] = <<r>>
  BY <1>2
<1> QED BY <1>1, <1>2

LEMMA DeliveredAlone ==
    ASSUME Types, ConnInv, NEW a \in DOMAIN handler, NEW reply \in Replies,
           inbox' = Delivered(a, reply), NEW c \in Clerk, NEW s \in Server
    PROVE  inbox'[c][s] = inbox[c][s] \/ inbox'[c][s] = <<reply>>
<1>1. CASE ~handler[a].connected
  BY <1>1 DEF Delivered
<1>2. CASE handler[a].connected
  <2> DEFINE d == handler[a].clerk  t == handler[a].server
  <2>1. d \in Clerk /\ t \in Server
    <3>1. handler[a] \in Handler
      BY DEF Types
    <3> QED BY <3>1 DEF Handler
  <2>2. clerk[d].pc = "recv" /\ clerk[d].call = a
    BY <1>2 DEF ConnInv, ConnectedCalls
  <2>3. inbox[d][t] = <<>>
    BY <1>2, <2>1, <2>2 DEF ConnInv, OnlyReplies
  <2>4. inbox' = [inbox EXCEPT ![d][t] = Append(@, reply)]
    BY <1>2 DEF Delivered
  <2> HIDE DEF d, t
  <2>5. inbox'[d][t] = <<reply>>
    BY <2>1, <2>3, <2>4, SMTT(30) DEF Types
  <2>6. d # c \/ t # s => inbox'[c][s] = inbox[c][s]
    BY <2>1, <2>4 DEF Types
  <2> QED BY <2>5, <2>6
<1> QED BY <1>1, <1>2

LEMMA ReceivedAlone ==
    ASSUME Types, ConnInv, NEW c \in Clerk, ClerkReceives(c), NEW d \in Clerk, NEW s \in Server
    PROVE  inbox'[d][s] = inbox[d][s] \/ inbox'[d][s] = <<>>
<1> DEFINE h == clerk[c].host
<1>1. h \in Server /\ inbox[c][h] # <<>> /\ inbox' = [inbox EXCEPT ![c][h] = Tail(@)]
  BY DEF Types, ClerkState, ClerkReceives
<1>2. Len(inbox[c][h]) = 1
  BY <1>1 DEF ConnInv, OnlyReplies
<1> HIDE DEF h
<1>3. Tail(inbox[c][h]) = <<>>
  <2>1. inbox[c][h] \in Seq(Replies)
    BY <1>1 DEF Types
  <2>2. Tail(inbox[c][h]) \in Seq(Replies) /\ Len(Tail(inbox[c][h])) = 0
    BY <1>1, <1>2, <2>1, HeadTailProperties
  <2> QED BY <2>2, EmptySeq
<1> QED BY <1>1, <1>3 DEF Types

LEMMA WrongLeaderIsTold == ASSUME NEW a PROVE IsTold(WrongLeader(a))
BY DEF IsTold, WrongLeader, Reply, Told, Store!Fail

LEMMA ResultIsDid ==
    ASSUME NEW a, NEW map, NEW entry
    PROVE  /\ Told(ResultOf(a, map, entry)) = Store!Result(map, entry.cmd)
           /\ ResultOf(a, map, entry).own = (entry.by = a)
           /\ ResultOf(a, map, entry).call = a
BY DEF Told, ResultOf, Reply, Store!Result

LEMMA ApplyReplies ==
    ASSUME Types, ConnInv, MapInv, OwnReplies, NEW s \in Server, Apply(s)
    PROVE  OwnReplies'
<1> DEFINE index == lastApplyIndex[s] + 1
           entry == log[s][index]
           b == Chosen(s, index, entry.cmd)
           reply == ResultOf(b, um[s], entry)
<1>1. UNCHANGED <<agreed, did>> /\ index \in DOMAIN agreed /\ index \in DOMAIN log[s]
      /\ entry = agreed[index]
  BY DEF Apply, raftVars
<1>2. CASE Answered(s, index, entry.cmd) = {}
  <2>1. inbox' = inbox
    BY <1>2 DEF Apply, Answered
  <2> QED BY <1>1, <2>1 DEF OwnReplies, IsTold
<1>3. CASE Answered(s, index, entry.cmd) # {}
  <2>1. b \in Answered(s, index, entry.cmd) /\ b \in DOMAIN handler /\ b \in Nat
    BY <1>3 DEF Chosen, Answered, Types
  <2>2. inbox' = Delivered(b, reply)
    BY <1>3 DEF Apply, Answered, Chosen
  <2>3. entry \in Entry /\ um[s] \in [Key -> Held]
    <3>1. log[s] \in Seq(Entry)
      BY DEF Types
    <3> HIDE DEF index
    <3> QED BY <1>1, <3>1 DEF Types
  <2>4. um[s] = maps[index] /\ did[index] = Store!Result(maps[index], agreed[index].cmd)
    BY <1>1 DEF MapInv, Histories, AppliedMaps
  <2> HIDE DEF b, entry, index
  <2>5. reply \in Replies
    BY <2>1, <2>3, ResultType
  <2>6. IsTold(reply)
    <3>1. Told(reply) = did[index] /\ reply.own = (entry.by = b) /\ reply.call = b
      BY <1>1, <2>4, ResultIsDid
    <3> HIDE DEF reply
    <3> QED BY <1>1, <3>1 DEF IsTold
  <2> HIDE DEF reply
  <2>7. \A c \in Clerk, t \in Server : inbox'[c][t] = inbox[c][t] \/ inbox'[c][t] = <<reply>>
    BY <2>1, <2>2, <2>5, DeliveredAlone
  <2>8. \A c \in Clerk, t \in Server :
          inbox'[c][t] = inbox[c][t] \/ inbox'[c][t] = <<>>
            \/ \E r \in {reply} : inbox'[c][t] = <<r>>
    BY <2>7
  <2>9. \A r \in {reply} : IsTold(r)
    BY <2>6
  <2> QED BY <1>1, <2>8, <2>9, SameReplies
<1> QED BY <1>2, <1>3

LEMMA RefuseReplies ==
    ASSUME Types, ConnInv, OwnReplies, NEW a \in DOMAIN handler, Refuse(a)
    PROVE  OwnReplies'
<1>1. UNCHANGED <<agreed, did>> /\ inbox' = Delivered(a, WrongLeader(a))
  BY DEF Refuse, raftVars, WrongLeader
<1>2. WrongLeader(a) \in Replies
  <2>1. a \in Nat
    BY DEF Types
  <2> QED BY <2>1, WrongLeaderType
<1>3. \A c \in Clerk, t \in Server :
        inbox'[c][t] = inbox[c][t] \/ inbox'[c][t] = <<>>
          \/ \E r \in {WrongLeader(a)} : inbox'[c][t] = <<r>>
  BY <1>1, <1>2, DeliveredAlone
<1>4. \A r \in {WrongLeader(a)} : IsTold(r)
  BY WrongLeaderIsTold
<1> QED BY <1>1, <1>3, <1>4, SameReplies

LEMMA CommitReplies ==
    ASSUME Types, LogInv, MapInv, OwnReplies, NEW l \in Server, Commit(l)
    PROVE  OwnReplies'
<1>1. inbox' = inbox /\ \A i \in DOMAIN agreed : i \in DOMAIN agreed' /\ agreed'[i] = agreed[i]
  BY CommitAdds, SMTT(30) DEF Commit, callVars, Types
<1>2. \A i \in DOMAIN agreed : did'[i] = did[i]
  <2>1. PICK result : did' = Append(did, result)
    BY DEF Commit
  <2>2. did \in Seq(Store!Outcome) /\ Len(did) = Len(agreed)
    BY DEF MapInv, Histories
  <2> QED BY <2>1, <2>2 DEF Types
<1> QED BY <1>1, <1>2 DEF OwnReplies, IsTold, Told

LEMMA ReplyStep ==
    ASSUME Types, ConnInv, LogInv, MapInv, OwnReplies, Next
    PROVE  OwnReplies'
<1>1. ASSUME UNCHANGED <<agreed, did>>,
             \A c \in Clerk, s \in Server : inbox'[c][s] = inbox[c][s] \/ inbox'[c][s] = <<>>
      PROVE  OwnReplies'
  BY <1>1 DEF OwnReplies, IsTold, Told
<1>2. ASSUME NEW c \in Clerk, NEW cmd \in Command, ClerkCalls(c, cmd) PROVE OwnReplies'
  BY <1>1, <1>2 DEF ClerkCalls, raftVars
<1>3. ASSUME NEW c \in Clerk, ClerkReceives(c) PROVE OwnReplies'
  BY <1>1, <1>3, ReceivedAlone DEF ClerkReceives, raftVars
<1>4. ASSUME NEW c \in Clerk, ClerkTimesOut(c) \/ ClerkCatches(c) PROVE OwnReplies'
  <2>1. inbox' = [inbox EXCEPT ![c][clerk[c].host] = <<>>] /\ UNCHANGED <<agreed, did>>
    BY <1>4 DEF ClerkTimesOut, ClerkCatches, Caught, raftVars
  <2>2. \A d \in Clerk, s \in Server : inbox'[d][s] = inbox[d][s] \/ inbox'[d][s] = <<>>
    BY <2>1 DEF Types
  <2> QED BY <1>1, <2>1, <2>2
<1>5. ASSUME NEW a \in DOMAIN handler, Start(a) \/ Register(a) PROVE OwnReplies'
  BY <1>1, <1>5 DEF Start, Register, raftVars
<1>6. ASSUME NEW s \in Server, Restart(s) \/ Lead(s) \/ \E l \in Server : Follow(s, l)
      PROVE  OwnReplies'
  BY <1>1, <1>6 DEF Restart, Lead, Follow, callVars
<1> QED BY <1>2, <1>3, <1>4, <1>5, <1>6, ApplyReplies, RefuseReplies, CommitReplies DEF Next

LEMMA ReplyInvariant == Spec => []OwnReplies
<1>1. Init => OwnReplies
  BY DEF Init, OwnReplies
<1>2. Types /\ ConnInv /\ LogInv /\ MapInv /\ OwnReplies /\ [Next]_vars => OwnReplies'
  <2>1. ASSUME OwnReplies, UNCHANGED vars PROVE OwnReplies'
    BY <2>1 DEF vars, raftVars, callVars, OwnReplies, IsTold, Told
  <2> QED BY <2>1, ReplyStep
<1> QED BY <1>1, <1>2, TypeCorrect, ConnInvariant, LogInvariant, MapInvariant, PTL DEF Spec

-----------------------------------------------------------------------------
(***************************************************************************)
(* The refinement.  A step of a clerk begins a request, sends it again or  *)
(* ends it; a commit executes it; the other steps do not show.             *)
(***************************************************************************)
LatestCalls ==
    \A c \in Clerk : clerk[c].pc = "recv" => clerk[c].call \in CopiesOf(c)

LEMMA Updated ==
    ASSUME NEW S, NEW f, NEW g, f = [d \in S |-> f[d]], g = [d \in S |-> g[d]],
           NEW c \in S, NEW v, g[c] = v, \A d \in S \ {c} : g[d] = f[d]
    PROVE  g = [f EXCEPT ![c] = v]
<1> DEFINE h == [f EXCEPT ![c] = v]
<1>1. h = [d \in S |-> IF d = c THEN v ELSE f[d]]
  OBVIOUS
<1>2. \A d \in S : g[d] = IF d = c THEN v ELSE f[d]
  OBVIOUS
<1> HIDE DEF h
<1>3. g = [d \in S |-> IF d = c THEN v ELSE f[d]]
  BY <1>2
<1> QED BY <1>1, <1>3 DEF h

LEMMA ExecutedCalls == ASSUME LogInv PROVE Executed \subseteq DOMAIN handler
BY DEF Executed, LogInv, AcceptedEntries, Accepted

\* A copy is sent.
LEMMA NewCopy ==
    ASSUME Types, Types', LogInv, NEW c \in Clerk, NewCall(c), UNCHANGED agreed
    PROVE  LET n == Len(handler) + 1
           IN /\ n \in 1 .. MaxCalls /\ n \notin DOMAIN handler
              /\ Copies' = Copies \cup {[copy |-> n, cmd |-> Received(clerk'[c].cmd)]}
              /\ n \notin {x.copy : x \in Copies}
              /\ \A d \in Clerk \ {c} : CopiesOf(d)' = CopiesOf(d)
<1> DEFINE n == Len(handler) + 1
<1>1. /\ DOMAIN handler = 1 .. Len(handler) /\ Len(handler) \in Nat
      /\ DOMAIN handler' = DOMAIN handler \cup {n} /\ Len(handler') = n
      /\ n \notin DOMAIN handler /\ n \in 1 .. MaxCalls
  BY ClerkCallsDomain DEF Types, NewCall
<1>2. handler'[n].cmd = clerk'[c].cmd /\ handler'[n].clerk = c
  BY DEF NewCall
<1>3. \A a \in DOMAIN handler : handler'[a].cmd = handler[a].cmd /\ handler'[a].clerk = handler[a].clerk
  BY DEF NewCall, OldCalls, SameCall
<1>4. Executed' = Executed /\ Executed \subseteq DOMAIN handler
  BY ExecutedCalls DEF Executed
<1>5. DOMAIN handler' \ Executed' = (DOMAIN handler \ Executed) \cup {n}
  BY <1>1, <1>4
<1>6. Copies' = Copies \cup {[copy |-> n, cmd |-> Received(clerk'[c].cmd)]}
  <2>1. Copies' = {[copy |-> a, cmd |-> Received(handler'[a].cmd)] :
                      a \in (DOMAIN handler \ Executed) \cup {n}}
    BY <1>5 DEF Copies, Received
  <2>2. \A a \in DOMAIN handler \ Executed : Received(handler'[a].cmd) = Received(handler[a].cmd)
    BY <1>3
  <2>3. Received(handler'[n].cmd) = Received(clerk'[c].cmd)
    BY <1>2
  <2> HIDE DEF n
  <2> QED BY <2>1, <2>2, <2>3 DEF Copies
<1>7. n \notin {x.copy : x \in Copies}
  BY <1>1 DEF Copies
<1>8. ASSUME NEW d \in Clerk \ {c} PROVE CopiesOf(d)' = CopiesOf(d)
  <2>1. clerk'[d] = clerk[d]
    BY <1>8 DEF NewCall, OtherClerks
  <2>2. clerk[d].first \in Nat \ {0}
    BY DEF Types, ClerkState
  <2>3. \A a : a \in clerk[d].first .. n /\ handler'[a].clerk = d
                 <=> a \in clerk[d].first .. Len(handler) /\ handler[a].clerk = d
    <3> SUFFICES ASSUME NEW a \in clerk[d].first .. n
                 PROVE  handler'[a].clerk = d <=> a # n /\ handler[a].clerk = d
      BY <1>1, <1>2, <2>2
    <3>1. CASE a = n
      BY <1>2, <1>8, <3>1
    <3>2. CASE a # n
      BY <1>1, <1>3, <2>2, <3>2
    <3> QED BY <3>1, <3>2
  <2> QED BY <1>1, <2>1, <2>3 DEF CopiesOf
<1> QED BY <1>1, <1>6, <1>7, <1>8

\* What depends on the copies of a clerk only.
LEMMA SameCopies ==
    ASSUME NEW c \in Clerk, UNCHANGED <<agreed, did>>, CopiesOf(c)' = CopiesOf(c)
    PROVE  SentCopies'[c] = SentCopies[c] /\ Results'[c] = Results[c]
BY DEF SentCopies, Results

LEMMA SameAnswers ==
    ASSUME NEW c \in Clerk, clerk'[c] = clerk[c]
    PROVE  Asks'[c] = Asks[c] /\ Answers'[c] = Answers[c]
BY DEF Asks, Answers, Told, Received

LEMMA Functions ==
    /\ Asks = [c \in Clerk |-> Asks[c]] /\ Asks' = [c \in Clerk |-> Asks'[c]]
    /\ SentCopies = [c \in Clerk |-> SentCopies[c]] /\ SentCopies' = [c \in Clerk |-> SentCopies'[c]]
    /\ Results = [c \in Clerk |-> Results[c]] /\ Results' = [c \in Clerk |-> Results'[c]]
    /\ Answers = [c \in Clerk |-> Answers[c]] /\ Answers' = [c \in Clerk |-> Answers'[c]]
BY DEF Asks, SentCopies, Results, Answers

LEMMA BeginStep ==
    ASSUME Types, Types', LogInv, NEW c \in Clerk, NEW cmd \in Command, ClerkCalls(c, cmd)
    PROVE  Store!Begin(c)
<1> DEFINE n == Len(handler) + 1
           x == [copy |-> n, cmd |-> Received(cmd)]
<1>1. /\ NewCall(c) /\ clerk[c].pc = "idle" /\ clerk'[c].cmd = cmd /\ clerk'[c].first = n
      /\ clerk'[c].code = "ERR_WRONG_LEADER" /\ clerk'[c].value = NoValue /\ clerk'[c].own = TRUE
  BY ClerkCallsIsNewCall
<1>2. UNCHANGED <<agreed, did, maps>> /\ clerk'[c].pc = "recv" /\ Len(handler') = n
      /\ handler'[n].clerk = c /\ \A d \in Clerk \ {c} : clerk'[d] = clerk[d]
  BY <1>1 DEF ClerkCalls, raftVars, NewCall, OtherClerks
<1>3. /\ n \in 1 .. MaxCalls /\ n \notin DOMAIN handler
      /\ Copies' = Copies \cup {x} /\ n \notin {y.copy : y \in Copies}
      /\ \A d \in Clerk \ {c} : CopiesOf(d)' = CopiesOf(d)
  BY <1>1, <1>2, NewCopy
<1>4. CopiesOf(c) = {} /\ CopiesOf(c)' = {n}
  <2>1. n \in Nat
    BY <1>3
  <2>2. n .. n = {n}
    BY <2>1
  <2> HIDE DEF n
  <2> QED BY <1>1, <1>2, <2>2 DEF CopiesOf
<1>5. Asks[c] = {} /\ Asks'[c] = {Received(cmd)}
  BY <1>1, <1>2 DEF Asks, Received
<1>6. Answers'[c] = [reply |-> Store!Fail, own |-> TRUE]
  BY <1>1 DEF Answers, Told, Store!Fail
<1>7. SentCopies[c] = {} /\ SentCopies'[c] = {n}
  BY <1>4 DEF SentCopies
<1>8. Results[c] = {} /\ Results'[c] = {}
  <2>1. \A j \in DOMAIN agreed : agreed[j].by # n
    BY <1>3, ExecutedCalls DEF Executed
  <2> QED BY <1>2, <1>4, <2>1 DEF Results
<1>9. \A d \in Clerk \ {c} :
        /\ Asks'[d] = Asks[d] /\ Answers'[d] = Answers[d]
        /\ SentCopies'[d] = SentCopies[d] /\ Results'[d] = Results[d]
  BY <1>2, <1>3, SameCopies, SameAnswers
<1> HIDE DEF n
<1>10. /\ Asks' = [Asks EXCEPT ![c] = {Received(cmd)}]
       /\ Answers' = [Answers EXCEPT ![c] = [reply |-> Store!Fail, own |-> TRUE]]
       /\ SentCopies' = [SentCopies EXCEPT ![c] = @ \cup {n}]
  <2>1. SentCopies[c] \cup {n} = {n}
    BY <1>7
  <2> QED BY <1>5, <1>6, <1>7, <1>9, <2>1, Functions, Updated
<1>11. Results' = Results
  BY <1>8, <1>9, Functions
<1>12. Store!Sends(c, n, Received(cmd))
  BY <1>3, <1>10 DEF Store!Sends
<1>13. Received(cmd) \in {Received(y) : y \in Command}
  OBVIOUS
<1> QED BY <1>2, <1>3, <1>5, <1>10, <1>11, <1>12, <1>13 DEF Store!Begin

LEMMA ResendStep ==
    ASSUME Types, Types', LogInv, LatestCalls, NEW c \in Clerk, clerk[c].pc = "recv",
           Resends(c), UNCHANGED raftVars
    PROVE  Store!Resend(c)
<1> DEFINE n == Len(handler) + 1
           x == [copy |-> n, cmd |-> Received(clerk[c].cmd)]
<1>1. /\ NewCall(c) /\ clerk'[c].cmd = clerk[c].cmd /\ clerk'[c].first = clerk[c].first
      /\ clerk'[c].code = clerk[c].code /\ clerk'[c].value = clerk[c].value
      /\ clerk'[c].own = clerk[c].own
  BY DEF Resends
<1>2. /\ UNCHANGED <<agreed, did, maps>> /\ clerk'[c].pc = "recv" /\ Len(handler') = n
      /\ handler'[n].clerk = c /\ \A d \in Clerk \ {c} : clerk'[d] = clerk[d]
      /\ \A a \in DOMAIN handler : handler'[a].clerk = handler[a].clerk
  BY <1>1 DEF raftVars, NewCall, OtherClerks, OldCalls, SameCall
<1>3. /\ n \in 1 .. MaxCalls /\ n \notin DOMAIN handler
      /\ Copies' = Copies \cup {x} /\ n \notin {y.copy : y \in Copies}
      /\ \A d \in Clerk \ {c} : CopiesOf(d)' = CopiesOf(d)
  BY <1>1, <1>2, NewCopy
<1>4. CopiesOf(c)' = CopiesOf(c) \cup {n}
  <2>1. clerk[c].first \in 1 .. Len(handler) /\ Len(handler) \in Nat
        /\ DOMAIN handler = 1 .. Len(handler)
    <3>1. clerk[c].call \in clerk[c].first .. Len(handler)
      BY DEF LatestCalls, CopiesOf
    <3>2. clerk[c].first \in Nat \ {0} /\ clerk[c].call \in Nat
      BY DEF Types, ClerkState
    <3>3. Len(handler) \in Nat /\ DOMAIN handler = 1 .. Len(handler)
      BY DEF Types
    <3> QED BY <3>1, <3>2, <3>3
  <2>2. clerk[c].first .. n = (clerk[c].first .. Len(handler)) \cup {n}
    BY <2>1
  <2>3. \A a \in clerk[c].first .. Len(handler) : handler'[a].clerk = handler[a].clerk
    BY <1>2, <2>1
  <2>4. CopiesOf(c)' = {a \in clerk[c].first .. n : handler'[a].clerk = c}
    BY <1>1, <1>2 DEF CopiesOf
  <2>5. CopiesOf(c) = {a \in clerk[c].first .. Len(handler) : handler[a].clerk = c}
    BY DEF CopiesOf
  <2> HIDE DEF n
  <2> QED BY <1>2, <2>2, <2>3, <2>4, <2>5
<1>5. Asks[c] = {Received(clerk[c].cmd)} /\ Asks'[c] = Asks[c]
  BY <1>1, <1>2 DEF Asks, Received
<1>6. Answers'[c] = Answers[c]
  BY <1>1 DEF Answers, Told
<1>7. SentCopies'[c] = SentCopies[c] \cup {n}
  BY <1>4 DEF SentCopies
<1>8. Results'[c] = Results[c]
  <2>1. \A j \in DOMAIN agreed : agreed[j].by # n
    BY <1>3, ExecutedCalls DEF Executed
  <2>2. {j \in DOMAIN agreed : agreed[j].by \in CopiesOf(c)'}
           = {j \in DOMAIN agreed : agreed[j].by \in CopiesOf(c)}
    BY <1>4, <2>1
  <2>3. Results'[c] = {did[i] : i \in {j \in DOMAIN agreed : agreed[j].by \in CopiesOf(c)'}}
    BY <1>2 DEF Results
  <2>4. Results[c] = {did[i] : i \in {j \in DOMAIN agreed : agreed[j].by \in CopiesOf(c)}}
    BY DEF Results
  <2> QED BY <2>2, <2>3, <2>4
<1>9. \A d \in Clerk \ {c} :
        /\ Asks'[d] = Asks[d] /\ Answers'[d] = Answers[d]
        /\ SentCopies'[d] = SentCopies[d] /\ Results'[d] = Results[d]
  BY <1>2, <1>3, SameCopies, SameAnswers
<1> HIDE DEF n
<1>10. SentCopies' = [SentCopies EXCEPT ![c] = @ \cup {n}]
  BY <1>7, <1>9, Functions, Updated
<1>11. Results' = Results /\ Asks' = Asks /\ Answers' = Answers
  BY <1>5, <1>6, <1>8, <1>9, Functions
<1>12. Store!Sends(c, n, Received(clerk[c].cmd))
  BY <1>3, <1>10 DEF Store!Sends
<1> QED BY <1>2, <1>3, <1>5, <1>11, <1>12 DEF Store!Resend

LEMMA EndsCopies ==
    ASSUME Types, Types', NEW c \in Clerk, NEW reply, Ends(c, reply), NEW d \in Clerk \ {c}
    PROVE  CopiesOf(d)' = CopiesOf(d)
<1>1. /\ Len(handler') = Len(handler) /\ clerk'[d] = clerk[d]
      /\ \A a \in DOMAIN handler : handler'[a].clerk = handler[a].clerk
  BY DEF Ends, OtherClerks, OldCalls, SameCall
<1>2. clerk[d].first \in Nat \ {0}
  BY DEF Types, ClerkState
<1>3. DOMAIN handler = 1 .. Len(handler) /\ Len(handler) \in Nat
  BY DEF Types
<1>4. \A a \in clerk[d].first .. Len(handler) : handler'[a].clerk = handler[a].clerk
  BY <1>1, <1>2, <1>3
<1> QED BY <1>1, <1>4 DEF CopiesOf

LEMMA ReturnStep ==
    ASSUME Types, Types', LogInv, LatestCalls, NEW c \in Clerk, clerk[c].pc = "recv",
           NEW reply \in Replies, reply.call = clerk[c].call, IsTold(reply),
           Ends(c, reply), UNCHANGED raftVars
    PROVE  Store!Return(c)
<1>1. /\ UNCHANGED <<agreed, did, maps>> /\ Len(handler') = Len(handler)
      /\ DOMAIN handler' = DOMAIN handler
      /\ \A d \in Clerk \ {c} : clerk'[d] = clerk[d]
      /\ \A a \in DOMAIN handler :
            handler'[a].clerk = handler[a].clerk /\ handler'[a].cmd = handler[a].cmd
  BY EndsDomain DEF raftVars, Ends, OtherClerks, OldCalls, SameCall
<1>2. clerk'[c].pc = "idle" /\ clerk'[c].code = reply.code /\ clerk'[c].value = reply.value
      /\ clerk'[c].own = reply.own
  BY DEF Ends
<1>3. Copies' = Copies
  BY <1>1 DEF Copies, Executed, Received
<1>4. \A d \in Clerk \ {c} : CopiesOf(d)' = CopiesOf(d)
  BY EndsCopies
<1>5. Asks[c] # {} /\ Asks'[c] = {}
  BY <1>2 DEF Asks
<1>6. Answers'[c] = [reply |-> Told(reply), own |-> reply.own]
  BY <1>2 DEF Answers, Told
<1>7. SentCopies'[c] = {} /\ Results'[c] = {}
  BY <1>2 DEF SentCopies, Results, CopiesOf
<1>8. \A d \in Clerk \ {c} :
        /\ Asks'[d] = Asks[d] /\ Answers'[d] = Answers[d]
        /\ SentCopies'[d] = SentCopies[d] /\ Results'[d] = Results[d]
  BY <1>1, <1>4, SameCopies, SameAnswers
<1> DEFINE answer == [reply |-> Told(reply), own |-> reply.own]
<1>9. answer \in Store!Answer
  BY DEF Store!Answer, Store!Outcome, Told, Replies, Code, Held
<1>10. answer.own => answer.reply \in Results[c] \cup {Store!Fail}
  <2> SUFFICES ASSUME reply.own, Told(reply) # Store!Fail PROVE Told(reply) \in Results[c]
    OBVIOUS
  <2>1. PICK j \in DOMAIN agreed : agreed[j].by = reply.call /\ did[j] = Told(reply)
    BY DEF IsTold
  <2>2. agreed[j].by \in CopiesOf(c)
    BY <2>1 DEF LatestCalls
  <2> QED BY <2>1, <2>2 DEF Results
<1>11. Answers'[c] = answer
  BY <1>6
<1> HIDE DEF answer
<1>12. /\ Asks' = [Asks EXCEPT ![c] = {}]
       /\ Answers' = [Answers EXCEPT ![c] = answer]
       /\ SentCopies' = [SentCopies EXCEPT ![c] = {}]
       /\ Results' = [Results EXCEPT ![c] = {}]
  BY <1>5, <1>7, <1>8, <1>11, Functions, Updated
<1> QED BY <1>1, <1>3, <1>5, <1>9, <1>10, <1>12 DEF Store!Return

LEMMA ExecuteStep ==
    ASSUME Types, Types', LogInv, MapInv, MapInv', NEW l \in Server, Commit(l)
    PROVE  \E x \in Copies : Store!Execute(x)
<1> DEFINE n == Len(agreed) + 1
           entry == log[l][n]
           a == entry.by
           x == [copy |-> a, cmd |-> entry.cmd]
           result == Store!Result(Last(maps), entry.cmd)
<1>1. /\ n \in Nat /\ DOMAIN agreed = 1 .. Len(agreed) /\ Len(agreed) \in Nat
      /\ DOMAIN agreed' = (1 .. Len(agreed)) \cup {n}
      /\ agreed'[n] = entry /\ Accepted(entry)
      /\ \A i \in DOMAIN agreed : agreed'[i] = agreed[i] /\ agreed[i].by # a
  <2>1. DOMAIN agreed = 1 .. Len(agreed) /\ Len(agreed) \in Nat
    BY DEF Types
  <2>2. /\ DOMAIN agreed' = 1 .. n /\ agreed'[n] = entry /\ Accepted(entry)
        /\ \A i \in DOMAIN agreed : agreed'[i] = agreed[i] /\ agreed[i].by # a
    BY CommitAdds
  <2>3. 1 .. n = (1 .. Len(agreed)) \cup {n} /\ n \in Nat
    BY <2>1
  <2> QED BY <2>1, <2>2, <2>3
<1>2. a \in DOMAIN handler \ Executed /\ entry.cmd = Received(handler[a].cmd)
  BY <1>1 DEF Executed, Accepted
<1>3. UNCHANGED <<handler, clerk>>
  BY DEF Commit, callVars
<1>4. Executed' = Executed \cup {a}
  <2> HIDE DEF entry, n
  <2> QED BY <1>1 DEF Executed
<1>5. x \in Copies /\ Copies' = Copies \ {x}
  <2>1. x \in Copies
    BY <1>2 DEF Copies
  <2>2. Copies' = {[copy |-> b, cmd |-> Received(handler[b].cmd)] :
                      b \in (DOMAIN handler \ Executed) \ {a}}
    BY <1>3, <1>4 DEF Copies, Received
  <2>3. \A b \in DOMAIN handler :
          [copy |-> b, cmd |-> Received(handler[b].cmd)] = x <=> b = a
    BY <1>2
  <2> HIDE DEF a, x
  <2> QED BY <2>1, <2>2, <2>3 DEF Copies
<1>6. /\ maps \in Seq([Key -> Held]) /\ Len(maps) = n
      /\ maps' = Append(maps, Store!Effect(Last(maps), entry.cmd))
      /\ did' = Append(did, result)
      /\ did \in Seq(Store!Outcome) /\ Len(did) = Len(agreed)
      /\ Last(maps) \in [Key -> Held]
  <2>1. maps \in Seq([Key -> Held]) /\ Len(maps) = n
    BY DEF Types, MapInv, Histories
  <2>2. Last(maps) = maps[n] /\ maps[n] \in [Key -> Held]
    BY <1>1, <2>1 DEF Last
  <2>3. did \in Seq(Store!Outcome) /\ Len(did) = Len(agreed)
    BY DEF MapInv, Histories
  <2>4. /\ maps' = Append(maps, Store!Effect(Last(maps), entry.cmd))
        /\ did' = Append(did, result)
    BY DEF Commit
  <2> QED BY <2>1, <2>2, <2>3, <2>4
<1>7. entry.cmd \in Request
  BY CommitAdds DEF Entry
<1>8. Last(maps') = Store!Effect(Last(maps), entry.cmd)
  <2>1. Store!Effect(Last(maps), entry.cmd) \in [Key -> Held]
    BY <1>6, <1>7, EffectType
  <2> DEFINE map == Store!Effect(Last(maps), entry.cmd)
  <2> HIDE DEF map
  <2>2. Len(maps') = n + 1 /\ maps'[n + 1] = map
    BY <1>6, <2>1, AppendProperties DEF map
  <2> QED BY <2>2 DEF Last, map
<1>9. did'[n] = result /\ \A i \in DOMAIN agreed : did'[i] = did[i]
  <2>1. result \in Store!Outcome
    BY <1>6, <1>7, ResultIsOutcome
  <2> HIDE DEF result
  <2> QED BY <1>1, <1>6, <2>1, AppendProperties
<1>10. \A c \in Clerk : CopiesOf(c)' = CopiesOf(c)
  BY <1>3 DEF CopiesOf
<1>11. Asks' = Asks /\ Answers' = Answers /\ SentCopies' = SentCopies
  BY <1>3, <1>10 DEF Asks, Answers, SentCopies, Told, Received
<1>12. \A c \in Clerk :
         Results'[c] = IF a \in SentCopies[c] THEN Results[c] \cup {result} ELSE Results[c]
  <2> TAKE c \in Clerk
  <2>1. Results'[c] = {did'[i] : i \in {j \in DOMAIN agreed' : agreed'[j].by \in CopiesOf(c)}}
    BY <1>10 DEF Results
  <2>2. Results[c] = {did[i] : i \in {j \in DOMAIN agreed : agreed[j].by \in CopiesOf(c)}}
    BY DEF Results
  <2>3. SentCopies[c] = CopiesOf(c)
    BY DEF SentCopies
  <2>4. n \notin DOMAIN agreed /\ DOMAIN agreed' = DOMAIN agreed \cup {n}
        /\ agreed'[n].by = a
    BY <1>1
  <2> HIDE DEF a, entry, result, n
  <2>5. CASE a \in CopiesOf(c)
    <3>1. {j \in DOMAIN agreed' : agreed'[j].by \in CopiesOf(c)}
             = {j \in DOMAIN agreed : agreed[j].by \in CopiesOf(c)} \cup {n}
      BY <1>1, <2>4, <2>5
    <3> QED BY <1>9, <2>1, <2>2, <2>3, <2>5, <3>1
  <2>6. CASE a \notin CopiesOf(c)
    <3>1. {j \in DOMAIN agreed' : agreed'[j].by \in CopiesOf(c)}
             = {j \in DOMAIN agreed : agreed[j].by \in CopiesOf(c)}
      BY <1>1, <2>4, <2>6
    <3> QED BY <1>9, <2>1, <2>2, <2>3, <2>6, <3>1
  <2> QED BY <2>5, <2>6
<1>13. x.copy = a /\ x.cmd = entry.cmd
  OBVIOUS
<1> HIDE DEF x, a, entry
<1>14. Results' = [c \in Clerk |->
                     IF x.copy \in SentCopies[c]
                     THEN Results[c] \cup {Store!Result(Last(maps), x.cmd)} ELSE Results[c]]
  <2>1. \A c \in Clerk : Results'[c] =
          IF x.copy \in SentCopies[c]
          THEN Results[c] \cup {Store!Result(Last(maps), x.cmd)} ELSE Results[c]
    BY <1>12, <1>13
  <2>2. Results' = [c \in Clerk |-> Results'[c]]
    BY Functions
  <2> QED BY <2>1, <2>2
<1>15. Store!Execute(x)
  BY <1>5, <1>8, <1>11, <1>13, <1>14 DEF Store!Execute
<1> QED BY <1>5, <1>15

LEMMA SameCallsCopies ==
    ASSUME Types, SameCalls, NEW c \in Clerk
    PROVE  CopiesOf(c)' = CopiesOf(c)
<1>1. clerk[c].first \in Nat \ {0}
  BY DEF Types, ClerkState
<1>2. DOMAIN handler = 1 .. Len(handler) /\ Len(handler) \in Nat
  BY DEF Types
<1>3. \A a \in clerk[c].first .. Len(handler) : handler'[a].clerk = handler[a].clerk
  BY <1>1, <1>2 DEF SameCalls
<1>4. clerk' = clerk /\ Len(handler') = Len(handler)
  BY DEF SameCalls
<1> QED BY <1>3, <1>4 DEF CopiesOf

\* Handlers, and what Raft does but for commits, do not show.
LEMMA HiddenStep ==
    ASSUME Types, SameCalls, UNCHANGED <<agreed, did, maps>>
    PROVE  UNCHANGED Store!storeVars
<1>1. \A c \in Clerk : CopiesOf(c)' = CopiesOf(c)
  BY SameCallsCopies
<1>2. SentCopies' = SentCopies /\ Results' = Results
  BY <1>1 DEF SentCopies, Results
<1>3. Asks' = Asks /\ Answers' = Answers
  BY DEF SameCalls, Asks, Answers, Told, Received
<1>4. Copies' = Copies
  BY DEF SameCalls, Copies, Executed, Received
<1> QED BY <1>2, <1>3, <1>4 DEF Store!storeVars

LEMMA NewCallLatest ==
    ASSUME Types, Types', LogInv, LatestCalls, NEW c \in Clerk, NewCall(c), UNCHANGED agreed,
           clerk'[c].first \in 1 .. Len(handler) + 1
    PROVE  LatestCalls'
<1> SUFFICES ASSUME NEW d \in Clerk, clerk'[d].pc = "recv"
             PROVE  clerk'[d].call \in CopiesOf(d)'
  BY DEF LatestCalls
<1>1. CASE d = c
  <2>1. /\ Len(handler) + 1 \in clerk'[c].first .. Len(handler')
        /\ handler'[Len(handler) + 1].clerk = c /\ clerk'[c].call = Len(handler) + 1
    BY DEF NewCall, Types
  <2> QED BY <1>1, <2>1 DEF CopiesOf
<1>2. CASE d # c
  <2>1. clerk'[d] = clerk[d]
    BY <1>2 DEF NewCall, OtherClerks
  <2> QED BY <1>2, <2>1, NewCopy DEF LatestCalls
<1> QED BY <1>1, <1>2

LEMMA ResendsLatest ==
    ASSUME Types, Types', LogInv, LatestCalls, NEW c \in Clerk, clerk[c].pc = "recv", Resends(c),
           UNCHANGED agreed
    PROVE  LatestCalls'
<1>1. clerk[c].call \in clerk[c].first .. Len(handler)
  BY DEF LatestCalls, CopiesOf
<1>2. clerk[c].first \in Nat \ {0} /\ clerk[c].call \in Nat
  BY DEF Types, ClerkState
<1>3. Len(handler) \in Nat
  BY DEF Types
<1>4. clerk'[c].first \in 1 .. Len(handler) + 1
  BY <1>1, <1>2, <1>3 DEF Resends
<1> QED BY <1>4, NewCallLatest DEF Resends

LEMMA EndsLatest ==
    ASSUME Types, Types', LatestCalls, NEW c \in Clerk, NEW reply, Ends(c, reply)
    PROVE  LatestCalls'
<1> SUFFICES ASSUME NEW d \in Clerk, clerk'[d].pc = "recv"
             PROVE  clerk'[d].call \in CopiesOf(d)'
  BY DEF LatestCalls
<1>1. d # c /\ clerk'[d] = clerk[d]
  BY DEF Ends, OtherClerks
<1> QED BY <1>1, EndsCopies DEF LatestCalls

StoreInv == LogInv /\ MapInv /\ ConnInv /\ OwnReplies /\ LatestCalls

Maps == Store!Next \/ UNCHANGED Store!storeVars

\* A clerk's call has returned.
LEMMA ClerkReturns ==
    ASSUME Types, Types', StoreInv, NEW c \in Clerk, clerk[c].pc = "recv", NEW reply \in Replies,
           reply.call = clerk[c].call, IsTold(reply), Ends(c, reply) \/ Resends(c),
           UNCHANGED raftVars
    PROVE  Maps /\ LatestCalls'
<1>1. CASE Ends(c, reply)
  <2>1. Store!Return(c)
    BY <1>1, ReturnStep DEF StoreInv
  <2> QED BY <1>1, <2>1, EndsLatest DEF StoreInv, Maps, Store!Next
<1>2. CASE Resends(c)
  <2>1. Store!Resend(c)
    BY <1>2, ResendStep DEF StoreInv
  <2> QED BY <1>2, <2>1, ResendsLatest DEF StoreInv, Maps, Store!Next, raftVars
<1> QED BY <1>1, <1>2

LEMMA ReceivesMaps ==
    ASSUME Types, Types', StoreInv, NEW c \in Clerk, ClerkReceives(c)
    PROVE  Maps /\ LatestCalls'
<1> DEFINE s == clerk[c].host
           reply == Head(inbox[c][s])
<1>1. s \in Server /\ clerk[c].pc = "recv" /\ inbox[c][s] # <<>> /\ UNCHANGED raftVars
  BY DEF Types, ClerkState, ClerkReceives
<1>2. reply \in Replies /\ (Ends(c, reply) \/ Resends(c))
  BY ClerkReceivesEnds
<1>3. reply = inbox[c][s][1]
  <2>1. inbox[c][s] \in Seq(Replies)
    BY <1>1 DEF Types
  <2> QED BY <1>1, <2>1
<1>4. reply.call = clerk[c].call /\ IsTold(reply)
  BY <1>1, <1>3 DEF StoreInv, ConnInv, OnlyReplies, OwnReplies
<1> HIDE DEF reply
<1> QED BY <1>1, <1>2, <1>4, ClerkReturns

LEMMA CaughtMaps ==
    ASSUME Types, Types', StoreInv, NEW c \in Clerk, ClerkTimesOut(c) \/ ClerkCatches(c)
    PROVE  Maps /\ LatestCalls'
<1> DEFINE reply == WrongLeader(clerk[c].call)
<1>1. clerk[c].pc = "recv" /\ Caught(c) /\ UNCHANGED raftVars
  BY DEF ClerkTimesOut, ClerkCatches
<1>2. reply \in Replies /\ (Ends(c, reply) \/ Resends(c))
  BY <1>1, CaughtEnds
<1>3. reply.call = clerk[c].call /\ IsTold(reply)
  BY ResultCall, WrongLeaderIsTold
<1> HIDE DEF reply
<1> QED BY <1>1, <1>2, <1>3, ClerkReturns

LEMMA CallsMaps ==
    ASSUME Types, Types', StoreInv, NEW c \in Clerk, NEW cmd \in Command, ClerkCalls(c, cmd)
    PROVE  Maps /\ LatestCalls'
<1>1. Store!Begin(c)
  BY BeginStep DEF StoreInv
<1>2. NewCall(c) /\ clerk'[c].first = Len(handler) + 1 /\ UNCHANGED agreed
  BY ClerkCallsIsNewCall DEF ClerkCalls, raftVars
<1>3. clerk'[c].first \in 1 .. Len(handler) + 1
  BY <1>2 DEF Types
<1> QED BY <1>1, <1>2, <1>3, NewCallLatest DEF StoreInv, Maps, Store!Next

LEMMA HiddenMaps ==
    ASSUME Types, StoreInv, SameCalls, UNCHANGED <<agreed, did, maps>>
    PROVE  Maps /\ LatestCalls'
<1>1. LatestCalls'
  BY SameCallsCopies DEF StoreInv, LatestCalls, SameCalls
<1> QED BY <1>1, HiddenStep DEF Maps

LEMMA CommitSteps ==
    ASSUME Types, Types', StoreInv, MapInv', NEW l \in Server, Commit(l)
    PROVE  Maps /\ LatestCalls'
<1>1. \E x \in Copies : Store!Execute(x)
  BY ExecuteStep DEF StoreInv
<1>2. LatestCalls'
  BY DEF StoreInv, LatestCalls, CopiesOf, Commit, callVars
<1> QED BY <1>1, <1>2 DEF Maps, Store!Next

LEMMA StoreStep ==
    ASSUME Types, Types', StoreInv, MapInv', Next
    PROVE  Maps /\ LatestCalls'
<1>1. ASSUME NEW a \in DOMAIN handler, Refuse(a) \/ Start(a) \/ Register(a)
      PROVE  Maps /\ LatestCalls'
  <2>1. SameCalls
    BY <1>1, RefuseMoves, StartMoves, RegisterMoves
  <2>2. UNCHANGED <<agreed, did, maps>>
    BY <1>1 DEF Refuse, Start, Register, raftVars
  <2> QED BY <2>1, <2>2, HiddenMaps
<1>2. ASSUME NEW s \in Server, Apply(s) \/ Restart(s) PROVE Maps /\ LatestCalls'
  <2>1. SameCalls
    BY <1>2, ApplyMoves, RestartMoves
  <2>2. UNCHANGED <<agreed, did, maps>>
    BY <1>2 DEF Apply, Restart, raftVars
  <2> QED BY <2>1, <2>2, HiddenMaps
<1>3. ASSUME NEW s \in Server, Lead(s) \/ \E l \in Server : Follow(s, l)
      PROVE  Maps /\ LatestCalls'
  <2>1. UNCHANGED <<agreed, did, maps>> /\ UNCHANGED callVars
    BY <1>3 DEF Lead, Follow
  <2>2. SameCalls
    BY <2>1 DEF SameCalls, callVars
  <2> QED BY <2>1, <2>2, HiddenMaps
<1> QED BY <1>1, <1>2, <1>3, CallsMaps, ReceivesMaps, CaughtMaps, CommitSteps DEF Next

LEMMA InitMaps == Init => Store!Init /\ LatestCalls
<1> SUFFICES ASSUME Init PROVE Store!Init /\ LatestCalls
  OBVIOUS
<1>1. /\ handler = <<>> /\ agreed = <<>> /\ maps = <<[k \in Key |-> NoValue]>>
      /\ clerk = [c \in Clerk |-> IdleClerk]
  BY DEF Init
<1>2. \A c \in Clerk : clerk[c].pc = "idle" /\ clerk[c].code = "ERR_WRONG_LEADER"
                       /\ clerk[c].value = NoValue /\ clerk[c].own = TRUE
  BY <1>1 DEF IdleClerk
<1>3. Last(maps) = [k \in Key |-> NoValue]
  BY <1>1 DEF Last
<1>4. Copies = {}
  BY <1>1 DEF Copies
<1>5. Asks = [c \in Clerk |-> {}] /\ SentCopies = [c \in Clerk |-> {}]
      /\ Results = [c \in Clerk |-> {}]
  BY <1>2 DEF Asks, SentCopies, Results, CopiesOf
<1>6. Answers = [c \in Clerk |-> [reply |-> Store!Fail, own |-> TRUE]]
  <2>1. \A c \in Clerk : [reply |-> Told(clerk[c]), own |-> clerk[c].own]
                            = [reply |-> Store!Fail, own |-> TRUE]
    BY <1>2 DEF Told, Store!Fail
  <2> QED BY <2>1 DEF Answers
<1>7. LatestCalls
  BY <1>2 DEF LatestCalls
<1> QED BY <1>3, <1>4, <1>5, <1>6, <1>7 DEF Store!Init

(* ImplementsStore: whatever lags, restarts, is elected or times out, and  *)
(* however often a request is sent, the servers and their clerks are one   *)
(* map to those who use it, but for the answers that putAppend and get     *)
(* take for their own (KVRaft.cpp:38, 61).                                 *)
THEOREM StoreIsImplemented == Spec => ImplementsStore
<1>1. Init => Store!Init /\ LatestCalls
  BY InitMaps
<1>2. Types /\ Types' /\ StoreInv /\ MapInv' /\ [Next]_vars => Maps /\ LatestCalls'
  <2>1. ASSUME Types, StoreInv, UNCHANGED vars PROVE Maps /\ LatestCalls'
    <3>1. SameCalls /\ UNCHANGED <<agreed, did, maps>>
      BY <2>1 DEF vars, raftVars, callVars, SameCalls
    <3> QED BY <2>1, <3>1, HiddenMaps
  <2> QED BY <2>1, StoreStep
<1>3. Maps => [Store!Next]_(Store!storeVars)
  BY DEF Maps
<1>4. LogInv /\ MapInv /\ ConnInv /\ OwnReplies /\ LatestCalls => StoreInv
  BY DEF StoreInv
<1>5. Spec => []LatestCalls
  BY <1>1, <1>2, <1>4, TypeCorrect, LogInvariant, MapInvariant, ConnInvariant, ReplyInvariant, PTL
     DEF Spec
<1> QED BY <1>1, <1>2, <1>3, <1>4, <1>5, TypeCorrect, LogInvariant, MapInvariant, ConnInvariant,
           ReplyInvariant, PTL DEF Spec, ImplementsStore, Store!Spec
=============================================================================
