------------------------------- MODULE KVStore -------------------------------
(***************************************************************************)
(* What the key-value service promises to a clerk (doc/KVRaft.md): a map   *)
(* that each request changes or reads at one moment.  A clerk may send a   *)
(* request more than once and give up before all copies are executed, so a *)
(* copy may still be executed after the request has failed or succeeded.   *)
(***************************************************************************)
EXTENDS Integers, FiniteSets

CONSTANTS
    Clerk,        \* the clients
    Copy,         \* names of the copies that are sent
    Key, Value,
    Command,      \* the requests, as the servers read them
    NoValue       \* what a key without a value holds

VARIABLES
    store,        \* the map
    copies,       \* the copies sent and not executed, each with its request
    asks,         \* the request whose end a clerk waits for, if it waits for one
    sent,         \* the copies of that request
    results,      \* what those of them that were executed did
    told          \* what a clerk was told last

storeVars == <<store, copies, asks, sent, results, told>>

Outcome ==
    [code : {"SUCCEED", "ERR_NO_KEY", "ERR_WRONG_LEADER"}, value : Value \cup {NoValue}]

Fail == [code |-> "ERR_WRONG_LEADER", value |-> NoValue]

\* PUT and APPEND both assign.
Effect(map, cmd) ==
    IF cmd.op = "GET" THEN map ELSE [map EXCEPT ![cmd.key] = cmd.value]

Result(map, cmd) ==
    LET isGet == cmd.op = "GET"
        value == IF isGet THEN map[cmd.key] ELSE NoValue
    IN [code |-> IF isGet /\ value = NoValue THEN "ERR_NO_KEY" ELSE "SUCCEED", value |-> value]

Answer == [reply : Outcome, own : BOOLEAN]

Init ==
    /\ store = [k \in Key |-> NoValue]
    /\ copies = {}
    /\ asks = [c \in Clerk |-> {}]
    /\ sent = [c \in Clerk |-> {}]
    /\ results = [c \in Clerk |-> {}]
    /\ told = [c \in Clerk |-> [reply |-> Fail, own |-> TRUE]]

\* A copy is sent that no other bears the name of.
Sends(c, a, cmd) ==
    /\ sent' = [sent EXCEPT ![c] = @ \cup {a}]
    /\ a \notin {x.copy : x \in copies}
    /\ copies' = copies \cup {[copy |-> a, cmd |-> cmd]}

\* A request begins with its first copy.
Begin(c) ==
    /\ asks[c] = {}
    /\ \E cmd \in Command :
          /\ asks' = [asks EXCEPT ![c] = {cmd}]
          /\ \E a \in Copy : Sends(c, a, cmd)
    /\ told' = [told EXCEPT ![c] = [reply |-> Fail, own |-> TRUE]]
    /\ UNCHANGED <<store, results>>

Resend(c) ==
    /\ \E cmd \in asks[c] : \E a \in Copy : Sends(c, a, cmd)
    /\ UNCHANGED <<store, asks, results, told>>

\* The result goes to the clerk that still waits for this request.
Execute(x) ==
    /\ copies' = copies \ {x}
    /\ store' = Effect(store, x.cmd)
    /\ results' = [c \in Clerk |->
                     IF x.copy \in sent[c]
                     THEN results[c] \cup {Result(store, x.cmd)} ELSE results[c]]
    /\ UNCHANGED <<asks, sent, told>>

\* A clerk is told what one of its copies did, or that it failed.  The exception:
\* it is told what another request did.
Return(c) ==
    /\ asks[c] # {}
    /\ asks' = [asks EXCEPT ![c] = {}]
    /\ \E answer \in Answer :
          /\ answer.own => answer.reply \in results[c] \cup {Fail}
          /\ told' = [told EXCEPT ![c] = answer]
    /\ sent' = [sent EXCEPT ![c] = {}]
    /\ results' = [results EXCEPT ![c] = {}]
    /\ UNCHANGED <<store, copies>>

Next ==
    \/ \E c \in Clerk : Begin(c) \/ Resend(c) \/ Return(c)
    \/ \E x \in copies : Execute(x)

Spec == Init /\ [][Next]_storeVars
=============================================================================
