------------------------------- MODULE MCRaft -------------------------------
(***************************************************************************)
(* Model checking of Raft on two or three servers.  `Spec' starts with the *)
(* first start of the group.  `SpecElected' starts at the end of a first   *)
(* undisturbed election and `SpecDiverged' where two logs have parted:     *)
(* both are reachable states of Spec, so that bounded runs get further     *)
(* into replication.                                                       *)
(***************************************************************************)
EXTENDS Raft, TLC

CONSTANTS s1, s2, s3, c1

Servers2  == {s1, s2}
Servers3  == {s1, s2, s3}
\* Nothing readable, or an entry that was popped from the deque before.
OneStaleEntry == {NoEntry, [index |-> 1, term |-> 1, command |-> c1]}
Symmetric == Permutations(Servers3)
Followers == Permutations({s2, s3})

\* s1 has won term 1 with the votes of both others and joined its threads.
InitElected ==
    /\ proc = [s \in Server |-> "up"]
    /\ currentTerm = [s \in Server |-> 1]
    /\ votedFor = [s \in Server |-> s1]
    /\ state = [s \in Server |-> IF s = s1 THEN LEADER ELSE FOLLOWER]
    /\ logs = [s \in Server |-> <<>>]
    /\ commitIndex = [s \in Server |-> 0]
    /\ lastApplied = [s \in Server |-> 0]
    /\ nextIndex = [s \in Server |-> [p \in Server |-> IF s = s1 THEN 1 ELSE 0]]
    /\ matchIndex = [s \in Server |-> [p \in Server |-> 0]]
    /\ logBuf = [s \in Server |-> <<>>]
    /\ lastInBufLogId = [s \in Server |-> 0]
    /\ md = [s \in Server |-> [term |-> 1, vote |-> s1]]
    /\ chunks = [s \in Server |-> <<>>]
    /\ election = [s \in Server |-> NoElection]
    /\ repl = [s \in Server |-> [p \in Server |-> Replicator("idle")]]
    /\ applier = [s \in Server |-> IdleApplier]
    /\ net = {}
    /\ faults = 0
    /\ voted = {[voter |-> s, term |-> 1, cand |-> s1] : s \in Server}
    /\ elected = {[server |-> s1, term |-> 1]}
    /\ metaLost = {}

SpecElected == InitElected /\ [][Next]_vars

\* Logs that have parted.  s2 led term 1: it committed entry 1, and s1 never saw
\* its entry 2.  s1 led term 2 and gave its own entry 2 to nobody.  s2 has now won
\* term 3, so that it begins to replicate after the entries that differ.
OldEntry(i, t) == [index |-> i, term |-> t, command |-> c1]
OldLeader(t) == IF t = 2 THEN s1 ELSE s2

InitDiverged ==
    /\ proc = [s \in Server |-> "up"]
    /\ currentTerm = [s \in Server |-> 3]
    /\ votedFor = [s \in Server |-> s2]
    /\ state = [s \in Server |-> IF s = s2 THEN LEADER ELSE FOLLOWER]
    /\ logs = [s \in Server |-> <<OldEntry(1, 1), OldEntry(2, IF s = s1 THEN 2 ELSE 1)>>]
    /\ commitIndex = [s \in Server |-> IF s = s1 THEN 0 ELSE 1]
    /\ lastApplied = commitIndex
    /\ nextIndex = [s \in Server |-> [p \in Server |-> IF s = s1 THEN 2 ELSE 3]]
    /\ matchIndex = [s \in Server |-> [p \in Server |-> 0]]
    /\ logBuf = [s \in Server |-> IF s = s1 THEN <<>> ELSE <<OldEntry(1, 1)>>]
    /\ lastInBufLogId = commitIndex
    /\ md = [s \in Server |-> [term |-> 3, vote |-> s2]]
    /\ chunks = [s \in Server |-> <<>>]
    /\ election = [s \in Server |-> NoElection]
    /\ repl = [s \in Server |-> [p \in Server |-> Replicator("idle")]]
    /\ applier = [s \in Server |-> IdleApplier]
    /\ net = {}
    /\ faults = 0
    /\ voted = {[voter |-> s, term |-> t, cand |-> OldLeader(t)] : s \in Server, t \in 1..3}
    /\ elected = {[server |-> OldLeader(t), term |-> t] : t \in 1..3}
    /\ metaLost = {}

SpecDiverged == InitDiverged /\ [][Next]_vars
=============================================================================
