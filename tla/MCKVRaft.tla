------------------------------ MODULE MCKVRaft ------------------------------
(***************************************************************************)
(* Model checking of KVRaft: two clerks, one of which may write a value    *)
(* that has a blank in it.                                                 *)
(***************************************************************************)
EXTENDS KVRaft, TLC

CONSTANTS c1, c2, k, v, blank

Clerks == {c1, c2}
Values == {v, blank}
Words == [x \in Values |-> IF x = blank THEN v ELSE x]

Get == [op |-> "GET", key |-> k]
Add(x) == [op |-> "APPEND", key |-> k, value |-> x]

Commands == {Get, Add(blank)}

\* Server 0 has won the first election.
LedInit ==
    /\ um = [s \in Server |-> [x \in Key |-> NoValue]]
    /\ lastApplyIndex = [s \in Server |-> 0]
    /\ putWait = [s \in Server |-> {}] /\ getWait = [s \in Server |-> {}]
    /\ log = [s \in Server |-> <<>>] /\ agreed = <<>>
    /\ maps = <<[x \in Key |-> NoValue]>> /\ did = <<>>
    /\ leads = [s \in Server |-> IF s = 0 THEN 1 ELSE 0] /\ term = 1
    /\ faults = 0
    /\ handler = <<>>
    /\ inbox = [c \in Clerk |-> [s \in Server |-> <<>>]]
    /\ clerk = [c \in Clerk |-> IdleClerk]

LedSpec == LedInit /\ [][Next]_vars

Symmetry == Permutations(Clerks)
=============================================================================
