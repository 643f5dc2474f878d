---------------------------- MODULE MCShardCtrler ----------------------------
(***************************************************************************)
(* Model checking of ShardCtrler: three groups, and the commands that the  *)
(* tests send, a join of several groups among them.                        *)
(***************************************************************************)
EXTENDS ShardCtrler, TLC

CONSTANTS t1, t2

OneThread == {t1}
TwoThreads == {t1, t2}

JoinOf(gids) == [op |-> "JOIN", gids |-> gids]
LeaveOf(gids) == [op |-> "LEAVE", gids |-> gids]
MoveOf(sid, gid) == [op |-> "MOVE", shard |-> sid, gid |-> gid]
QueryOf(cn) == [op |-> "QUERY", configNum |-> cn]

Commands5 ==
    {JoinOf({1}), JoinOf({2, 3}), LeaveOf({2}), MoveOf(0, 1), QueryOf(LATEST_CONFIG_NUM)}

\* Groups 1, 2 and 3 with that many shards.
Spread(a, b, c) ==
    [g \in 1 .. 3 |-> CASE g = 1 -> 1 .. a
                        [] g = 2 -> a + 1 .. a + b
                        [] g = 3 -> a + b + 1 .. a + b + c]

\* What the loops of handleJoin compute for three groups, whatever their loads:
\* every shard stays, and the loads differ by one at most.
ASSUME BalancedIsLevel ==
    \A a, b, c \in 0 .. 5 :
        LET held == Balanced(Spread(a, b, c))
        IN /\ UNION {held[g] : g \in 1 .. 3} = 1 .. a + b + c
           /\ \A g, h \in 1 .. 3 : Cardinality(held[g]) - Cardinality(held[h]) <= 1
           /\ Cardinality(held[1]) + Cardinality(held[2]) + Cardinality(held[3]) = a + b + c

\* Whichever groups leave, wherever the shards of three groups are, every shard has a
\* group as long as there is one.
ASSUME LeavesStayWhole ==
    \A owner \in [Shard -> 1 .. 3] : \A gids \in SUBSET (1 .. 3) :
        IsWhole(Leave(Config([g \in 1 .. 3 |-> {s \in Shard : owner[s] = g}], owner, 1 .. 3), gids))

Symmetry == Permutations(TwoThreads)
=============================================================================
