------------------------------- MODULE Voting -------------------------------
(***************************************************************************)
(* What the election of raft.cpp promises, whatever messages, threads and  *)
(* restarts do: a server gives at most one candidate its vote in a term,   *)
(* and nobody wins a term without the votes of a majority.  A server that  *)
(* was killed while it replaced its meta.dat has forgotten its votes and   *)
(* is bound by nothing.                                                    *)
(***************************************************************************)
EXTENDS Integers, FiniteSets

CONSTANTS Server, Term

VARIABLES
    ballots,      \* the votes given
    winners,      \* the candidates that took office, and in which term
    forgetful     \* the servers whose saved vote was lost

vars == <<ballots, winners, forgetful>>

Majority(Q) == Cardinality(Q) > Cardinality(Server) \div 2

MayVote(v, t, c) ==
    v \in forgetful \/ \A b \in ballots : b.voter = v /\ b.term = t => b.cand = c

Init == ballots = {} /\ winners = {} /\ forgetful = {}

Vote(v, t, c) ==
    /\ ballots' = ballots \cup {[voter |-> v, term |-> t, cand |-> c]}
    /\ MayVote(v, t, c)
    /\ UNCHANGED <<winners, forgetful>>

Win(c, t) ==
    /\ winners' = winners \cup {[server |-> c, term |-> t]}
    /\ \E Q \in SUBSET Server :
          /\ Majority(Q)
          /\ \A v \in Q : [voter |-> v, term |-> t, cand |-> c] \in ballots
    /\ UNCHANGED <<ballots, forgetful>>

Forget(v) ==
    /\ forgetful' = forgetful \cup {v}
    /\ UNCHANGED <<ballots, winners>>

Next ==
    \/ \E v, c \in Server, t \in Term : Vote(v, t, c)
    \/ \E c \in Server, t \in Term : Win(c, t)
    \/ \E v \in Server : Forget(v)

Spec == Init /\ [][Next]_vars
=============================================================================
