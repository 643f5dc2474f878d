--------------------------- MODULE ElectionThreads ---------------------------
(***************************************************************************)
(* The threads by which one server looks for a leader, runs elections and  *)
(* sends heartbeats (src/src/raft/raft.cpp): who starts them, when they    *)
(* end, and how the calling threads of an election wake the one that waits *)
(* for them.                                                               *)
(*                                                                         *)
(* The other servers are what arrives from them.  Raft.tla has the terms   *)
(* and votes, and takes for granted that these threads do their work.      *)
(***************************************************************************)
EXTENDS Integers, FiniteSets

CONSTANTS
    Peer,           \* the other servers
    MaxCampaigns,   \* bound: election timeouts
    MaxTurns        \* bound: RPCs that end a candidacy or a leadership

ASSUME ThreadsAssumption ==
    IsFiniteSet(Peer) /\ MaxCampaigns \in Nat /\ MaxTurns \in Nat

VARIABLES
    state,       \* state_
    isExit,      \* isExit_, which the destructor sets
    watchers,    \* how many threads are in async_checkLeaderStatus
    beaters,     \* how many in async_sendHeartBeats
    electors,    \* how many were started to run async_startElection, and have yet to
    election,    \* where the one is that has set inElection_
    caller,      \* where its calling threads are
    voteCnt, finishCnt,
    missed,      \* history: the last notify fell between the test and the sleep of the wait
    campaigns, turns

callVars == <<caller, voteCnt, finishCnt>>
vars == <<state, isExit, watchers, beaters, electors, election, callVars, missed, campaigns, turns>>

RaftNum == Cardinality(Peer) + 1

Init ==
    /\ state = "FOLLOWER" /\ isExit = FALSE
    /\ watchers = 1 /\ beaters = 0 /\ electors = 0
    /\ election = "none"
    /\ caller = [p \in Peer |-> "joined"]
    /\ voteCnt = 0 /\ finishCnt = 0
    /\ missed = FALSE
    /\ campaigns = 0 /\ turns = 0

-----------------------------------------------------------------------------
\* Leaders come and go.

MutantSwitchToFollow == state' = "FOLLOWER" /\ watchers' = watchers

\* switchToFollow: it starts a thread, whether or not an older one still runs.
SwitchToFollow == state' = "FOLLOWER" /\ watchers' = watchers + 1

\* requestVote with a newer term, or appendEntries of a leader.
HearsOfAnother ==
    /\ ~isExit
    /\ turns < MaxTurns
    /\ turns' = turns + 1
    /\ state # "FOLLOWER"
    /\ SwitchToFollow
    /\ UNCHANGED <<isExit, beaters, electors, election, callVars, missed, campaigns>>

\* async_checkLeaderStatus finds the leader silent: switchToCandidate starts a thread.
WatcherCampaigns ==
    /\ ~isExit
    /\ watchers > 0
    /\ state # "LEADER"
    /\ campaigns < MaxCampaigns
    /\ campaigns' = campaigns + 1
    /\ state' = "CANDIDAE"
    /\ electors' = electors + 1
    /\ UNCHANGED <<isExit, watchers, beaters, election, callVars, missed, turns>>

\* It ends where it sees isExit_, or itself the leader.
WatcherEnds ==
    /\ watchers > 0
    /\ isExit \/ state = "LEADER"
    /\ watchers' = watchers - 1
    /\ UNCHANGED <<state, isExit, beaters, electors, election, callVars, missed, campaigns, turns>>

MutantBeaterEnds ==
    /\ beaters > 0
    /\ state # "LEADER"
    /\ beaters' = beaters - 1
    /\ UNCHANGED <<state, isExit, watchers, electors, election, callVars, missed, campaigns, turns>>

\* async_sendHeartBeats ends where it sees isExit_, or that it is not the leader.
BeaterEnds ==
    /\ beaters > 0
    /\ isExit \/ state # "LEADER"
    /\ beaters' = beaters - 1
    /\ UNCHANGED <<state, isExit, watchers, electors, election, callVars, missed, campaigns, turns>>

\* The destructor; no thread of this module waits for what it notifies.
Exit ==
    /\ ~isExit
    /\ isExit' = TRUE
    /\ UNCHANGED <<state, watchers, beaters, electors, election, callVars, missed, campaigns, turns>>

-----------------------------------------------------------------------------
\* async_startElection.

ElectionGoes(from, to) ==
    /\ election = from
    /\ election' = to
    /\ UNCHANGED <<isExit, watchers, missed, campaigns, turns>>

\* compare_exchange_strong of inElection_ fails, and the thread ends.
ElectorGivesUp ==
    /\ electors > 0 /\ election # "none"
    /\ electors' = electors - 1
    /\ UNCHANGED <<state, isExit, watchers, beaters, election, callVars, missed, campaigns, turns>>

ElectorEnters ==
    /\ electors > 0
    /\ ElectionGoes("none", "begin")
    /\ electors' = electors - 1
    /\ UNCHANGED <<state, beaters, callVars>>

\* The locked section, after which a candidate starts its calling threads.
StartElection ==
    /\ \/ /\ state # "CANDIDAE"
          /\ ElectionGoes("begin", "none")
          /\ UNCHANGED callVars
       \/ /\ state = "CANDIDAE"
          /\ ElectionGoes("begin", "test")
          /\ caller' = [p \in Peer |-> "call"]
          /\ voteCnt' = 1 /\ finishCnt' = 0
    /\ UNCHANGED <<state, beaters, electors>>

CallerGoes(p, from, to) ==
    /\ caller[p] = from
    /\ caller' = [caller EXCEPT ![p] = to]
    /\ UNCHANGED <<state, isExit, watchers, beaters, electors, campaigns, turns>>

MutantVoteReturns(p, granted) ==
    /\ CallerGoes(p, "call", "voted")
    /\ voteCnt' = IF granted THEN voteCnt + 2 ELSE voteCnt
    /\ UNCHANGED <<election, finishCnt, missed>>

\* A call returns, with a vote or without; voteCnt and finishCnt are atomic.
VoteReturns(p, granted) ==
    /\ CallerGoes(p, "call", "voted")
    /\ voteCnt' = IF granted THEN voteCnt + 1 ELSE voteCnt
    /\ UNCHANGED <<election, finishCnt, missed>>

CallFinishes(p) ==
    /\ CallerGoes(p, "voted", "finished")
    /\ finishCnt' = finishCnt + 1
    /\ UNCHANGED <<election, voteCnt, missed>>

MutantCallerNotifies(p) ==
    /\ CallerGoes(p, "finished", "joined")
    /\ election' = IF election = "sleep" /\ 2 * voteCnt > Cardinality(Peer) THEN "test" ELSE election
    /\ missed' = (election = "gap")
    /\ UNCHANGED <<voteCnt, finishCnt>>

\* cv.notify_one, which holds no mutex: it may fall between the test and the sleep.
CallerNotifies(p) ==
    /\ CallerGoes(p, "finished", "joined")
    /\ election' = IF election = "sleep" THEN "test" ELSE election
    /\ missed' = (election = "gap")
    /\ UNCHANGED <<voteCnt, finishCnt>>

HasMajority == voteCnt > RaftNum \div 2

MutantElectionOver == HasMajority \/ finishCnt = RaftNum

\* What cv.wait waits for.
ElectionOver == HasMajority \/ finishCnt = RaftNum - 1

\* It tests the condition, and then sleeps.
ElectionTests ==
    /\ ElectionGoes("test", IF ElectionOver THEN "count" ELSE "gap")
    /\ UNCHANGED <<state, beaters, electors, callVars>>

ElectionSleeps ==
    /\ ElectionGoes("gap", "sleep")
    /\ UNCHANGED <<state, beaters, electors, callVars>>

\* switchToLeader starts a thread that sends heartbeats.
CountVotes ==
    /\ ElectionGoes("count", "join")
    /\ IF HasMajority /\ state = "CANDIDAE"
       THEN state' = "LEADER" /\ beaters' = beaters + 1
       ELSE UNCHANGED <<state, beaters>>
    /\ UNCHANGED <<electors, callVars>>

CallsJoined ==
    /\ \A p \in Peer : caller[p] = "joined"
    /\ ElectionGoes("join", "none")
    /\ UNCHANGED <<state, beaters, electors, callVars>>

-----------------------------------------------------------------------------
RunElection == StartElection \/ ElectionTests \/ ElectionSleeps \/ CountVotes \/ CallsJoined

RequestVoteOf(p) ==
    (\E granted \in BOOLEAN : VoteReturns(p, granted)) \/ CallFinishes(p) \/ CallerNotifies(p)

Next ==
    \/ HearsOfAnother \/ WatcherCampaigns \/ WatcherEnds \/ BeaterEnds \/ Exit
    \/ ElectorGivesUp \/ ElectorEnters \/ RunElection
    \/ \E p \in Peer : RequestVoteOf(p)

Spec == Init /\ [][Next]_vars

\* The threads are scheduled, and calls return or end in an exception (RPC_TIMEOUT).
\* Nothing is assumed of election timeouts and of other servers.
Fairness ==
    /\ WF_vars(WatcherEnds) /\ WF_vars(BeaterEnds)
    /\ WF_vars(ElectorGivesUp \/ ElectorEnters)
    /\ WF_vars(RunElection)
    /\ \A p \in Peer : WF_vars(RequestVoteOf(p))

FairSpec == Spec /\ Fairness

-----------------------------------------------------------------------------
\* Properties.

\* The counters agree with where the threads are.
TypeOK ==
    /\ state \in {"FOLLOWER", "CANDIDAE", "LEADER"} /\ isExit \in BOOLEAN /\ missed \in BOOLEAN
    /\ {watchers, beaters, electors, campaigns, turns} \subseteq Nat
    /\ election \in {"none", "begin", "test", "gap", "sleep", "count", "join"}
    /\ caller \in [Peer -> {"call", "voted", "finished", "joined"}]
    /\ voteCnt \in 0 .. RaftNum /\ finishCnt \in 0 .. RaftNum

\* However leaders come and go, a server that does not lead has a thread that will
\* notice a silent leader (async_checkLeaderStatus), and one that leads has a thread
\* that sends heartbeats; threads of earlier states that are still about do no harm.
StateHasItsThread ==
    ~isExit => IF state = "LEADER" THEN beaters > 0 ELSE watchers > 0

\* While the thread that waits for votes sleeps and the election is over, a calling
\* thread is still to notify it, unless the last notification was missed.
SleepersAreWoken ==
    election = "sleep" /\ ElectionOver => missed \/ \E p \in Peer : caller[p] # "joined"

\* Nobody will wake the thread that waits for votes.
Stuck == election = "sleep" /\ \A p \in Peer : caller[p] = "joined"

\* An election comes to its end, whether votes are given, refused or do not come, in
\* whatever order, unless the last notification was missed.  (While one lasts no other
\* begins, and the server cannot be elected.)
ElectionsEnd == election # "none" ~> election = "none" \/ (Stuck /\ missed)

\* When the server ends, its threads do: no election is begun any more by any of them.
ThreadsEnd ==
    isExit ~> watchers = 0 /\ beaters = 0 /\ electors = 0 /\ (election = "none" \/ Stuck)
=============================================================================
