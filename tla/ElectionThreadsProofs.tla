------------------------ MODULE ElectionThreadsProofs ------------------------
(***************************************************************************)
(* The threads of elections and heartbeats, for any number of peers,       *)
(* election timeouts and changes of leaders: a server always has the       *)
(* thread its state needs, and a calling thread is left to wake the one    *)
(* that counts the votes, unless the last notification was missed.         *)
(***************************************************************************)
EXTENDS ElectionThreads, FiniteSetTheorems, TLAPS

\* The calling threads that have counted their vote, and those that have ended their call.
Answered == {p \in Peer : caller[p] # "call"}
Finished == {p \in Peer : caller[p] \in {"finished", "joined"}}

AllJoined == \A p \in Peer : caller[p] = "joined"

\* Calling threads belong to an election; while it lasts, its counters say how far they are.
Counted ==
    IF election \in {"none", "begin"}
    THEN AllJoined
    ELSE finishCnt = Cardinality(Finished) /\ voteCnt <= Cardinality(Answered) + 1

\* Whoever enters the wait has seen a calling thread that will still notify it; only a
\* notification in the gap between the test and the sleep is lost.
LastNotifyMissed == election \in {"gap", "sleep"} /\ AllJoined => missed

ThreadsInv == TypeOK /\ Counted /\ LastNotifyMissed

-----------------------------------------------------------------------------
(***************************************************************************)
(* Counting.                                                               *)
(***************************************************************************)
(* A subset of the peers has at most as many members, and the whole set    *)
(* only if it is the whole set.                                            *)
LEMMA CountPeers ==
    ASSUME NEW S \in SUBSET Peer
    PROVE  /\ IsFiniteSet(S)
           /\ Cardinality(S) \in Nat /\ Cardinality(Peer) \in Nat
           /\ Cardinality(S) <= Cardinality(Peer)
           /\ S # Peer => Cardinality(S) < Cardinality(Peer)
<1>1. IsFiniteSet(Peer)
  BY ThreadsAssumption
<1> QED BY <1>1, FS_Subset, FS_CardinalityType

(* One more peer makes one more.                                           *)
LEMMA CountOneMore ==
    ASSUME NEW S \in SUBSET Peer, NEW p \in Peer, p \notin S
    PROVE  Cardinality(S \cup {p}) = Cardinality(S) + 1
BY CountPeers, FS_AddElement

(* The number of servers.                                                  *)
LEMMA GroupType == RaftNum \in Nat /\ RaftNum = Cardinality(Peer) + 1
BY CountPeers DEF RaftNum

-----------------------------------------------------------------------------
(***************************************************************************)
(* The calling threads.                                                    *)
(***************************************************************************)
(* A calling thread runs during an election only.                          *)
LEMMA CallersBelong ==
    ASSUME ThreadsInv, NEW p \in Peer, caller[p] # "joined"
    PROVE  election \in {"test", "gap", "sleep", "count", "join"}
BY DEF ThreadsInv, TypeOK, Counted, AllJoined

(* A call returns: at most one vote more, of one more peer.                *)
LEMMA VoteReturnsInv ==
    ASSUME ThreadsInv, NEW p \in Peer, NEW granted \in BOOLEAN, VoteReturns(p, granted)
    PROVE  ThreadsInv'
<1> USE DEF VoteReturns, CallerGoes
<1>1. election \in {"test", "gap", "sleep", "count", "join"} /\ election' = election
  BY CallersBelong
<1>2. caller \in [Peer -> {"call", "voted", "finished", "joined"}]
  BY DEF ThreadsInv, TypeOK
<1>3. Answered' = Answered \cup {p} /\ p \notin Answered /\ Finished' = Finished
  BY <1>2 DEF Answered, Finished
<1>4. finishCnt = Cardinality(Finished) /\ voteCnt <= Cardinality(Answered) + 1
  BY <1>1 DEF ThreadsInv, Counted
<1>5. Cardinality(Answered') = Cardinality(Answered) + 1
      /\ Cardinality(Answered') <= Cardinality(Peer)
      /\ Cardinality(Answered) \in Nat /\ Cardinality(Peer) \in Nat
  BY <1>3, CountOneMore, CountPeers DEF Answered
<1>6. voteCnt \in Nat /\ voteCnt' \in Nat /\ voteCnt' <= voteCnt + 1
  BY DEF ThreadsInv, TypeOK
<1>7. Counted'
  BY <1>1, <1>3, <1>4, <1>5, <1>6 DEF Counted
<1>8. voteCnt' \in 0 .. RaftNum
  BY <1>4, <1>5, <1>6, GroupType
<1>9. TypeOK'
  <2>1. caller' \in [Peer -> {"call", "voted", "finished", "joined"}]
    BY <1>2
  <2> QED BY <1>8, <2>1 DEF ThreadsInv, TypeOK, RaftNum
<1>10. LastNotifyMissed'
  BY <1>2 DEF LastNotifyMissed, AllJoined
<1> QED BY <1>7, <1>9, <1>10 DEF ThreadsInv

(* A calling thread counts its call as finished.                           *)
LEMMA CallFinishesInv ==
    ASSUME ThreadsInv, NEW p \in Peer, CallFinishes(p)
    PROVE  ThreadsInv'
<1> USE DEF CallFinishes, CallerGoes
<1>1. election \in {"test", "gap", "sleep", "count", "join"} /\ election' = election
  BY CallersBelong
<1>2. caller \in [Peer -> {"call", "voted", "finished", "joined"}]
  BY DEF ThreadsInv, TypeOK
<1>3. Finished' = Finished \cup {p} /\ p \notin Finished /\ Answered' = Answered
  BY <1>2 DEF Answered, Finished
<1>4. finishCnt = Cardinality(Finished) /\ voteCnt <= Cardinality(Answered) + 1
  BY <1>1 DEF ThreadsInv, Counted
<1>5. Cardinality(Finished') = Cardinality(Finished) + 1
      /\ Cardinality(Finished') <= Cardinality(Peer)
      /\ Cardinality(Finished) \in Nat /\ Cardinality(Peer) \in Nat
  BY <1>3, CountOneMore, CountPeers DEF Finished
<1>6. Counted'
  BY <1>1, <1>3, <1>4, <1>5 DEF Counted
<1>7. finishCnt' \in 0 .. RaftNum
  BY <1>4, <1>5, GroupType
<1>8. TypeOK'
  <2>1. caller' \in [Peer -> {"call", "voted", "finished", "joined"}]
    BY <1>2
  <2> QED BY <1>7, <2>1 DEF ThreadsInv, TypeOK, RaftNum
<1>9. LastNotifyMissed'
  BY <1>2 DEF LastNotifyMissed, AllJoined
<1> QED BY <1>6, <1>8, <1>9 DEF ThreadsInv

(* A calling thread notifies: it wakes a sleeper, and is missed in the gap. *)
LEMMA CallerNotifiesInv ==
    ASSUME ThreadsInv, NEW p \in Peer, CallerNotifies(p)
    PROVE  ThreadsInv'
<1> USE DEF CallerNotifies, CallerGoes
<1>1. election \in {"test", "gap", "sleep", "count", "join"}
  BY CallersBelong
<1>2. caller \in [Peer -> {"call", "voted", "finished", "joined"}]
  BY DEF ThreadsInv, TypeOK
<1>3. Finished' = Finished /\ Answered' = Answered
  BY <1>2 DEF Answered, Finished
<1>4. Counted'
  BY <1>1, <1>3 DEF ThreadsInv, Counted
<1>5. TypeOK'
  <2>1. caller' \in [Peer -> {"call", "voted", "finished", "joined"}]
    BY <1>2
  <2>2. missed' \in BOOLEAN
    OBVIOUS
  <2>3. election' \in {"none", "begin", "test", "gap", "sleep", "count", "join"}
    BY <1>1
  <2> QED BY <2>1, <2>2, <2>3 DEF ThreadsInv, TypeOK, RaftNum
<1>6. LastNotifyMissed'
  BY <1>1 DEF LastNotifyMissed
<1> QED BY <1>4, <1>5, <1>6 DEF ThreadsInv

-----------------------------------------------------------------------------
(***************************************************************************)
(* The thread that runs the election.                                      *)
(***************************************************************************)
(* An election begins with its own vote and no finished call.              *)
LEMMA StartElectionInv ==
    ASSUME ThreadsInv, StartElection
    PROVE  ThreadsInv'
<1> USE DEF StartElection, ElectionGoes
<1>1. CASE state # "CANDIDAE"
  BY <1>1 DEF ThreadsInv, TypeOK, Counted, LastNotifyMissed, AllJoined, RaftNum, callVars
<1>2. CASE state = "CANDIDAE"
  <2>1. election' = "test" /\ voteCnt' = 1 /\ finishCnt' = 0
        /\ caller' = [p \in Peer |-> "call"]
    BY <1>2
  <2>2. Finished' = {} /\ Answered' = {}
    BY <2>1 DEF Finished, Answered
  <2>3. Counted'
    <3>1. Cardinality(Finished') = 0 /\ Cardinality(Answered') = 0
      BY <2>2, FS_EmptySet
    <3> QED BY <2>1, <3>1 DEF Counted
  <2>4. TypeOK'
    <3>1. 1 \in 0 .. RaftNum /\ 0 \in 0 .. RaftNum
      BY GroupType, CountPeers
    <3> QED BY <2>1, <3>1 DEF ThreadsInv, TypeOK, RaftNum
  <2>5. LastNotifyMissed'
    BY <2>1 DEF LastNotifyMissed
  <2> QED BY <2>3, <2>4, <2>5 DEF ThreadsInv
<1> QED BY <1>1, <1>2

(* It goes to sleep only while a call is not finished.                     *)
LEMMA ElectionTestsInv ==
    ASSUME ThreadsInv, ElectionTests
    PROVE  ThreadsInv'
<1> USE DEF ElectionTests, ElectionGoes
<1>1. election = "test" /\ election' \in {"count", "gap"} /\ UNCHANGED callVars
  OBVIOUS
<1>2. Finished' = Finished /\ Answered' = Answered /\ AllJoined' = AllJoined
  BY <1>1 DEF Finished, Answered, AllJoined, callVars
<1>3. Counted'
  BY <1>1, <1>2 DEF ThreadsInv, Counted, callVars
<1>4. AllJoined => ElectionOver
  <2>1. AllJoined => Finished = Peer
    BY DEF AllJoined, Finished
  <2>2. finishCnt = Cardinality(Finished)
    BY <1>1 DEF ThreadsInv, Counted
  <2> QED BY <2>1, <2>2, GroupType, CountPeers DEF ElectionOver
<1>5. LastNotifyMissed'
  BY <1>1, <1>2, <1>4 DEF LastNotifyMissed
<1>6. TypeOK'
  BY <1>1 DEF ThreadsInv, TypeOK, callVars, RaftNum
<1> QED BY <1>3, <1>5, <1>6 DEF ThreadsInv

LEMMA ElectionSleepsInv ==
    ASSUME ThreadsInv, ElectionSleeps
    PROVE  ThreadsInv'
BY DEF ElectionSleeps, ElectionGoes, ThreadsInv, TypeOK, Counted, LastNotifyMissed, AllJoined,
       Finished, Answered, RaftNum, callVars

LEMMA CountVotesInv ==
    ASSUME ThreadsInv, CountVotes
    PROVE  ThreadsInv'
BY DEF CountVotes, ElectionGoes, ThreadsInv, TypeOK, Counted, LastNotifyMissed, AllJoined,
       Finished, Answered, RaftNum, callVars

LEMMA CallsJoinedInv ==
    ASSUME ThreadsInv, CallsJoined
    PROVE  ThreadsInv'
BY DEF CallsJoined, ElectionGoes, ThreadsInv, TypeOK, Counted, LastNotifyMissed, AllJoined,
       Finished, Answered, RaftNum, callVars

-----------------------------------------------------------------------------
(***************************************************************************)
(* The invariants.                                                         *)
(***************************************************************************)
LEMMA InitInv == Init => ThreadsInv
<1> SUFFICES ASSUME Init PROVE ThreadsInv
  OBVIOUS
<1>1. TypeOK
  <2>1. caller \in [Peer -> {"call", "voted", "finished", "joined"}]
    BY DEF Init
  <2>2. voteCnt \in 0 .. RaftNum /\ finishCnt \in 0 .. RaftNum
    BY GroupType DEF Init
  <2>3. isExit \in BOOLEAN /\ missed \in BOOLEAN
    BY DEF Init
  <2> QED BY <2>1, <2>2, <2>3 DEF Init, TypeOK
<1>2. Counted /\ LastNotifyMissed
  BY DEF Init, Counted, LastNotifyMissed, AllJoined
<1> QED BY <1>1, <1>2 DEF ThreadsInv

(* The other threads leave the election's calls alone.                     *)
LEMMA OthersInv ==
    ASSUME ThreadsInv,
           HearsOfAnother \/ WatcherCampaigns \/ WatcherEnds \/ BeaterEnds \/ Exit
               \/ ElectorGivesUp \/ ElectorEnters
    PROVE  ThreadsInv'
<1> USE DEF ThreadsInv
<1>1. CASE HearsOfAnother \/ WatcherCampaigns \/ WatcherEnds \/ BeaterEnds \/ Exit \/ ElectorGivesUp
  <2>1. UNCHANGED <<election, missed>> /\ UNCHANGED callVars
    BY <1>1 DEF HearsOfAnother, WatcherCampaigns, WatcherEnds, BeaterEnds, Exit, ElectorGivesUp
  <2>2. Counted' /\ LastNotifyMissed'
    BY <2>1 DEF Counted, LastNotifyMissed, AllJoined, Finished, Answered, callVars
  <2>3. TypeOK'
    <3>1. isExit' \in BOOLEAN
      BY <1>1 DEF HearsOfAnother, WatcherCampaigns, WatcherEnds, BeaterEnds, Exit, ElectorGivesUp,
                  TypeOK
    <3>2. state' \in {"FOLLOWER", "CANDIDAE", "LEADER"}
      BY <1>1 DEF HearsOfAnother, SwitchToFollow, WatcherCampaigns, WatcherEnds, BeaterEnds, Exit,
                  ElectorGivesUp, TypeOK
    <3>3. {watchers, beaters, electors, campaigns, turns}' \subseteq Nat
      BY <1>1 DEF HearsOfAnother, SwitchToFollow, WatcherCampaigns, WatcherEnds, BeaterEnds, Exit,
                  ElectorGivesUp, TypeOK
    <3> QED BY <2>1, <3>1, <3>2, <3>3 DEF TypeOK, callVars, RaftNum
  <2> QED BY <2>2, <2>3
<1>2. CASE ElectorEnters
  BY <1>2 DEF ElectorEnters, ElectionGoes, TypeOK, Counted, LastNotifyMissed, AllJoined,
              callVars, RaftNum
<1> QED BY <1>1, <1>2

LEMMA NextInv == ThreadsInv /\ [Next]_vars => ThreadsInv'
<1> SUFFICES ASSUME ThreadsInv, [Next]_vars PROVE ThreadsInv'
  OBVIOUS
<1>1. CASE RunElection
  BY <1>1, StartElectionInv, ElectionTestsInv, ElectionSleepsInv, CountVotesInv, CallsJoinedInv
     DEF RunElection
<1>2. ASSUME NEW p \in Peer, RequestVoteOf(p)
      PROVE  ThreadsInv'
  BY <1>2, VoteReturnsInv, CallFinishesInv, CallerNotifiesInv DEF RequestVoteOf
<1>3. CASE UNCHANGED vars
  BY <1>3 DEF vars, callVars, ThreadsInv, TypeOK, Counted, LastNotifyMissed, AllJoined,
              Finished, Answered, RaftNum
<1> QED BY <1>1, <1>2, <1>3, OthersInv DEF Next

(* The counters of async_startElection agree with where its calling        *)
(* threads are, through all elections of the process.                      *)
THEOREM ThreadsInvariant == Spec => []ThreadsInv
BY InitInv, NextInv, PTL DEF Spec

(* Type correctness: no thread count falls below 0, and no more votes and  *)
(* finished calls are counted than there are servers.                      *)
THEOREM TypeCorrect == Spec => []TypeOK
<1>1. ThreadsInv => TypeOK
  BY DEF ThreadsInv
<1> QED BY <1>1, ThreadsInvariant, PTL

(* While the thread that waits for votes sleeps and its election is over,  *)
(* a calling thread is still to notify it, unless the last notification    *)
(* fell between its test and its sleep.                                    *)
THEOREM VotersWakeTheWaiter == Spec => []SleepersAreWoken
<1>1. ThreadsInv => SleepersAreWoken
  BY DEF ThreadsInv, LastNotifyMissed, AllJoined, SleepersAreWoken
<1> QED BY <1>1, ThreadsInvariant, PTL

(* However leaders come and go, a server that does not lead has a thread   *)
(* that will notice a silent leader, and one that leads a thread that      *)
(* sends heartbeats.                                                       *)
THEOREM ThreadOfItsState == Spec => []StateHasItsThread
<1>1. Init => StateHasItsThread
  BY DEF Init, StateHasItsThread
<1>2. TypeOK /\ StateHasItsThread /\ [Next]_vars => StateHasItsThread'
  <2> SUFFICES ASSUME TypeOK, StateHasItsThread, [Next]_vars PROVE StateHasItsThread'
    OBVIOUS
  <2>1. watchers \in Nat /\ beaters \in Nat
    BY DEF TypeOK
  <2>2. CASE HearsOfAnother
    BY <2>1, <2>2 DEF HearsOfAnother, SwitchToFollow, StateHasItsThread
  <2>3. CASE WatcherCampaigns
    BY <2>1, <2>3 DEF WatcherCampaigns, StateHasItsThread
  <2>4. CASE WatcherEnds \/ BeaterEnds
    BY <2>1, <2>4 DEF WatcherEnds, BeaterEnds, StateHasItsThread
  <2>5. CASE Exit
    BY <2>5 DEF Exit, StateHasItsThread
  <2>6. CASE CountVotes
    BY <2>1, <2>6 DEF CountVotes, ElectionGoes, StateHasItsThread
  <2>7. ASSUME UNCHANGED <<state, isExit, watchers, beaters>>
        PROVE  StateHasItsThread'
    BY <2>7 DEF StateHasItsThread
  <2>8. CASE ElectorGivesUp \/ ElectorEnters \/ StartElection \/ ElectionTests \/ ElectionSleeps
             \/ CallsJoined
    BY <2>7, <2>8 DEF ElectorGivesUp, ElectorEnters, StartElection, ElectionTests, ElectionSleeps,
                      CallsJoined, ElectionGoes
  <2>9. ASSUME NEW p \in Peer, RequestVoteOf(p)
        PROVE  StateHasItsThread'
    BY <2>7, <2>9 DEF RequestVoteOf, VoteReturns, CallFinishes, CallerNotifies, CallerGoes
  <2>10. CASE UNCHANGED vars
    BY <2>7, <2>10 DEF vars
  <2> QED BY <2>2, <2>3, <2>4, <2>5, <2>6, <2>8, <2>9, <2>10 DEF Next, RunElection
<1> QED BY <1>1, <1>2, TypeCorrect, PTL DEF Spec
=============================================================================
