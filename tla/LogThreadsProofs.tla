-------------------------- MODULE LogThreadsProofs --------------------------
(***************************************************************************)
(* The threads that send and apply the log, for any number of peers,       *)
(* entries, elections and failures: they sleep on work only if a           *)
(* notification came between their last look and their wait.               *)
(***************************************************************************)
EXTENDS LogThreads, TLAPS

\* nextIndex_ is 0 before the first election only, and nothing is sent before it.
Elected ==
    /\ leads => elections > 0
    /\ \A p \in Peer : elections > 0 => nextIndex[p] > 0
    /\ \A p \in Peer : repl[p] \in {"send", "call"} => elections > 0

TypeInv == TypeOK /\ Elected

LEMMA InitType == Init => TypeInv
<1> SUFFICES ASSUME Init PROVE TypeInv
  OBVIOUS
<1>1. TypeOK
  <2>1. NoCall \in [prev : Nat, last : Nat]
    BY DEF NoCall
  <2>2. call \in [Peer -> [prev : Nat, last : Nat]]
    BY <2>1 DEF Init
  <2>3. nextIndex \in [Peer -> Nat]
        /\ repl \in [Peer -> {"wait", "woken", "look", "send", "call", "gap", "gone"}]
    BY DEF Init
  <2>4. leads \in BOOLEAN /\ missed \subseteq Peer \cup {"applier"}
    BY DEF Init
  <2>5. {lastLog, commitIndex, lastApplied, gathered, elections, failures} \subseteq Nat
    BY DEF Init
  <2>6. applier = "wait" /\ destructor = "none"
    BY DEF Init
  <2> QED BY <2>2, <2>3, <2>4, <2>5, <2>6 DEF TypeOK
<1>2. Elected
  BY DEF Init, Elected
<1> QED BY <1>1, <1>2 DEF TypeInv

LEMMA NotifySendType ==
    ASSUME TypeOK, NEW late, NotifySend(late)
    PROVE  /\ repl' \in [Peer -> {"wait", "woken", "look", "send", "call", "gap", "gone"}]
           /\ missed' \subseteq Peer \cup {"applier"}
           /\ \A p \in Peer : repl'[p] \in {"send", "call"} => repl[p] \in {"send", "call"}
BY DEF TypeOK, NotifySend, Waiting

LEMMA UpdateCommitIndexType ==
    ASSUME TypeOK, NEW i \in Nat, UpdateCommitIndex(i)
    PROVE  /\ commitIndex' \in Nat
           /\ applier' \in {"wait", "woken", "gather", "apply", "gap", "gone"}
           /\ missed' \subseteq Peer \cup {"applier"}
BY DEF TypeOK, UpdateCommitIndex, NotifyApplier

LEMMA ReplGoesType ==
    ASSUME TypeInv, NEW p \in Peer, NEW from,
           NEW to \in {"wait", "woken", "look", "send", "call", "gap", "gone"}, ReplGoes(p, from, to)
    PROVE  /\ repl' \in [Peer -> {"wait", "woken", "look", "send", "call", "gap", "gone"}]
           /\ repl'[p] = to /\ \A q \in Peer \ {p} : repl'[q] = repl[q]
BY DEF TypeInv, TypeOK, ReplGoes

LEMMA Overridden ==
    ASSUME NEW S, NEW T, NEW f \in [S -> T], NEW x \in S, NEW v \in T
    PROVE  [f EXCEPT ![x] = v] \in [S -> T]
OBVIOUS

LEMMA ReplType ==
    ASSUME TypeInv, NEW p \in Peer, ReplicateLogTo(p)
    PROVE  TypeInv'
<1> USE DEF TypeInv, TypeOK, Elected
<1>1. CASE ReplSleeps(p) \/ ReplWakes(p) \/ ReplLooks(p)
  BY <1>1 DEF ReplSleeps, ReplWakes, ReplLooks, ReplGoes, ReplOnly, HasWork
<1>2. CASE ReplBuilds(p)
  <2>1. nextIndex[p] \in Nat \ {0} /\ lastLog \in Nat
    BY <1>2 DEF ReplBuilds, ReplGoes
  <2>2. PICK last \in Nat : call' = [call EXCEPT ![p] = [prev |-> nextIndex[p] - 1, last |-> last]]
    <3>1. PICK last \in IF nextIndex[p] > lastLog THEN {nextIndex[p] - 1} ELSE nextIndex[p] .. lastLog :
             call' = [call EXCEPT ![p] = [prev |-> nextIndex[p] - 1, last |-> last]]
      BY <1>2 DEF ReplBuilds
    <3>2. last \in Nat
      BY <2>1, <3>1
    <3> QED BY <3>1, <3>2
  <2>3. call' \in [Peer -> [prev : Nat, last : Nat]]
    <3>1. nextIndex[p] - 1 \in Nat
      BY <2>1
    <3>2. [prev |-> nextIndex[p] - 1, last |-> last] \in [prev : Nat, last : Nat]
      BY <3>1
    <3> QED BY <2>2, <3>2, Overridden
  <2> QED BY <1>2, <2>3 DEF ReplBuilds, ReplGoes
<1>3. ASSUME ReplReturns(p), nextIndex' \in [Peer -> Nat], \A q \in Peer : nextIndex'[q] > 0,
             commitIndex' \in Nat, failures' \in Nat,
             applier' \in {"wait", "woken", "gather", "apply", "gap", "gone"},
             missed' \subseteq Peer \cup {"applier"}
      PROVE  TypeInv'
  <2>1. call' \in [Peer -> [prev : Nat, last : Nat]]
    BY <1>3 DEF ReplReturns, NoCall
  <2> QED BY <1>3, <2>1 DEF ReplReturns, ReplGoes
<1>4. ReplReturns(p) => \A q \in Peer : nextIndex[q] > 0
  BY DEF ReplReturns, ReplGoes
<1>5. CASE ReplAccepted(p)
  <2>1. CASE call[p].last = call[p].prev
    BY <1>3, <1>4, <1>5, <2>1 DEF ReplAccepted
  <2>2. CASE call[p].last # call[p].prev
    <3>1. nextIndex' = [nextIndex EXCEPT ![p] = call[p].last + 1] /\ call[p].last \in Nat
      BY <1>5, <2>2 DEF ReplAccepted
    <3>2. PICK i \in commitIndex .. lastLog : UpdateCommitIndex(i)
      BY <1>5, <2>2 DEF ReplAccepted
    <3>3. nextIndex' \in [Peer -> Nat] /\ \A q \in Peer : nextIndex'[q] > 0
      BY <1>4, <1>5, <3>1 DEF ReplAccepted
    <3> QED BY <1>3, <1>5, <3>2, <3>3, UpdateCommitIndexType DEF ReplAccepted
  <2> QED BY <2>1, <2>2
<1>6. CASE ReplRejected(p)
  <2>1. nextIndex' \in [Peer -> Nat] /\ \A q \in Peer : nextIndex'[q] > 0
    BY <1>4, <1>6 DEF ReplRejected
  <2> QED BY <1>3, <1>6, <2>1 DEF ReplRejected
<1>7. CASE ReplFails(p)
  BY <1>3, <1>4, <1>7 DEF ReplFails
<1> QED BY <1>1, <1>2, <1>5, <1>6, <1>7 DEF ReplicateLogTo

LEMMA ApplierType ==
    ASSUME TypeInv, ApplyMsg
    PROVE  TypeInv'
<1> USE DEF TypeInv, TypeOK, Elected, ApplierGoes, logVars, replVars, bounds
<1>1. CASE ApplierSleeps \/ ApplierWakes \/ Applied
  BY <1>1 DEF ApplierSleeps, ApplierWakes, Applied
<1>2. CASE Gather
  BY <1>2 DEF Gather
<1> QED BY <1>1, <1>2 DEF ApplyMsg

LEMMA TypeStep == ASSUME TypeInv, Next PROVE TypeInv'
<1> USE DEF TypeInv, TypeOK, Elected
<1>1. CASE Start
  BY <1>1, NotifySendType DEF Start, applyVars, bounds
<1>2. CASE SwitchToLeader
  BY <1>2 DEF SwitchToLeader, replVars, applyVars
<1>3. CASE RequestVote
  BY <1>3 DEF RequestVote, replVars, applyVars, bounds
<1>4. ASSUME NEW last \in 0 .. MaxLogs, NEW i \in 0 .. last, AppendEntries(last, i) PROVE TypeInv'
  <2>1. last \in Nat /\ i \in Nat
    BY <1>4, LogsAssumption
  <2> QED BY <1>4, <2>1, UpdateCommitIndexType DEF AppendEntries, replVars, bounds
<1>5. CASE DestructorBegins \/ DestructorNotifiesSend
  BY <1>5, NotifySendType
     DEF DestructorBegins, DestructorNotifiesSend, DestructorGoes, logVars, bounds
<1>6. CASE DestructorNotifiesApplier
  BY <1>6 DEF DestructorNotifiesApplier, DestructorGoes, NotifyApplier, logVars, bounds
<1> QED BY <1>1, <1>2, <1>3, <1>4, <1>5, <1>6, ReplType, ApplierType DEF Next

LEMMA TypeInvariant == Spec => []TypeInv
<1>1. TypeInv /\ UNCHANGED vars => TypeInv'
  BY DEF TypeInv, TypeOK, Elected, vars, logVars, replVars, applyVars, bounds
<1> QED BY <1>1, InitType, TypeStep, PTL DEF Spec

(* TypeOK: the index before the entries of a call is an index, although    *)
(* nextIndex_ begins with 0, for no call is built before an election.      *)
THEOREM TypeCorrect == Spec => []TypeOK
BY TypeInvariant, PTL DEF TypeInv

-----------------------------------------------------------------------------
(***************************************************************************)
(* Replicators.  What is added to the log while one is between its look    *)
(* and its wait it has missed; what is added while it waits wakes it.      *)
(***************************************************************************)
ReplsHaveWork ==
    \A p \in Peer : repl[p] \in {"gap", "wait"} /\ HasWork(p) => p \in missed

\* The replicators stay where they are, but those that were about to wait may wait,
\* and nobody's work grows.
LEMMA NoNewWork ==
    ASSUME ReplsHaveWork,
           \A p \in Peer : repl'[p] \in {"gap", "wait"} => repl[p] \in {"gap", "wait"} \/ ~HasWork(p)',
           \A p \in Peer : HasWork(p)' => HasWork(p),
           \A p \in Peer : p \in missed => p \in missed'
    PROVE  ReplsHaveWork'
BY DEF ReplsHaveWork

LEMMA ApplierNotified ==
    ASSUME NEW i, UpdateCommitIndex(i)
    PROVE  \A p \in Peer : p \in missed => p \in missed'
BY LogsAssumption DEF UpdateCommitIndex, NotifyApplier

LEMMA SentNotified ==
    ASSUME TypeOK, ReplsHaveWork, NEW late, "gap" \in late, NotifySend(late)
    PROVE  ReplsHaveWork'
<1> SUFFICES ASSUME NEW p \in Peer, repl'[p] \in {"gap", "wait"} PROVE p \in missed'
  BY DEF ReplsHaveWork
<1>1. repl[p] # "wait" /\ repl'[p] = repl[p]
  BY DEF TypeOK, NotifySend, Waiting
<1> QED BY <1>1 DEF NotifySend

LEMMA ReplicatorWork ==
    ASSUME TypeOK, ReplsHaveWork, NEW p \in Peer, ReplicateLogTo(p)
    PROVE  ReplsHaveWork'
<1>1. leads' = leads /\ lastLog' = lastLog
  BY DEF ReplicateLogTo, ReplSleeps, ReplWakes, ReplLooks, ReplBuilds, ReplAccepted, ReplRejected,
         ReplFails, ReplReturns, ReplGoes
<1>2. ASSUME NEW from, NEW to, ReplGoes(p, from, to),
             to \in {"gap", "wait"} => from = "gap" \/ ~HasWork(p),
             to \in {"gap", "wait"} => nextIndex' = nextIndex,
             \A q \in Peer \ {p} : nextIndex'[q] = nextIndex[q],
             \A q \in Peer : q \in missed => q \in missed'
      PROVE  ReplsHaveWork'
  <2>1. repl[p] = from /\ repl'[p] = to /\ \A q \in Peer \ {p} : repl'[q] = repl[q]
    BY <1>2 DEF ReplGoes, TypeOK
  <2> QED BY <1>1, <1>2, <2>1 DEF ReplsHaveWork, HasWork
<1>3. CASE ReplSleeps(p) \/ ReplWakes(p) \/ ReplLooks(p)
  BY <1>2, <1>3 DEF ReplSleeps, ReplWakes, ReplLooks, ReplOnly
<1>4. CASE ReplBuilds(p)
  BY <1>2, <1>4 DEF ReplBuilds
<1>5. CASE ReplAccepted(p)
  <2>1. \A q \in Peer \ {p} : nextIndex'[q] = nextIndex[q]
    BY <1>5 DEF ReplAccepted, TypeOK
  <2>2. \A q \in Peer : q \in missed => q \in missed'
    BY <1>5, ApplierNotified DEF ReplAccepted
  <2> QED BY <1>2, <1>5, <2>1, <2>2 DEF ReplAccepted, ReplReturns
<1>6. CASE ReplRejected(p)
  <2>1. \A q \in Peer \ {p} : nextIndex'[q] = nextIndex[q]
    BY <1>6 DEF ReplRejected, TypeOK
  <2> QED BY <1>2, <1>6, <2>1 DEF ReplRejected, ReplReturns
<1>7. CASE ReplFails(p)
  BY <1>2, <1>7 DEF ReplFails, ReplReturns
<1> QED BY <1>3, <1>4, <1>5, <1>6, <1>7 DEF ReplicateLogTo

LEMMA WorkStep == ASSUME TypeOK, ReplsHaveWork, Next PROVE ReplsHaveWork'
<1>1. CASE Start \/ DestructorNotifiesSend
  BY <1>1, SentNotified DEF Start, DestructorNotifiesSend
<1>2. CASE SwitchToLeader
  BY <1>2 DEF SwitchToLeader, ReplsHaveWork, HasWork, TypeOK
<1>3. CASE RequestVote
  BY <1>3 DEF RequestVote, ReplsHaveWork, HasWork
<1>4. ASSUME NEW last, NEW i, AppendEntries(last, i) PROVE ReplsHaveWork'
  BY <1>4 DEF AppendEntries, ReplsHaveWork, HasWork
<1>5. CASE ApplyMsg \/ DestructorBegins
  BY <1>5, NoNewWork
     DEF ApplyMsg, ApplierSleeps, ApplierWakes, Gather, Applied, ApplierGoes, DestructorBegins,
         DestructorGoes, HasWork, logVars, replVars
<1>6. CASE DestructorNotifiesApplier
  <2>1. UNCHANGED <<repl, leads, nextIndex, lastLog>>
    BY <1>6 DEF DestructorNotifiesApplier, DestructorGoes, logVars
  <2>2. \A p \in Peer : p \in missed => p \in missed'
    BY <1>6, LogsAssumption DEF DestructorNotifiesApplier, NotifyApplier
  <2> QED BY <2>1, <2>2 DEF ReplsHaveWork, HasWork
<1> QED BY <1>1, <1>2, <1>3, <1>4, <1>5, <1>6, ReplicatorWork DEF Next

(* SleepsOnWorkIfMissed: sendEntries_.wait has no condition                *)
(* (raft.cpp:689), and needs none but for a notification that comes while  *)
(* the replicator has looked and does not wait yet.                        *)
THEOREM ReplicatorsAwake == Spec => []SleepsOnWorkIfMissed
<1>1. Init => ReplsHaveWork
  BY DEF Init, ReplsHaveWork, HasWork
<1>2. TypeOK /\ ReplsHaveWork /\ [Next]_vars => ReplsHaveWork'
  <2>1. ASSUME ReplsHaveWork, UNCHANGED vars PROVE ReplsHaveWork'
    BY <2>1 DEF ReplsHaveWork, HasWork, vars, logVars, replVars
  <2> QED BY <2>1, WorkStep
<1>3. ReplsHaveWork => SleepsOnWorkIfMissed
  BY DEF ReplsHaveWork, SleepsOnWorkIfMissed
<1> QED BY <1>1, <1>2, <1>3, TypeCorrect, PTL DEF Spec

-----------------------------------------------------------------------------
(***************************************************************************)
(* The applier.                                                            *)
(***************************************************************************)
ApplierHasWork ==
    applier \in {"gap", "wait"} /\ lastApplied < commitIndex => "applier" \in missed

LEMMA CommitNotifies ==
    ASSUME ApplierHasWork, NEW i, UpdateCommitIndex(i), lastApplied' = lastApplied
    PROVE  ApplierHasWork'
BY DEF ApplierHasWork, UpdateCommitIndex, NotifyApplier

LEMMA SendLeavesApplier ==
    ASSUME NEW late, NotifySend(late)
    PROVE  "applier" \in missed => "applier" \in missed'
BY LogsAssumption DEF NotifySend, Waiting

LEMMA ApplierStep == ASSUME TypeOK, ApplierHasWork, Next PROVE ApplierHasWork'
<1>1. CASE Start
  BY <1>1, SendLeavesApplier DEF Start, ApplierHasWork, applyVars
<1>2. CASE DestructorBegins \/ DestructorNotifiesSend
  BY <1>2, SendLeavesApplier
     DEF DestructorBegins, DestructorNotifiesSend, DestructorGoes, ApplierHasWork, logVars
<1>3. CASE SwitchToLeader \/ RequestVote
  BY <1>3 DEF SwitchToLeader, RequestVote, ApplierHasWork, applyVars
<1>4. ASSUME NEW last, NEW i, AppendEntries(last, i) PROVE ApplierHasWork'
  BY <1>4, CommitNotifies DEF AppendEntries
<1>5. ASSUME NEW p \in Peer, ReplicateLogTo(p) PROVE ApplierHasWork'
  <2>1. lastApplied' = lastApplied
    BY <1>5 DEF ReplicateLogTo, ReplSleeps, ReplWakes, ReplLooks, ReplBuilds, ReplAccepted,
                ReplRejected, ReplFails, ReplReturns, ReplGoes
  <2>2. CASE UNCHANGED <<commitIndex, applier, missed>>
    BY <2>1, <2>2 DEF ApplierHasWork
  <2>3. CASE \E i \in commitIndex .. lastLog : UpdateCommitIndex(i)
    BY <2>1, <2>3, CommitNotifies
  <2> QED BY <1>5, <2>2, <2>3
         DEF ReplicateLogTo, ReplSleeps, ReplWakes, ReplLooks, ReplBuilds, ReplAccepted,
             ReplRejected, ReplFails, ReplOnly
<1>6. CASE ApplyMsg
  BY <1>6 DEF ApplyMsg, ApplierSleeps, ApplierWakes, Gather, Applied, ApplierGoes, ApplierHasWork,
              logVars
<1>7. CASE DestructorNotifiesApplier
  BY <1>7 DEF DestructorNotifiesApplier, DestructorGoes, NotifyApplier, ApplierHasWork, logVars
<1> QED BY <1>1, <1>2, <1>3, <1>4, <1>5, <1>6, <1>7 DEF Next

(* IdleUnlessMissed: the same of the applier, whom every rise of           *)
(* commitIndex_ notifies (raft.cpp:360).                                   *)
THEOREM ApplierAwake == Spec => []IdleUnlessMissed
<1>1. Init => ApplierHasWork
  BY DEF Init, ApplierHasWork
<1>2. TypeOK /\ ApplierHasWork /\ [Next]_vars => ApplierHasWork'
  <2>1. ASSUME ApplierHasWork, UNCHANGED vars PROVE ApplierHasWork'
    BY <2>1 DEF ApplierHasWork, vars, logVars, applyVars
  <2> QED BY <2>1, ApplierStep
<1>3. ApplierHasWork => IdleUnlessMissed
  BY DEF ApplierHasWork, IdleUnlessMissed
<1> QED BY <1>1, <1>2, <1>3, TypeCorrect, PTL DEF Spec
=============================================================================
