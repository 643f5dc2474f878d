--------------------------- MODULE MapReduceProofs ---------------------------
(***************************************************************************)
(* Proofs about MapReduce, for any number of workers, map tasks and reduce *)
(* tasks, any number of crashes and any number of time-outs.               *)
(***************************************************************************)
EXTENDS MapReduce, FiniteSetTheorems, SequenceTheorems, TLAPS

(***************************************************************************)
(* The inductive invariant of the properties that hold in any case.  What  *)
(* it adds to them: a worker has ids of its own kind of task; before the   *)
(* switch nothing of the reduce phase has begun; and in the reduce phase   *)
(* all map results are there, so that what is read, written and committed  *)
(* then is whole.                                                          *)
(***************************************************************************)
OwnIds ==
    \A w \in Worker :
        /\ worker[w].id \in (IF worker[w].type = "MAP" THEN MapId ELSE ReduceId)
        /\ worker[w].pc \in {"open", "write"} => worker[w].type = "REDUCE"

NothingReducedYet ==
    phase = "MAP" =>
        /\ \A r \in ReduceId : reduceState[r] = "IDLE"
        /\ \A w \in Worker : worker[w].type = "MAP"

WholeInReducePhase ==
    phase = "REDUCE" =>
        /\ inter = MapId
        /\ \A w \in Worker :
              worker[w].type = "REDUCE" =>
                 /\ worker[w].pc \in {"open", "write", "commit"} => worker[w].whole
                 /\ worker[w].pc = "commit" => worker[w].id \in finished

JobInv ==
    /\ TypeOK
    /\ NoTaskLost
    /\ OwnIds
    /\ NothingReducedYet
    /\ WholeInReducePhase
    /\ OnlyFinishedCounts
-----------------------------------------------------------------------------
(* The sets of task ids are finite, and 0 is in each of them.              *)
LEMMA IdFacts ==
    /\ IsFiniteSet(TaskId)
    /\ 0 \in MapId /\ 0 \in ReduceId
    /\ MapId \subseteq TaskId /\ ReduceId \subseteq TaskId
<1>1. IsFiniteSet(MapId) /\ IsFiniteSet(ReduceId)
  BY TaskAssumption, FS_Interval DEF MapId, ReduceId
<1>2. IsFiniteSet(TaskId)
  BY <1>1, FS_Union DEF TaskId
<1>3. 0 \in MapId /\ 0 \in ReduceId
  BY TaskAssumption DEF MapId, ReduceId
<1> QED
  BY <1>2, <1>3 DEF TaskId

(* What detectTimeoutTask pushes is a finite sequence of the ids it found. *)
LEMMA OrdersFacts ==
    ASSUME NEW S, S \subseteq TaskId, NEW order \in Orders(S)
    PROVE  /\ order \in Seq(TaskId)
           /\ \A id \in S : \E k \in 1..Len(order) : order[k] = id
<1>1. Cardinality(S) \in Nat
  BY IdFacts, FS_Subset, FS_CardinalityType
<1>2. order \in [1..Cardinality(S) -> TaskId]
  BY DEF Orders
<1>3. order \in Seq(TaskId)
  BY <1>1, <1>2
<1>4. DOMAIN order = 1..Len(order)
  BY <1>3
<1> QED
  BY <1>3, <1>4 DEF Orders

(* setTaskToInProgress and commitTask change one task of the phase, also   *)
(* when the last reduce task ends the job.                                 *)
LEMMA OneTaskChanges ==
    ASSUME NEW id, NEW s, SetTask(id, s),
           phase' = phase \/ (phase = "REDUCE" /\ phase' = "COMPLETED")
    PROVE  Tasks' = [Tasks EXCEPT ![id] = s]
<1>1. CASE phase = "MAP"
  BY <1>1 DEF SetTask, Tasks
<1>2. CASE phase # "MAP"
  BY <1>2 DEF SetTask, Tasks
<1> QED
  BY <1>1, <1>2

LEMMA TasksType ==
    ASSUME TypeOK
    PROVE  /\ Tasks \in [DOMAIN Tasks -> State]
           /\ DOMAIN Tasks = IF phase = "MAP" THEN MapId ELSE ReduceId
  BY DEF TypeOK, Tasks

LEMMA SetTaskType ==
    ASSUME TypeOK, NEW id, NEW s \in State, SetTask(id, s)
    PROVE  mapState' \in [MapId -> State] /\ reduceState' \in [ReduceId -> State]
  BY DEF TypeOK, SetTask

(* The queue after its first k ids were popped.                            *)
LEMMA PoppedRest ==
    ASSUME NEW S, NEW q \in Seq(S), NEW k \in 1..Len(q)
    PROVE  LET rest == SubSeq(q, k + 1, Len(q))
           IN  /\ rest \in Seq(S) /\ Len(rest) = Len(q) - k
               /\ \A i \in 1..Len(q) - k : rest[i] = q[k + i]
<1> DEFINE rest == SubSeq(q, k + 1, Len(q))
<1>1. Len(q) \in Nat /\ k \in Nat /\ k <= Len(q)
  OBVIOUS
<1>2. \A i \in k + 1..Len(q) : q[i] \in S
  BY <1>1
<1>3. /\ rest \in Seq(S)
      /\ Len(rest) = Len(q) - k
      /\ \A i \in 1..Len(q) - k : rest[i] = q[k + i]
  BY <1>1, <1>2
<1> QED
  BY <1>1, <1>3

(* What was behind them is still there.                                    *)
LEMMA PoppedQueue ==
    ASSUME NEW S, NEW q \in Seq(S), NEW k \in 1..Len(q)
    PROVE  /\ SubSeq(q, k + 1, Len(q)) \in Seq(S)
           /\ \A j \in k + 1..Len(q) :
                 \E i \in 1..Len(SubSeq(q, k + 1, Len(q))) : SubSeq(q, k + 1, Len(q))[i] = q[j]
<1> DEFINE rest == SubSeq(q, k + 1, Len(q))
<1>1. /\ rest \in Seq(S)
      /\ Len(rest) = Len(q) - k
      /\ \A i \in 1..Len(q) - k : rest[i] = q[k + i]
  BY PoppedRest
<1>2. \A j \in k + 1..Len(q) : j - k \in 1..Len(q) - k /\ k + (j - k) = j
  OBVIOUS
<1> HIDE DEF rest
<1>3. \A j \in k + 1..Len(q) : \E i \in 1..Len(rest) : rest[i] = q[j]
  BY <1>1, <1>2
<1> QED
  BY <1>1, <1>3 DEF rest
-----------------------------------------------------------------------------
(***************************************************************************)
(* Types.                                                                  *)
(***************************************************************************)
Process == [pc: {"ask", "work", "open", "write", "commit", "end"}, type: {"MAP", "REDUCE"},
            id: TaskId, whole: BOOLEAN, linked: BOOLEAN]

LEMMA ProcessTypes ==
    /\ Asking \in Process /\ Ended \in Process
    /\ \A w : AfterCommit(w) \in Process
<1>1. 0 \in TaskId
  BY IdFacts
<1>2. Asking \in Process /\ Ended \in Process
  BY <1>1 DEF Asking, Ended, Process
<1> QED
  BY <1>2 DEF AfterCommit

LEMMA TypeInit == Init => TypeOK
<1> SUFFICES ASSUME Init PROVE TypeOK
  OBVIOUS
<1>1. idle \in Seq(TaskId)
  <2>1. \A k \in 1..NumMap : k - 1 \in TaskId
    BY TaskAssumption DEF MapId, TaskId
  <2> QED
    BY <2>1, TaskAssumption DEF Init
<1>2. worker \in [Worker -> Process]
  BY ProcessTypes DEF Init
<1> QED
  BY <1>1, <1>2, TaskAssumption DEF Init, TypeOK, Process, State

LEMMA TypeStep == TypeOK /\ OwnIds /\ [Next]_vars => TypeOK'
<1> SUFFICES ASSUME TypeOK, OwnIds, [Next]_vars PROVE TypeOK'
  OBVIOUS
<1> USE DEF Process
<1>1. worker \in [Worker -> Process]
  BY DEF TypeOK
<1>2. CASE UNCHANGED vars
  BY <1>2 DEF TypeOK, vars, masterVars, fileVars
<1>3. ASSUME NEW w \in Worker, AssignTask(w) PROVE TypeOK'
  <2>1. PICK k \in 1..Len(idle) :
           /\ idle' = SubSeq(idle, k + 1, Len(idle))
           /\ inProgress' = inProgress \cup {idle[k]}
           /\ SetTask(idle[k], "IN_PROGRESS")
           /\ worker' = [worker EXCEPT ![w] = Assigned(idle[k])]
    BY <1>3 DEF AssignTask
  <2>2. idle[k] \in TaskId
    BY DEF TypeOK
  <2>3. idle' \in Seq(TaskId)
    BY <2>1, PoppedQueue DEF TypeOK
  <2>4. mapState' \in [MapId -> State] /\ reduceState' \in [ReduceId -> State]
    BY <2>1, SetTaskType DEF State
  <2>5. Assigned(idle[k]) \in Process
    BY <2>2, ProcessTypes DEF Assigned, TypeOK
  <2>6. worker' \in [Worker -> Process]
    BY <1>1, <2>1, <2>5
  <2> QED
    BY <1>3, <2>1, <2>2, <2>3, <2>4, <2>6 DEF AssignTask, TypeOK, fileVars
<1>4. ASSUME NEW w \in Worker, AssignNothing(w) \/ DoMapTask(w) \/ ReadInputs(w) \/ CallFails(w)
      PROVE  TypeOK'
  <2>1. worker' \in [Worker -> Process]
    BY <1>1, <1>4, ProcessTypes DEF AssignNothing, DoMapTask, ReadInputs, CallFails
  <2>2. UNCHANGED <<masterVars, fileVars, crashed, slow, finished>>
    BY <1>4 DEF AssignNothing, DoMapTask, ReadInputs, CallFails
  <2> QED
    BY <2>1, <2>2 DEF TypeOK, masterVars, fileVars
<1>5. ASSUME UNCHANGED worker, slow' \in Nat, Undefined PROVE TypeOK'
  BY <1>5 DEF Undefined, TypeOK, fileVars
<1>6. ASSUME NEW w \in Worker, OpenOutput(w) \/ WriteOutput(w) PROVE TypeOK'
  <2>1. worker' \in [Worker -> Process]
    BY <1>1, <1>6 DEF OpenOutput, WriteOutput
  <2>2. worker[w].id \in ReduceId
    BY <1>6 DEF OwnIds, OpenOutput, WriteOutput
  <2>3. out' \in [ReduceId -> {"none", "partial", "whole"}] /\ finished' \subseteq ReduceId
    BY <1>6, <2>2 DEF OpenOutput, WriteOutput, TypeOK
  <2>4. UNCHANGED <<masterVars, inter, crashed, slow>>
    BY <1>6 DEF OpenOutput, WriteOutput
  <2> QED
    BY <2>1, <2>3, <2>4 DEF TypeOK, masterVars
<1>7. ASSUME NEW w \in Worker, CommitIgnored(w) PROVE TypeOK'
  <2>1. worker' \in [Worker -> Process]
    <3>1. \A v \in Worker : Unlinked(v, worker[w].id) \in Process
      BY <1>1 DEF Unlinked
    <3> QED
      BY <1>1, <1>7, <3>1, ProcessTypes DEF CommitIgnored
  <2>2. out' \in [ReduceId -> {"none", "partial", "whole"}]
    BY <1>7 DEF CommitIgnored, TypeOK
  <2>3. UNCHANGED <<masterVars, inter, crashed, slow, finished>>
    BY <1>7 DEF CommitIgnored
  <2> QED
    BY <2>1, <2>2, <2>3 DEF TypeOK, masterVars
<1>8. ASSUME NEW w \in Worker, CommitMapTask(w) PROVE TypeOK'
  <2>1. worker' \in [Worker -> Process]
    BY <1>1, <1>8, ProcessTypes DEF CommitMapTask
  <2>2. mapState' \in [MapId -> State] /\ reduceState' \in [ReduceId -> State]
    BY <1>8, SetTaskType DEF CommitMapTask, State
  <2>3. worker[w].id \in MapId
    BY <1>8 DEF CommitMapTask, IsWanted, OwnIds
  <2>4. inter' \subseteq MapId /\ inProgress' \subseteq TaskId
    BY <1>8, <2>3 DEF CommitMapTask, TypeOK
  <2>5. UNCHANGED <<master, out, crashed, slow, finished>>
    BY <1>8 DEF CommitMapTask
  <2>6. CASE IsLast(NumMap)
    <3>1. phase' = "REDUCE" /\ completedCnt' = 0 /\ idle' = idle \o [k \in 1..NumReduce |-> k - 1]
      BY <1>8, <2>6 DEF CommitMapTask, SwitchToReduceState, CountInReducePhase
    <3>2. [k \in 1..NumReduce |-> k - 1] \in Seq(TaskId)
      BY TaskAssumption DEF ReduceId, TaskId
    <3>3. idle' \in Seq(TaskId)
      BY <3>1, <3>2 DEF TypeOK
    <3> QED
      BY <2>1, <2>2, <2>4, <2>5, <3>1, <3>3, TaskAssumption DEF TypeOK
  <2>7. CASE ~IsLast(NumMap)
    <3>1. completedCnt' = completedCnt + 1 /\ phase' = phase /\ idle' = idle /\ phase = "MAP"
      BY <1>8, <2>7 DEF CommitMapTask
    <3>2. completedCnt + 1 < NumMap /\ completedCnt + 1 \in Nat
      BY <2>7, <3>1, TaskAssumption DEF IsLast, TypeOK
    <3> QED
      BY <2>1, <2>2, <2>4, <2>5, <3>1, <3>2 DEF TypeOK
  <2> QED
    BY <2>6, <2>7
<1>9. ASSUME NEW w \in Worker, CommitReduceTask(w) PROVE TypeOK'
  <2>1. worker' \in [Worker -> Process]
    BY <1>1, <1>9, ProcessTypes DEF CommitReduceTask
  <2>2. mapState' \in [MapId -> State] /\ reduceState' \in [ReduceId -> State]
    BY <1>9, SetTaskType DEF CommitReduceTask, State
  <2>3. inter' \subseteq MapId /\ inProgress' \subseteq TaskId
    BY <1>9 DEF CommitReduceTask, TypeOK
  <2>4. UNCHANGED <<master, idle, out, crashed, slow, finished>>
    BY <1>9 DEF CommitReduceTask
  <2>5. completedCnt' \in Nat /\ phase' \in {"REDUCE", "COMPLETED"}
    BY <1>9 DEF CommitReduceTask, TypeOK
  <2>6. phase' = "REDUCE" => completedCnt' < NumReduce
    BY <1>9, TaskAssumption DEF CommitReduceTask, IsLast, TypeOK
  <2> QED
    BY <2>1, <2>2, <2>3, <2>4, <2>5, <2>6 DEF TypeOK
<1>10. ASSUME NEW w \in Worker, Crash(w) PROVE TypeOK'
  <2>1. worker' \in [Worker -> Process]
    BY <1>1, <1>10, ProcessTypes DEF Crash
  <2> QED
    BY <1>10, <2>1 DEF Crash, TypeOK, masterVars, fileVars
<1>11. ASSUME NEW ids \in SUBSET inProgress, DetectTimeoutTask(ids) PROVE TypeOK'
  <2>1. ids \subseteq TaskId
    BY DEF TypeOK
  <2>2. slow' \in Nat
    <3>1. Cardinality(ids \ Orphans) \in Nat
      BY <2>1, IdFacts, FS_Subset, FS_CardinalityType
    <3> QED
      BY <1>11, <3>1 DEF DetectTimeoutTask, TypeOK
  <2>3. CASE \A id \in ids : InRange(id)
    <3>1. PICK order \in Orders(ids) : idle' = idle \o order
      BY <1>11, <2>3 DEF DetectTimeoutTask
    <3>2. idle' \in Seq(TaskId)
      BY <2>1, <3>1, OrdersFacts DEF TypeOK
    <3>3. TimedOut(ids) \in [DOMAIN Tasks -> State]
      BY TasksType DEF TimedOut, State
    <3>4. mapState' \in [MapId -> State] /\ reduceState' \in [ReduceId -> State]
      BY <1>11, <2>3, <3>3, TasksType DEF DetectTimeoutTask, TypeOK
    <3>5. inProgress' \subseteq TaskId
      BY <1>11, <2>3 DEF DetectTimeoutTask, TypeOK
    <3>6. UNCHANGED <<master, phase, completedCnt, fileVars, crashed, finished, worker>>
      BY <1>11, <2>3 DEF DetectTimeoutTask
    <3> QED
      BY <2>2, <3>2, <3>4, <3>5, <3>6 DEF TypeOK, fileVars
  <2>4. CASE ~ \A id \in ids : InRange(id)
    BY <1>5, <1>11, <2>2, <2>4 DEF DetectTimeoutTask
  <2> QED
    BY <2>3, <2>4
<1>12. ASSUME NEW w \in Worker, AssignUndefined(w) \/ CommitMapUndefined(w) PROVE TypeOK'
  BY <1>5, <1>12 DEF AssignUndefined, CommitMapUndefined, TypeOK
<1>13. CASE ExitServer
  BY <1>13 DEF ExitServer, TypeOK, fileVars
<1> QED
  BY <1>2, <1>3, <1>4, <1>6, <1>7, <1>8, <1>9, <1>10, <1>11, <1>12, <1>13 DEF Next, WorkerStep
-----------------------------------------------------------------------------
(***************************************************************************)
(* What the processes hold.                                                *)
(***************************************************************************)
LEMMA OwnIdsStep == TypeOK /\ OwnIds /\ [Next]_vars => OwnIds'
<1> SUFFICES ASSUME TypeOK, OwnIds, [Next]_vars PROVE OwnIds'
  OBVIOUS
<1> DEFINE Owns(p) == /\ p.id \in (IF p.type = "MAP" THEN MapId ELSE ReduceId)
                      /\ p.pc \in {"open", "write"} => p.type = "REDUCE"
<1>1. worker \in [Worker -> Process] /\ \A w \in Worker : Owns(worker[w])
  BY DEF TypeOK, Process, OwnIds
<1>2. SUFFICES \A v \in Worker : Owns(worker'[v])
  BY DEF OwnIds
<1>3. Owns(Asking) /\ Owns(Ended) /\ \A w : Owns(AfterCommit(w))
  BY IdFacts DEF Asking, Ended, AfterCommit
<1>4. CASE UNCHANGED worker
  BY <1>1, <1>4
<1>5. ASSUME NEW w \in Worker, AssignTask(w) PROVE \A v \in Worker : Owns(worker'[v])
  <2>1. PICK k \in 1..Len(idle) : IsChosen(k) /\ worker' = [worker EXCEPT ![w] = Assigned(idle[k])]
    BY <1>5 DEF AssignTask
  <2>2. idle[k] \in (IF phase = "MAP" THEN MapId ELSE ReduceId)
    BY <2>1, TasksType DEF IsChosen, InRange
  <2>3. Owns(Assigned(idle[k]))
    BY <1>3, <2>2 DEF Assigned, TypeOK
  <2> QED
    BY <1>1, <2>1, <2>3
<1>6. ASSUME NEW w \in Worker,
             AssignNothing(w) \/ DoMapTask(w) \/ ReadInputs(w) \/ OpenOutput(w) \/ WriteOutput(w)
             \/ CallFails(w) \/ CommitMapTask(w) \/ CommitReduceTask(w)
      PROVE  \A v \in Worker : Owns(worker'[v])
  BY <1>1, <1>3, <1>6 DEF Process, AssignNothing, DoMapTask, ReadInputs, OpenOutput, WriteOutput,
                          CallFails, CommitMapTask, CommitReduceTask
<1>7. ASSUME NEW w \in Worker, CommitIgnored(w) PROVE \A v \in Worker : Owns(worker'[v])
  <2>1. \A v \in Worker : Owns(Unlinked(v, worker[w].id))
    BY <1>1 DEF Unlinked, Process
  <2> QED
    BY <1>1, <1>3, <1>7, <2>1 DEF CommitIgnored
<1>8. ASSUME NEW w \in Worker, Crash(w) PROVE \A v \in Worker : Owns(worker'[v])
  BY <1>1, <1>3, <1>8 DEF Crash
<1>9. ASSUME NEW w \in Worker, AssignUndefined(w) \/ CommitMapUndefined(w) PROVE UNCHANGED worker
  BY <1>9 DEF AssignUndefined, CommitMapUndefined
<1>10. ASSUME NEW ids \in SUBSET inProgress, DetectTimeoutTask(ids) PROVE UNCHANGED worker
  BY <1>10 DEF DetectTimeoutTask
<1> QED
  BY <1>4, <1>5, <1>6, <1>7, <1>8, <1>9, <1>10 DEF Next, WorkerStep, ExitServer, vars

(* The phase, as far as the processes can tell: it is switched by a commit *)
(* of a map task when all map results are there, and by one of a reduce    *)
(* task, and reduce tasks do not change before the reduce phase.           *)
PhaseMoved ==
    /\ phase' = "MAP" => phase = "MAP" /\ reduceState' = reduceState
    /\ phase' = "REDUCE" /\ phase = "MAP" =>
          /\ inter' = MapId /\ reduceState' = reduceState
          /\ \A w \in Worker : worker'[w].type = "MAP"
    /\ phase' = "REDUCE" /\ phase # "MAP" => phase = "REDUCE" /\ inter' = inter

SamePhase ==
    phase' = phase /\ inter' = inter /\ (phase = "MAP" => reduceState' = reduceState)

LEMMA PhaseMoves == TypeOK /\ NothingReducedYet /\ [Next]_vars => PhaseMoved
<1> SUFFICES ASSUME TypeOK, NothingReducedYet, [Next]_vars PROVE PhaseMoved
  OBVIOUS
<1>1. SamePhase => PhaseMoved
  BY DEF SamePhase, PhaseMoved
<1>2. ASSUME NEW w \in Worker, AssignTask(w) PROVE SamePhase
  BY <1>2 DEF AssignTask, SetTask, fileVars, SamePhase
<1>3. ASSUME NEW w \in Worker,
             AssignNothing(w) \/ DoMapTask(w) \/ ReadInputs(w) \/ OpenOutput(w) \/ WriteOutput(w)
             \/ CallFails(w) \/ CommitIgnored(w) \/ Crash(w)
      PROVE  SamePhase
  BY <1>3 DEF AssignNothing, DoMapTask, ReadInputs, OpenOutput, WriteOutput, CallFails,
              CommitIgnored, Crash, masterVars, fileVars, SamePhase
<1>4. ASSUME NEW w \in Worker, CommitMapTask(w), IsLast(NumMap)
      PROVE  /\ phase' = "REDUCE" /\ phase = "MAP" /\ inter' = MapId /\ reduceState' = reduceState
             /\ \A v \in Worker : worker'[v].type = "MAP"
  <2>1. /\ phase' = "REDUCE" /\ phase = "MAP" /\ inter' = MapId /\ reduceState' = reduceState
        /\ worker' = [worker EXCEPT ![w] = AfterCommit(w)]
    BY <1>4 DEF CommitMapTask, SwitchToReduceState, SetTask
  <2>2. AfterCommit(w).type = "MAP"
    BY DEF AfterCommit, Asking, Ended
  <2> QED
    BY <2>1, <2>2 DEF NothingReducedYet, TypeOK
<1>5. ASSUME NEW w \in Worker, CommitMapTask(w), ~IsLast(NumMap)
      PROVE  phase' = "MAP" /\ phase = "MAP" /\ reduceState' = reduceState
  BY <1>5 DEF CommitMapTask, SetTask
<1>6. ASSUME NEW w \in Worker, CommitReduceTask(w)
      PROVE  phase = "REDUCE" /\ (phase' = "REDUCE" => inter' = inter) /\ phase' # "MAP"
  BY <1>6 DEF CommitReduceTask
<1>7. ASSUME NEW w \in Worker, AssignUndefined(w) \/ CommitMapUndefined(w)
      PROVE  SamePhase
  BY <1>7 DEF AssignUndefined, CommitMapUndefined, Undefined, fileVars, SamePhase
<1>8. ASSUME NEW ids \in SUBSET inProgress, DetectTimeoutTask(ids) PROVE SamePhase
  BY <1>8 DEF DetectTimeoutTask, Undefined, fileVars, SamePhase
<1>9. ASSUME ExitServer PROVE SamePhase
  BY <1>9 DEF ExitServer, fileVars, SamePhase
<1>10. ASSUME UNCHANGED vars PROVE SamePhase
  BY <1>10 DEF vars, masterVars, fileVars, SamePhase
<1>11. ASSUME NEW w \in Worker, CommitMapTask(w) \/ CommitReduceTask(w) PROVE PhaseMoved
  BY <1>4, <1>5, <1>6, <1>11 DEF PhaseMoved
<1> QED
  BY <1>1, <1>2, <1>3, <1>7, <1>8, <1>9, <1>10, <1>11 DEF Next, WorkerStep

LEMMA NothingReducedStep == TypeOK /\ NothingReducedYet /\ [Next]_vars => NothingReducedYet'
<1> SUFFICES ASSUME TypeOK, NothingReducedYet, [Next]_vars, phase' = "MAP"
             PROVE  /\ \A r \in ReduceId : reduceState'[r] = "IDLE"
                    /\ \A v \in Worker : worker'[v].type = "MAP"
  BY DEF NothingReducedYet
<1>1. phase = "MAP" /\ reduceState' = reduceState
  BY PhaseMoves DEF PhaseMoved
<1>2. /\ worker \in [Worker -> Process] /\ \A v \in Worker : worker[v].type = "MAP"
      /\ \A r \in ReduceId : reduceState[r] = "IDLE"
  BY <1>1 DEF TypeOK, Process, NothingReducedYet
<1>3. Asking.type = "MAP" /\ Ended.type = "MAP" /\ \A w : AfterCommit(w).type = "MAP"
  BY DEF Asking, Ended, AfterCommit
<1>4. \A id : Assigned(id).type = "MAP"
  BY <1>1 DEF Assigned
<1>5. CASE UNCHANGED worker
  BY <1>1, <1>2, <1>5
<1>6. ASSUME NEW w \in Worker,
             AssignTask(w) \/ AssignNothing(w) \/ DoMapTask(w) \/ ReadInputs(w) \/ OpenOutput(w)
             \/ WriteOutput(w) \/ CallFails(w) \/ CommitMapTask(w) \/ CommitReduceTask(w)
      PROVE  \A v \in Worker : worker'[v].type = "MAP"
  BY <1>2, <1>3, <1>4, <1>6 DEF Process, AssignTask, AssignNothing, DoMapTask, ReadInputs,
                    OpenOutput, WriteOutput, CallFails, CommitMapTask, CommitReduceTask
<1>7. ASSUME NEW w \in Worker, CommitIgnored(w) PROVE \A v \in Worker : worker'[v].type = "MAP"
  <2>1. worker[w].type # "REDUCE"
    BY <1>2
  <2> QED
    BY <1>2, <1>3, <1>7, <2>1 DEF CommitIgnored
<1>8. ASSUME NEW w \in Worker, Crash(w) PROVE \A v \in Worker : worker'[v].type = "MAP"
  BY <1>2, <1>3, <1>8 DEF Crash
<1>9. ASSUME NEW w \in Worker, AssignUndefined(w) \/ CommitMapUndefined(w) PROVE UNCHANGED worker
  BY <1>9 DEF AssignUndefined, CommitMapUndefined
<1>10. ASSUME NEW ids \in SUBSET inProgress, DetectTimeoutTask(ids) PROVE UNCHANGED worker
  BY <1>10 DEF DetectTimeoutTask
<1> QED
  BY <1>1, <1>2, <1>5, <1>6, <1>7, <1>8, <1>9, <1>10 DEF Next, WorkerStep, ExitServer, vars

LEMMA WholeStep ==
    TypeOK /\ NothingReducedYet /\ WholeInReducePhase /\ [Next]_vars => WholeInReducePhase'
<1> SUFFICES ASSUME TypeOK, NothingReducedYet, WholeInReducePhase, [Next]_vars, phase' = "REDUCE"
             PROVE  WholeInReducePhase'
  BY DEF WholeInReducePhase
<1> DEFINE Whole(q, done) ==
      q.type = "REDUCE" =>
         /\ q.pc \in {"open", "write", "commit"} => q.whole
         /\ q.pc = "commit" => q.id \in done
<1>1. CASE phase = "MAP"
  BY <1>1, PhaseMoves DEF PhaseMoved, WholeInReducePhase
<1>2. CASE phase # "MAP"
  <2>1. phase = "REDUCE" /\ inter' = MapId /\ inter = MapId
    BY <1>2, PhaseMoves DEF PhaseMoved, WholeInReducePhase
  <2>2. worker \in [Worker -> Process] /\ \A v \in Worker : Whole(worker[v], finished)
    BY <2>1 DEF TypeOK, Process, WholeInReducePhase
  <2>3. SUFFICES \A v \in Worker : Whole(worker'[v], finished')
    BY <2>1 DEF WholeInReducePhase
  <2>4. \A done : /\ Whole(Asking, done) /\ Whole(Ended, done)
                  /\ \A w : Whole(AfterCommit(w), done)
                  /\ \A id : Whole(Assigned(id), done)
    BY DEF Asking, Ended, AfterCommit, Assigned
  <2>5. CASE UNCHANGED <<worker, finished>>
    BY <2>2, <2>5
  <2>6. ASSUME NEW w \in Worker,
               AssignTask(w) \/ AssignNothing(w) \/ CallFails(w) \/ CommitMapTask(w)
               \/ CommitReduceTask(w) \/ Crash(w)
        PROVE  \A v \in Worker : Whole(worker'[v], finished')
    <3>1. /\ finished' = finished
          /\ \A v \in Worker :
                worker'[v] = worker[v] \/ worker'[v] = Ended \/ worker'[v] = AfterCommit(w)
                \/ \E id : worker'[v] = Assigned(id)
      BY <2>2, <2>6 DEF AssignTask, AssignNothing, CallFails, CommitMapTask, CommitReduceTask, Crash
    <3> QED
      BY <2>2, <2>4, <3>1
  <2>7. ASSUME NEW w \in Worker, DoMapTask(w) \/ ReadInputs(w) \/ OpenOutput(w)
        PROVE  \A v \in Worker : Whole(worker'[v], finished')
    BY <2>1, <2>2, <2>7 DEF Process, DoMapTask, ReadInputs, OpenOutput
  <2>8. ASSUME NEW w \in Worker, WriteOutput(w)
        PROVE  \A v \in Worker : Whole(worker'[v], finished')
    <3>1. worker' = [worker EXCEPT ![w].pc = "commit"] /\ worker[w].pc = "write"
      BY <2>8 DEF WriteOutput
    <3>2. finished \subseteq finished' /\ (worker[w].whole => worker[w].id \in finished')
      BY <2>8 DEF WriteOutput
    <3>3. Whole(worker'[w], finished')
      BY <2>2, <3>1, <3>2 DEF Process
    <3>4. ASSUME NEW v \in Worker, v # w PROVE Whole(worker'[v], finished')
      BY <2>2, <3>1, <3>2, <3>4
    <3> QED
      BY <3>3, <3>4
  <2>9. ASSUME NEW w \in Worker, CommitIgnored(w)
        PROVE  \A v \in Worker : Whole(worker'[v], finished')
    <3>1. \A v \in Worker : Whole(Unlinked(v, worker[w].id), finished)
      BY <2>2 DEF Unlinked, Process
    <3>2. /\ finished' = finished
          /\ \A v \in Worker :
                \/ worker'[v] = worker[v] \/ worker'[v] = AfterCommit(w)
                \/ worker'[v] = Unlinked(v, worker[w].id)
      BY <2>2, <2>9 DEF CommitIgnored
    <3> QED
      BY <2>2, <2>4, <3>1, <3>2
  <2>10. ASSUME NEW w \in Worker, AssignUndefined(w) \/ CommitMapUndefined(w)
         PROVE  UNCHANGED <<worker, finished>>
    BY <2>10 DEF AssignUndefined, CommitMapUndefined, Undefined
  <2>11. ASSUME NEW ids \in SUBSET inProgress, DetectTimeoutTask(ids)
         PROVE  UNCHANGED <<worker, finished>>
    BY <2>11 DEF DetectTimeoutTask, Undefined
  <2> QED
    BY <2>5, <2>6, <2>7, <2>8, <2>9, <2>10, <2>11 DEF Next, WorkerStep, ExitServer, vars
<1> QED
  BY <1>1, <1>2

LEMMA CountsStep ==
    TypeOK /\ NothingReducedYet /\ WholeInReducePhase /\ OnlyFinishedCounts /\ [Next]_vars
    => OnlyFinishedCounts'
<1> SUFFICES ASSUME TypeOK, NothingReducedYet, WholeInReducePhase, OnlyFinishedCounts, [Next]_vars
             PROVE  OnlyFinishedCounts'
  OBVIOUS
<1>1. CASE finished \subseteq finished' /\ UNCHANGED reduceState
  BY <1>1 DEF OnlyFinishedCounts
<1>2. ASSUME NEW w \in Worker, AssignTask(w) PROVE OnlyFinishedCounts'
  BY <1>2 DEF AssignTask, SetTask, OnlyFinishedCounts, TypeOK
<1>3. ASSUME NEW w \in Worker,
             AssignNothing(w) \/ DoMapTask(w) \/ ReadInputs(w) \/ OpenOutput(w) \/ WriteOutput(w)
             \/ CallFails(w) \/ CommitIgnored(w) \/ Crash(w)
      PROVE  finished \subseteq finished' /\ UNCHANGED reduceState
  BY <1>3 DEF AssignNothing, DoMapTask, ReadInputs, OpenOutput, WriteOutput, CallFails,
              CommitIgnored, Crash, masterVars
<1>4. ASSUME NEW w \in Worker, CommitMapTask(w)
      PROVE  finished \subseteq finished' /\ UNCHANGED reduceState
  BY <1>4 DEF CommitMapTask, SetTask
<1>5. ASSUME NEW w \in Worker, CommitReduceTask(w) PROVE OnlyFinishedCounts'
  <2>1. worker[w].type = "REDUCE" /\ worker[w].pc = "commit" /\ phase = "REDUCE"
    BY <1>5 DEF CommitReduceTask, IsWanted, Committing
  <2>2. worker[w].id \in finished
    BY <2>1 DEF WholeInReducePhase
  <2>3. reduceState' = [reduceState EXCEPT ![worker[w].id] = "COMPLETED"] /\ finished' = finished
    BY <1>5, <2>1 DEF CommitReduceTask, SetTask
  <2> QED
    BY <2>2, <2>3 DEF OnlyFinishedCounts, TypeOK
<1>6. ASSUME NEW w \in Worker, AssignUndefined(w) \/ CommitMapUndefined(w)
      PROVE  finished \subseteq finished' /\ UNCHANGED reduceState
  BY <1>6 DEF AssignUndefined, CommitMapUndefined, Undefined
<1>7. ASSUME NEW ids \in SUBSET inProgress, DetectTimeoutTask(ids) PROVE OnlyFinishedCounts'
  <2>1. finished' = finished
    BY <1>7 DEF DetectTimeoutTask, Undefined
  <2>2. \A r \in ReduceId : reduceState'[r] = "COMPLETED" => reduceState[r] = "COMPLETED"
    BY <1>7, TasksType DEF DetectTimeoutTask, Undefined, TimedOut, Tasks, TypeOK
  <2> QED
    BY <2>1, <2>2 DEF OnlyFinishedCounts
<1> QED
  BY <1>1, <1>2, <1>3, <1>4, <1>5, <1>6, <1>7 DEF Next, WorkerStep, ExitServer, vars, masterVars
-----------------------------------------------------------------------------
(***************************************************************************)
(* No task is lost.                                                        *)
(***************************************************************************)
LEMMA LostInit == Init => NoTaskLost
<1> SUFFICES ASSUME Init, NEW m \in MapId PROVE \E k \in DOMAIN idle : idle[k] = m
  BY DEF Init, NoTaskLost, Tasks
<1>1. idle = [k \in 1..NumMap |-> k - 1]
  BY DEF Init
<1>2. m + 1 \in 1..NumMap /\ (m + 1) - 1 = m
  BY TaskAssumption DEF MapId
<1> QED
  BY <1>1, <1>2

(* What is pushed is found behind what was there.                          *)
LEMMA PushedQueue ==
    ASSUME NEW S, NEW q \in Seq(S), NEW new \in Seq(S), NEW k \in 1..Len(new)
    PROVE  Len(q) + k \in DOMAIN (q \o new) /\ (q \o new)[Len(q) + k] = new[k]
  OBVIOUS

LEMMA LostStep ==
    TypeOK /\ OwnIds /\ NothingReducedYet /\ NoTaskLost /\ [Next]_vars => NoTaskLost'
<1> SUFFICES ASSUME TypeOK, OwnIds, NothingReducedYet, NoTaskLost, [Next]_vars
             PROVE  NoTaskLost'
  OBVIOUS
<1>1. idle \in Seq(TaskId) /\ DOMAIN idle = 1..Len(idle) /\ Len(idle) \in Nat
  BY DEF TypeOK
<1>2. ASSUME UNCHANGED <<phase, mapState, reduceState, idle, inProgress>> PROVE NoTaskLost'
  BY <1>2 DEF NoTaskLost, Tasks
<1>3. ASSUME NEW w \in Worker, AssignTask(w) PROVE NoTaskLost'
  <2>1. PICK k \in 1..Len(idle) :
           /\ IsChosen(k)
           /\ idle' = SubSeq(idle, k + 1, Len(idle))
           /\ inProgress' = inProgress \cup {idle[k]}
           /\ SetTask(idle[k], "IN_PROGRESS")
    BY <1>3 DEF AssignTask
  <2>2. Tasks' = [Tasks EXCEPT ![idle[k]] = "IN_PROGRESS"]
    BY <1>3, <2>1, OneTaskChanges DEF AssignTask
  <2>3. /\ idle' \in Seq(TaskId)
        /\ \A j \in k + 1..Len(idle) : \E i \in 1..Len(idle') : idle'[i] = idle[j]
    BY <1>1, <2>1, PoppedQueue
  <2>4. DOMAIN idle' = 1..Len(idle')
    BY <2>3
  <2>5. ASSUME NEW id \in DOMAIN Tasks, Tasks'[id] = "IDLE"
        PROVE  \E i \in DOMAIN idle' : idle'[i] = id
    <3>1. id # idle[k] /\ Tasks[id] = "IDLE"
      BY <2>2, <2>5
    <3>2. PICK j \in 1..Len(idle) : idle[j] = id
      BY <1>1, <3>1 DEF NoTaskLost
    <3>3. ~(j < k)
      BY <2>1, <3>1, <3>2 DEF IsChosen, PoppedUntil
    <3>4. j \in k + 1..Len(idle)
      BY <1>1, <3>1, <3>2, <3>3
    <3> QED
      BY <2>3, <2>4, <3>2, <3>4
  <2>6. \A id \in DOMAIN Tasks : Tasks'[id] = "IN_PROGRESS" => id \in inProgress'
    BY <2>1, <2>2 DEF NoTaskLost
  <2> QED
    BY <2>2, <2>5, <2>6 DEF NoTaskLost
<1>4. ASSUME NEW w \in Worker,
             AssignNothing(w) \/ DoMapTask(w) \/ ReadInputs(w) \/ OpenOutput(w) \/ WriteOutput(w)
             \/ CallFails(w) \/ CommitIgnored(w) \/ Crash(w)
      PROVE  UNCHANGED <<phase, mapState, reduceState, idle, inProgress>>
  BY <1>4 DEF AssignNothing, DoMapTask, ReadInputs, OpenOutput, WriteOutput, CallFails,
              CommitIgnored, Crash, masterVars
<1>5. ASSUME NEW id, SetTask(id, "COMPLETED"), inProgress' = inProgress \ {id}, idle' = idle,
             phase' = phase \/ (phase = "REDUCE" /\ phase' = "COMPLETED")
      PROVE  NoTaskLost'
  <2>1. Tasks' = [Tasks EXCEPT ![id] = "COMPLETED"]
    BY <1>5, OneTaskChanges
  <2> QED
    BY <1>5, <2>1 DEF NoTaskLost
<1>6. ASSUME NEW w \in Worker, CommitMapTask(w) PROVE NoTaskLost'
  <2>1. CASE ~IsLast(NumMap)
    BY <1>5, <1>6, <2>1 DEF CommitMapTask
  <2>2. CASE IsLast(NumMap)
    <3> DEFINE ids == [k \in 1..NumReduce |-> k - 1]
    <3>1. /\ phase = "MAP" /\ phase' = "REDUCE" /\ reduceState' = reduceState
          /\ idle' = idle \o ids
      BY <1>6, <2>2 DEF CommitMapTask, SwitchToReduceState, SetTask
    <3>2. Tasks' = reduceState /\ DOMAIN Tasks' = ReduceId
      BY <3>1 DEF Tasks, TypeOK
    <3>3. ids \in Seq(TaskId) /\ Len(ids) = NumReduce
      BY TaskAssumption DEF ReduceId, TaskId
    <3>4. ASSUME NEW r \in ReduceId PROVE \E k \in DOMAIN idle' : idle'[k] = r
      <4>1. r + 1 \in 1..NumReduce /\ ids[r + 1] = r
        BY TaskAssumption DEF ReduceId
      <4>2. idle'[Len(idle) + (r + 1)] = r /\ Len(idle) + (r + 1) \in DOMAIN idle'
        <5>1. r + 1 \in 1..Len(ids)
          BY <3>3, <4>1
        <5>2. idle' = idle \o ids /\ ids[r + 1] = r
          BY <3>1, <4>1
        <5> HIDE DEF ids
        <5> QED
          BY <1>1, <3>3, <5>1, <5>2, PushedQueue
      <4> QED
        BY <4>2
    <3>5. \A r \in ReduceId : Tasks'[r] = "IDLE"
      BY <3>1, <3>2 DEF NothingReducedYet
    <3> QED
      BY <3>2, <3>4, <3>5 DEF NoTaskLost
  <2> QED
    BY <2>1, <2>2
<1>7. ASSUME NEW w \in Worker, CommitReduceTask(w) PROVE NoTaskLost'
  <2>1. /\ SetTask(worker[w].id, "COMPLETED") /\ inProgress' = inProgress \ {worker[w].id}
        /\ idle' = idle
        /\ phase' = phase \/ (phase = "REDUCE" /\ phase' = "COMPLETED")
    BY <1>7 DEF CommitReduceTask
  <2> QED
    BY <1>5, <2>1
<1>8. ASSUME NEW w \in Worker, AssignUndefined(w) \/ CommitMapUndefined(w)
      PROVE  UNCHANGED <<phase, mapState, reduceState, idle, inProgress>>
  BY <1>8 DEF AssignUndefined, CommitMapUndefined, Undefined
<1>9. ASSUME NEW ids \in SUBSET inProgress, DetectTimeoutTask(ids) PROVE NoTaskLost'
  <2>1. CASE ~ \A id \in ids : InRange(id)
    BY <1>2, <1>9, <2>1 DEF DetectTimeoutTask, Undefined
  <2>2. CASE \A id \in ids : InRange(id)
    <3>1. PICK order \in Orders(ids) : idle' = idle \o order
      BY <1>9, <2>2 DEF DetectTimeoutTask
    <3>2. order \in Seq(TaskId) /\ \A id \in ids : \E k \in 1..Len(order) : order[k] = id
      <4>1. ids \subseteq TaskId
        BY DEF TypeOK
      <4> QED
        BY <3>1, <4>1, OrdersFacts
    <3>3. Tasks' = TimedOut(ids) /\ inProgress' = inProgress \ ids
      BY <1>9, <2>2 DEF DetectTimeoutTask, Tasks
    <3>4. ASSUME NEW id \in ids PROVE \E k \in DOMAIN idle' : idle'[k] = id
      <4>1. PICK k \in 1..Len(order) : order[k] = id
        BY <3>2
      <4>2. Len(idle) + k \in DOMAIN idle' /\ idle'[Len(idle) + k] = id
        BY <1>1, <3>1, <3>2, <4>1, PushedQueue
      <4> QED
        BY <4>2
    <3>5. ASSUME NEW id \in DOMAIN Tasks, Tasks[id] = "IDLE"
          PROVE  \E k \in DOMAIN idle' : idle'[k] = id
      <4>1. PICK k \in 1..Len(idle) : idle[k] = id
        BY <1>1, <3>5 DEF NoTaskLost
      <4>2. k \in DOMAIN idle' /\ idle'[k] = id
        BY <1>1, <3>1, <3>2, <4>1
      <4> QED
        BY <4>2
    <3> QED
      BY <3>3, <3>4, <3>5 DEF NoTaskLost, TimedOut
  <2> QED
    BY <2>1, <2>2
<1>10. CASE ExitServer
  BY <1>2, <1>10 DEF ExitServer
<1>11. CASE UNCHANGED vars
  BY <1>2, <1>11 DEF vars, masterVars
<1> QED
  BY <1>2, <1>3, <1>4, <1>6, <1>7, <1>8, <1>9, <1>10, <1>11 DEF Next, WorkerStep
-----------------------------------------------------------------------------
(***************************************************************************)
(* Without slow workers.  The queue is then exactly the idle tasks, each   *)
(* once, and inProgress_ the tasks in progress, so that nothing is left of *)
(* the map phase when the reduce phase begins.  A task in progress has at  *)
(* most one holder, and nobody holds any other.                            *)
(***************************************************************************)
Busy(w) == worker[w].pc \in {"work", "open", "write", "commit"}

QueueIsIdle ==
    /\ \A k \in 1..Len(idle) : InRange(idle[k]) /\ Tasks[idle[k]] = "IDLE"
    /\ \A j, k \in 1..Len(idle) : idle[j] = idle[k] => j = k

WatchedInProgress ==
    \A id \in inProgress : InRange(id) /\ Tasks[id] = "IN_PROGRESS"

HoldsInProgress(w) ==
    Busy(w) =>
        /\ worker[w].type = phase
        /\ Tasks[worker[w].id] = "IN_PROGRESS"
        /\ worker[w].linked

OneHolder ==
    \A v, w \in Worker :
        Busy(v) /\ Busy(w) /\ worker[v].id = worker[w].id => v = w

Counted ==
    /\ completedCnt = Cardinality(Completed)
    /\ phase = "MAP" => inter = Completed
    /\ phase = "COMPLETED" => Completed = ReduceId

WholeOutput ==
    /\ \A r \in ReduceId : reduceState[r] = "COMPLETED" => out[r] = "whole"
    /\ \A w \in Worker : worker[w].pc = "commit" /\ worker[w].type = "REDUCE" =>
          out[worker[w].id] = "whole"

Orderly ==
    /\ master # "undefined"
    /\ QueueIsIdle
    /\ WatchedInProgress
    /\ \A w \in Worker : HoldsInProgress(w)
    /\ OneHolder
    /\ Counted
    /\ WholeOutput

LEMMA CompletedFacts ==
    ASSUME TypeOK
    PROVE  /\ IsFiniteSet(MapId) /\ Cardinality(MapId) = NumMap
           /\ IsFiniteSet(ReduceId) /\ Cardinality(ReduceId) = NumReduce
           /\ Completed \subseteq DOMAIN Tasks /\ IsFiniteSet(Completed)
<1>1. /\ IsFiniteSet(MapId) /\ Cardinality(MapId) = NumMap
      /\ IsFiniteSet(ReduceId) /\ Cardinality(ReduceId) = NumReduce
  BY TaskAssumption, FS_Interval, SMTT(30) DEF MapId, ReduceId
<1>2. Completed \subseteq DOMAIN Tasks
  BY DEF Completed
<1> QED
  BY <1>1, <1>2, TasksType, FS_Subset

(* A holder whose work is unfinished has a task of the phase.              *)
LEMMA HeldIsWanted ==
    ASSUME TypeOK, OwnIds, Orderly, NEW w \in Worker, Busy(w)
    PROVE  /\ worker[w].type = phase /\ worker[w].id \in DOMAIN Tasks
           /\ Tasks[worker[w].id] = "IN_PROGRESS" /\ IsWanted(w)
           /\ worker[w].id \notin Completed
<1>1. /\ worker[w].type = phase /\ Tasks[worker[w].id] = "IN_PROGRESS"
  BY DEF Orderly, HoldsInProgress
<1>2. worker[w].id \in DOMAIN Tasks
  BY <1>1, TasksType DEF OwnIds
<1> QED
  BY <1>1, <1>2 DEF IsWanted, Completed

LEMMA AssignOrderly ==
    ASSUME JobInv, Orderly, NEW w \in Worker, AssignTask(w)
    PROVE  Orderly'
<1>0. TypeOK /\ OwnIds
  BY DEF JobInv
<1>1. PICK k \in 1..Len(idle) :
         /\ IsChosen(k)
         /\ idle' = SubSeq(idle, k + 1, Len(idle))
         /\ inProgress' = inProgress \cup {idle[k]}
         /\ SetTask(idle[k], "IN_PROGRESS")
         /\ worker' = [worker EXCEPT ![w] = Assigned(idle[k])]
  BY DEF AssignTask
<1> DEFINE id == idle[k]
<1>2. idle \in Seq(TaskId) /\ Len(idle) \in Nat /\ worker \in [Worker -> Process]
  BY <1>0 DEF TypeOK, Process
<1>3. id \in DOMAIN Tasks /\ Tasks[id] = "IDLE" /\ k = 1
  <2>1. id \in DOMAIN Tasks /\ Tasks[id] = "IDLE"
    BY DEF Orderly, QueueIsIdle, InRange
  <2>2. ASSUME k # 1 PROVE FALSE
    <3>1. 1 \in 1..k - 1 /\ 1 \in 1..Len(idle)
      BY <1>2, <2>2
    <3> QED
      BY <1>1, <3>1 DEF Orderly, QueueIsIdle, IsChosen, PoppedUntil
  <2> QED
    BY <2>1, <2>2
<1>4. phase # "COMPLETED"
  <2>1. CASE phase = "COMPLETED"
    <3>1. Completed = ReduceId /\ DOMAIN Tasks = ReduceId
      BY <1>0, <2>1, TasksType DEF Orderly, Counted
    <3> QED
      BY <1>3, <3>1 DEF Completed
  <2> QED
    BY <2>1
<1>5. /\ master' = master /\ phase' = phase /\ completedCnt' = completedCnt
      /\ inter' = inter /\ out' = out
  BY DEF AssignTask, fileVars
<1>6. Tasks' = [Tasks EXCEPT ![id] = "IN_PROGRESS"]
  BY <1>1, <1>5, OneTaskChanges
<1>7. QueueIsIdle'
  <2>1. /\ idle' \in Seq(TaskId) /\ Len(idle') = Len(idle) - 1
        /\ \A i \in 1..Len(idle) - 1 : idle'[i] = idle[i + 1]
    <3>1. /\ idle' \in Seq(TaskId) /\ Len(idle') = Len(idle) - k
          /\ \A i \in 1..Len(idle) - k : idle'[i] = idle[k + i]
      BY <1>1, <1>2, PoppedRest
    <3> QED
      BY <1>2, <1>3, <3>1
  <2>2. ASSUME NEW i \in 1..Len(idle')
        PROVE  /\ idle'[i] \in DOMAIN Tasks' /\ Tasks'[idle'[i]] = "IDLE"
               /\ \A j \in 1..Len(idle') : idle'[j] = idle'[i] => i = j
    <3>1. i + 1 \in 1..Len(idle) /\ i + 1 # 1
      BY <1>2, <2>1
    <3>2. idle'[i] = idle[i + 1] /\ idle'[i] # id
      BY <1>2, <1>3, <2>1, <3>1 DEF Orderly, QueueIsIdle
    <3>3. idle'[i] \in DOMAIN Tasks /\ Tasks[idle'[i]] = "IDLE"
      BY <3>1, <3>2 DEF Orderly, QueueIsIdle, InRange
    <3>4. ASSUME NEW j \in 1..Len(idle'), idle'[j] = idle'[i] PROVE i = j
      <4>1. j + 1 \in 1..Len(idle) /\ idle'[j] = idle[j + 1]
        BY <1>2, <2>1
      <4>2. j + 1 = i + 1
        BY <3>1, <3>2, <3>4, <4>1 DEF Orderly, QueueIsIdle
      <4> QED
        BY <2>1, <4>2
    <3> QED
      BY <1>6, <3>2, <3>3, <3>4
  <2> QED
    BY <2>2 DEF QueueIsIdle, InRange
<1>8. WatchedInProgress'
  BY <1>1, <1>3, <1>6 DEF Orderly, WatchedInProgress, InRange
<1>9. /\ worker'[w].pc = "work" /\ worker'[w].type = phase /\ worker'[w].id = id
      /\ worker'[w].linked
      /\ \A v \in Worker : v # w => worker'[v] = worker[v]
  BY <1>1, <1>2, <1>4 DEF Assigned
<1>10. \A v \in Worker : v # w /\ Busy(v) => worker[v].id # id /\ worker[v].id \in DOMAIN Tasks
  BY <1>0, <1>3, HeldIsWanted
<1>11. \A v \in Worker : HoldsInProgress(v)'
  BY <1>3, <1>5, <1>6, <1>9, <1>10 DEF Orderly, HoldsInProgress, Busy
<1>12. OneHolder'
  BY <1>9, <1>10 DEF Orderly, OneHolder, Busy
<1>13. Counted'
  <2>1. Completed' = Completed
    BY <1>3, <1>6 DEF Completed
  <2> QED
    BY <1>5, <2>1 DEF Orderly, Counted
<1>14. WholeOutput'
  <2>1. \A r \in ReduceId : reduceState'[r] = "COMPLETED" => reduceState[r] = "COMPLETED"
    BY <1>0, <1>1 DEF SetTask, TypeOK
  <2>2. \A v \in Worker : worker'[v].pc = "commit" => worker'[v] = worker[v]
    BY <1>9
  <2> QED
    BY <1>5, <2>1, <2>2 DEF Orderly, WholeOutput
<1> QED
  BY <1>5, <1>7, <1>8, <1>11, <1>12, <1>13, <1>14 DEF Orderly

(* A step of one worker that changes no task, and no holder but by ending  *)
(* it, leaves everything in order, if the output stays whole.              *)
LEMMA SameTasksOrderly ==
    ASSUME Orderly, UNCHANGED <<phase, mapState, reduceState, idle, inProgress, completedCnt, inter>>,
           master' # "undefined", WholeOutput',
           \A v \in Worker : Busy(v)' => /\ Busy(v) /\ worker'[v].id = worker[v].id
                                         /\ worker'[v].type = worker[v].type
                                         /\ worker'[v].linked = worker[v].linked
    PROVE  Orderly'
<1>1. Tasks' = Tasks
  BY DEF Tasks
<1>2. Completed' = Completed
  BY <1>1 DEF Completed
<1>3. QueueIsIdle' /\ WatchedInProgress' /\ Counted'
  BY <1>1, <1>2 DEF Orderly, QueueIsIdle, WatchedInProgress, Counted, InRange
<1>4. \A w \in Worker : HoldsInProgress(w)'
  BY <1>1 DEF Orderly, HoldsInProgress
<1>5. OneHolder'
  BY DEF Orderly, OneHolder
<1> QED
  BY <1>3, <1>4, <1>5 DEF Orderly

LEMMA WorkOrderly ==
    ASSUME JobInv, Orderly, NEW w \in Worker,
           AssignNothing(w) \/ DoMapTask(w) \/ ReadInputs(w) \/ CallFails(w) \/ Crash(w)
    PROVE  Orderly'
<1>0. worker \in [Worker -> Process]
  BY DEF JobInv, TypeOK, Process
<1>1. UNCHANGED <<masterVars, fileVars>>
  BY DEF AssignNothing, DoMapTask, ReadInputs, CallFails, Crash
<1>2. \A v \in Worker : v # w => worker'[v] = worker[v]
  BY <1>0 DEF AssignNothing, DoMapTask, ReadInputs, CallFails, Crash
<1>3. Busy(w)' => /\ Busy(w) /\ worker'[w].id = worker[w].id /\ worker'[w].type = worker[w].type
                  /\ worker'[w].linked = worker[w].linked
  BY <1>0 DEF AssignNothing, DoMapTask, ReadInputs, CallFails, Crash, Busy, Ended, Asking, Process
<1>4. worker'[w].pc = "commit" => worker'[w] = worker[w] \/ worker'[w].type = "MAP"
  BY <1>0 DEF AssignNothing, DoMapTask, ReadInputs, CallFails, Crash, Ended, Asking, Process
<1>5. WholeOutput'
  BY <1>1, <1>2, <1>4 DEF Orderly, WholeOutput, masterVars, fileVars
<1>6. \A v \in Worker : Busy(v)' => /\ Busy(v) /\ worker'[v].id = worker[v].id
                                    /\ worker'[v].type = worker[v].type
                                    /\ worker'[v].linked = worker[v].linked
  BY <1>2, <1>3 DEF Busy
<1> QED
  BY <1>1, <1>5, <1>6, SameTasksOrderly DEF masterVars, fileVars, Orderly

LEMMA WriteOrderly ==
    ASSUME JobInv, Orderly, NEW w \in Worker, OpenOutput(w) \/ WriteOutput(w)
    PROVE  Orderly'
<1>0. TypeOK /\ OwnIds /\ worker \in [Worker -> Process]
  BY DEF JobInv, TypeOK, Process
<1> DEFINE id == worker[w].id
<1>1. UNCHANGED <<masterVars, inter>>
  BY DEF OpenOutput, WriteOutput
<1>2. /\ worker[w].pc \in {"open", "write"} /\ Busy(w) /\ worker[w].type = "REDUCE"
      /\ phase = "REDUCE" /\ worker[w].linked /\ id \in ReduceId
  <2>1. worker[w].pc \in {"open", "write"} /\ Busy(w)
    BY DEF OpenOutput, WriteOutput, Busy
  <2> QED
    BY <1>0, <2>1 DEF OwnIds, Orderly, HoldsInProgress
<1>3. /\ \A v \in Worker : v # w => worker'[v] = worker[v]
      /\ worker'[w].id = id /\ worker'[w].type = "REDUCE"
      /\ worker'[w].linked = worker[w].linked
      /\ worker'[w].pc \in {"write", "commit"}
  <2>1. PICK pc \in {"write", "commit"} : worker' = [worker EXCEPT ![w].pc = pc]
    BY DEF OpenOutput, WriteOutput
  <2> QED
    BY <1>0, <1>2, <2>1 DEF Process
<1>4. \A r \in ReduceId : r # id => out'[r] = out[r]
  BY <1>0 DEF OpenOutput, WriteOutput, TypeOK
<1>5. worker'[w].pc = "commit" => out'[id] = "whole"
  <2>1. ASSUME WriteOutput(w) PROVE out'[id] = "whole"
    <3>1. worker[w].whole
      BY <1>2, <2>1 DEF JobInv, WholeInReducePhase, WriteOutput
    <3> QED
      BY <1>0, <1>2, <2>1, <3>1 DEF WriteOutput, TypeOK
  <2>2. ASSUME OpenOutput(w) PROVE worker'[w].pc = "write"
    BY <1>0, <2>2 DEF OpenOutput, Process
  <2> QED
    BY <2>1, <2>2
<1>6. reduceState[id] # "COMPLETED"
  BY <1>0, <1>2, HeldIsWanted DEF Tasks
<1>7. \A v \in Worker : v # w /\ Busy(v) => worker[v].id # id
  BY <1>2 DEF Orderly, OneHolder
<1>8. WholeOutput'
  <2>1. \A r \in ReduceId : reduceState'[r] = "COMPLETED" => out'[r] = "whole"
    BY <1>1, <1>4, <1>6 DEF masterVars, Orderly, WholeOutput
  <2>2. ASSUME NEW v \in Worker, v # w, worker'[v].pc = "commit", worker'[v].type = "REDUCE"
        PROVE  out'[worker'[v].id] = "whole"
    <3>1. worker'[v] = worker[v] /\ worker[v].id # id /\ worker[v].id \in ReduceId
      BY <1>0, <1>3, <1>7, <2>2 DEF Busy, OwnIds
    <3> QED
      BY <1>4, <2>2, <3>1 DEF Orderly, WholeOutput
  <2> QED
    BY <1>3, <1>5, <2>1, <2>2 DEF WholeOutput
<1>9. \A v \in Worker : Busy(v)' => /\ Busy(v) /\ worker'[v].id = worker[v].id
                                    /\ worker'[v].type = worker[v].type
                                    /\ worker'[v].linked = worker[v].linked
  BY <1>2, <1>3 DEF Busy
<1> QED
  BY <1>1, <1>8, <1>9, SameTasksOrderly DEF masterVars, Orderly

(* A commit changes one task, that of w, which had been its only holder.   *)
LEMMA CommitCounts ==
    ASSUME TypeOK, OwnIds, Orderly, NEW w \in Worker, Busy(w),
           Tasks' = [Tasks EXCEPT ![worker[w].id] = "COMPLETED"]
    PROVE  /\ Completed' = Completed \cup {worker[w].id}
           /\ Cardinality(Completed') = completedCnt + 1
<1>1. /\ worker[w].id \in DOMAIN Tasks /\ worker[w].id \notin Completed
  BY HeldIsWanted
<1>2. Completed' = Completed \cup {worker[w].id}
  BY <1>1 DEF Completed
<1>3. Cardinality(Completed \cup {worker[w].id}) = Cardinality(Completed) + 1
  BY <1>1, CompletedFacts, FS_AddElement
<1> QED
  BY <1>2, <1>3 DEF Orderly, Counted

(* When the count says so, all tasks of the phase are completed.           *)
LEMMA LastCompletes ==
    ASSUME TypeOK, NEW S, S \subseteq DOMAIN Tasks,
           Cardinality(S) = Cardinality(DOMAIN Tasks)
    PROVE  S = DOMAIN Tasks
<1>1. IsFiniteSet(DOMAIN Tasks)
  BY CompletedFacts, TasksType
<1> QED
  BY <1>1, FS_Subset

(* Everything but the phase is in order after a commit of w.               *)
LEMMA CommitHolders ==
    ASSUME JobInv, Orderly, NEW w \in Worker, worker[w].pc = "commit",
           worker' = [worker EXCEPT ![w] = AfterCommit(w)]
    PROVE  /\ ~Busy(w)' /\ worker'[w].pc # "commit"
           /\ \A v \in Worker : v # w => worker'[v] = worker[v]
           /\ OneHolder'
           /\ \A v \in Worker : Busy(v)' => worker[v].id # worker[w].id
<1>1. worker \in [Worker -> Process]
  BY DEF JobInv, TypeOK, Process
<1>2. ~Busy(w)' /\ worker'[w].pc # "commit"
  BY <1>1 DEF Busy, AfterCommit, Asking, Ended
<1>3. \A v \in Worker : v # w => worker'[v] = worker[v]
  BY <1>1
<1>4. OneHolder'
  BY <1>2, <1>3 DEF Orderly, OneHolder, Busy
<1>5. \A v \in Worker : Busy(v)' => worker[v].id # worker[w].id
  BY <1>2, <1>3 DEF Orderly, OneHolder, Busy
<1> QED
  BY <1>2, <1>3, <1>4, <1>5

(* A commit that leaves the phase as it is.                                *)
LEMMA CommitStays ==
    ASSUME JobInv, Orderly, NEW w \in Worker, worker[w].pc = "commit",
           SetTask(worker[w].id, "COMPLETED"), inProgress' = inProgress \ {worker[w].id},
           worker' = [worker EXCEPT ![w] = AfterCommit(w)],
           UNCHANGED <<phase, idle>>
    PROVE  /\ QueueIsIdle' /\ WatchedInProgress' /\ OneHolder'
           /\ \A v \in Worker : HoldsInProgress(v)'
<1>0. TypeOK /\ OwnIds /\ Busy(w)
  BY DEF JobInv, Busy
<1>1. Tasks' = [Tasks EXCEPT ![worker[w].id] = "COMPLETED"]
  BY OneTaskChanges
<1>2. Tasks[worker[w].id] = "IN_PROGRESS"
  BY <1>0, HeldIsWanted
<1>3. QueueIsIdle' /\ WatchedInProgress'
  BY <1>1, <1>2 DEF Orderly, QueueIsIdle, WatchedInProgress, InRange
<1>4. /\ ~Busy(w)' /\ OneHolder'
      /\ \A v \in Worker : v # w => worker'[v] = worker[v]
      /\ \A v \in Worker : Busy(v)' => worker[v].id # worker[w].id
  BY CommitHolders
<1>5. \A v \in Worker : HoldsInProgress(v)'
  BY <1>0, <1>1, <1>4 DEF Orderly, HoldsInProgress, Busy
<1> QED
  BY <1>3, <1>4, <1>5

LEMMA CommitMapOrderly ==
    ASSUME JobInv, Orderly, NEW w \in Worker, CommitMapTask(w)
    PROVE  Orderly'
<1>0. TypeOK /\ OwnIds /\ worker[w].pc = "commit" /\ Busy(w)
  BY DEF JobInv, CommitMapTask, Committing, Busy
<1> DEFINE id == worker[w].id
<1>1. /\ phase = "MAP" /\ SetTask(id, "COMPLETED") /\ inProgress' = inProgress \ {id}
      /\ inter' = inter \cup {id} /\ master' = master /\ out' = out
      /\ worker' = [worker EXCEPT ![w] = AfterCommit(w)]
      /\ mapState' = [mapState EXCEPT ![id] = "COMPLETED"] /\ reduceState' = reduceState
  BY DEF CommitMapTask, SetTask
<1>2. /\ ~Busy(w)' /\ worker'[w].pc # "commit" /\ OneHolder'
      /\ \A v \in Worker : v # w => worker'[v] = worker[v]
      /\ \A v \in Worker : Busy(v)' => worker[v].id # id
  BY <1>0, <1>1, CommitHolders
<1>3. WholeOutput'
  BY <1>1, <1>2 DEF Orderly, WholeOutput
<1>4. /\ id \in MapId /\ id \notin Completed /\ Completed \subseteq MapId
      /\ Cardinality(Completed \cup {id}) = completedCnt + 1
  <2>1. id \in DOMAIN Tasks /\ id \notin Completed /\ IsFiniteSet(Completed)
    BY <1>0, HeldIsWanted, CompletedFacts
  <2>2. Cardinality(Completed \cup {id}) = Cardinality(Completed) + 1
    BY <2>1, FS_AddElement
  <2> QED
    BY <1>0, <1>1, <2>1, <2>2, CompletedFacts, TasksType DEF Orderly, Counted
<1>5. CASE ~IsLast(NumMap)
  <2>1. UNCHANGED <<phase, idle>> /\ completedCnt' = completedCnt + 1
    BY <1>5 DEF CommitMapTask
  <2>2. Tasks' = [Tasks EXCEPT ![id] = "COMPLETED"]
    BY <1>1, <2>1, OneTaskChanges
  <2>3. Completed' = Completed \cup {id} /\ Cardinality(Completed') = completedCnt + 1
    BY <1>0, <2>2, CommitCounts
  <2>4. Counted'
    BY <1>1, <2>1, <2>3 DEF Orderly, Counted
  <2> QED
    BY <1>0, <1>1, <1>3, <2>1, <2>4, CommitStays DEF Orderly
<1>6. CASE IsLast(NumMap)
  <2> DEFINE ids == [k \in 1..NumReduce |-> k - 1]
  <2>1. phase' = "REDUCE" /\ completedCnt' = 0 /\ idle' = idle \o ids
    BY <1>6 DEF CommitMapTask, SwitchToReduceState, CountInReducePhase
  <2>2. Completed \cup {id} = MapId
    BY <1>0, <1>1, <1>4, <1>6, LastCompletes, CompletedFacts, TasksType DEF IsLast
  <2>3. \A m \in MapId : m # id => Tasks[m] = "COMPLETED"
    BY <2>2 DEF Completed
  <2>4. Tasks[id] = "IN_PROGRESS" /\ DOMAIN Tasks = MapId
    BY <1>0, <1>1, HeldIsWanted, TasksType
  <2>5. idle = <<>>
    <3>1. ASSUME NEW k \in 1..Len(idle) PROVE FALSE
      <4>1. idle[k] \in MapId /\ Tasks[idle[k]] = "IDLE"
        BY <2>4 DEF Orderly, QueueIsIdle, InRange
      <4> QED
        BY <2>3, <2>4, <4>1
    <3>2. idle \in Seq(TaskId) /\ Len(idle) \in Nat
      BY <1>0 DEF TypeOK
    <3>3. Len(idle) = 0
      BY <3>1, <3>2
    <3> QED
      BY <3>2, <3>3
  <2>6. /\ ids \in Seq(ReduceId) /\ Len(ids) = NumReduce
        /\ \A k \in 1..NumReduce : ids[k] = k - 1 /\ ids[k] \in ReduceId
    BY TaskAssumption DEF ReduceId
  <2>7. idle' = ids
    <3> HIDE DEF ids
    <3> QED
      BY <2>1, <2>5, <2>6
  <2>8. Tasks' = reduceState /\ DOMAIN Tasks' = ReduceId /\ \A r \in ReduceId : Tasks'[r] = "IDLE"
    BY <1>0, <1>1, <2>1 DEF Tasks, TypeOK, JobInv, NothingReducedYet
  <2>9. QueueIsIdle'
    <3>1. Len(idle') = NumReduce
      BY <2>6, <2>7
    <3>2. \A k \in 1..NumReduce : idle'[k] = k - 1 /\ idle'[k] \in ReduceId
      BY <2>6, <2>7
    <3>3. \A j, k \in 1..NumReduce : idle'[j] = idle'[k] => j = k
      BY <3>2, TaskAssumption
    <3> HIDE DEF ids
    <3> QED
      BY <2>8, <3>1, <3>2, <3>3 DEF QueueIsIdle, InRange
  <2>10. inProgress' = {}
    <3>1. \A i \in inProgress : i = id
      BY <2>3, <2>4 DEF Orderly, WatchedInProgress, InRange
    <3> QED
      BY <1>1, <3>1
  <2>11. \A v \in Worker : ~Busy(v)'
    <3>1. ASSUME NEW v \in Worker, Busy(v)' PROVE FALSE
      <4>1. Busy(v) /\ worker[v].id # id
        BY <1>2, <3>1 DEF Busy
      <4>2. worker[v].id \in MapId /\ Tasks[worker[v].id] = "IN_PROGRESS"
        BY <1>0, <2>4, <4>1, HeldIsWanted
      <4> QED
        BY <2>3, <4>1, <4>2
    <3> QED
      BY <3>1
  <2>12. Counted'
    <3>1. Completed' = {}
      BY <2>8 DEF Completed
    <3> QED
      BY <2>1, <3>1, FS_EmptySet DEF Counted
  <2> QED
    BY <1>1, <1>2, <1>3, <2>9, <2>10, <2>11, <2>12
    DEF Orderly, HoldsInProgress, WatchedInProgress
<1> QED
  BY <1>5, <1>6

LEMMA CommitReduceOrderly ==
    ASSUME JobInv, Orderly, NEW w \in Worker, CommitReduceTask(w)
    PROVE  Orderly'
<1>0. TypeOK /\ OwnIds /\ worker[w].pc = "commit" /\ Busy(w)
  BY DEF JobInv, CommitReduceTask, Committing, Busy
<1> DEFINE id == worker[w].id
<1>1. /\ phase = "REDUCE" /\ SetTask(id, "COMPLETED") /\ inProgress' = inProgress \ {id}
      /\ master' = master /\ out' = out /\ idle' = idle /\ completedCnt' = completedCnt + 1
      /\ worker' = [worker EXCEPT ![w] = AfterCommit(w)]
      /\ reduceState' = [reduceState EXCEPT ![id] = "COMPLETED"]
      /\ phase' = IF IsLast(NumReduce) THEN "COMPLETED" ELSE phase
  BY DEF CommitReduceTask, SetTask
<1>2. /\ ~Busy(w)' /\ worker'[w].pc # "commit" /\ OneHolder'
      /\ \A v \in Worker : v # w => worker'[v] = worker[v]
      /\ \A v \in Worker : Busy(v)' => worker[v].id # id
  BY <1>0, <1>1, CommitHolders
<1>3. /\ worker[w].type = "REDUCE" /\ Tasks[id] = "IN_PROGRESS" /\ DOMAIN Tasks = ReduceId
      /\ id \in ReduceId
  BY <1>0, <1>1, HeldIsWanted, TasksType
<1>4. WholeOutput'
  BY <1>0, <1>1, <1>2, <1>3 DEF Orderly, WholeOutput, TypeOK
<1>5. Tasks' = [Tasks EXCEPT ![id] = "COMPLETED"]
  BY <1>1, OneTaskChanges
<1>6. Completed' = Completed \cup {id} /\ Cardinality(Completed') = completedCnt + 1
  BY <1>0, <1>5, CommitCounts
<1>7. phase' = "COMPLETED" => Completed' = ReduceId
  <2>1. ASSUME IsLast(NumReduce) PROVE Completed' = ReduceId
    <3>1. Cardinality(Completed') = Cardinality(DOMAIN Tasks)
      BY <1>0, <1>3, <1>6, <2>1, CompletedFacts DEF IsLast
    <3>2. Completed' \subseteq DOMAIN Tasks
      BY <1>0, <1>3, <1>6, CompletedFacts
    <3> QED
      BY <1>0, <1>3, <3>1, <3>2, LastCompletes
  <2> QED
    BY <1>1, <2>1
<1>8. Counted'
  BY <1>1, <1>6, <1>7 DEF Counted
<1>9. QueueIsIdle' /\ WatchedInProgress'
  BY <1>1, <1>3, <1>5 DEF Orderly, QueueIsIdle, WatchedInProgress, InRange
<1>10. ASSUME NEW v \in Worker, Busy(v)'
       PROVE  /\ worker'[v].type = phase' /\ Tasks'[worker'[v].id] = "IN_PROGRESS"
              /\ worker'[v].linked
  <2>1. v # w /\ Busy(v) /\ worker'[v] = worker[v] /\ worker[v].id # id
    BY <1>2, <1>10 DEF Busy
  <2>2. /\ worker[v].type = "REDUCE" /\ worker[v].id \in ReduceId
        /\ Tasks[worker[v].id] = "IN_PROGRESS" /\ worker[v].linked
    BY <1>0, <1>1, <1>3, <2>1, HeldIsWanted DEF Orderly, HoldsInProgress
  <2>3. Tasks'[worker[v].id] = "IN_PROGRESS"
    BY <1>5, <2>1, <2>2
  <2>4. phase' = "REDUCE"
    <3>1. worker[v].id \notin Completed'
      BY <2>3 DEF Completed
    <3> QED
      BY <1>1, <1>7, <2>2, <3>1
  <2> QED
    BY <2>1, <2>2, <2>3, <2>4
<1> QED
  BY <1>1, <1>2, <1>4, <1>8, <1>9, <1>10 DEF Orderly, HoldsInProgress

(* A pass that finds each id once pushes it once.                          *)
LEMMA OrdersAreOnce ==
    ASSUME NEW S, S \subseteq TaskId, NEW order \in Orders(S)
    PROVE  /\ order \in Seq(S) /\ Len(order) = Cardinality(S) /\ Len(order) \in Nat
           /\ \A j, k \in 1..Len(order) : order[j] = order[k] => j = k
<1>1. IsFiniteSet(S) /\ Cardinality(S) \in Nat
  BY IdFacts, FS_Subset, FS_CardinalityType
<1> DEFINE n == Cardinality(S)
<1>2. order \in [1..n -> S] /\ order \in Surjection(1..n, S)
  BY DEF Orders, Surjection
<1>3. IsFiniteSet(1..n) /\ Cardinality(1..n) = n
  BY <1>1, FS_Interval
<1>4. order \in Injection(1..n, S)
  BY <1>2, <1>3, FS_SurjSameCardinalityImpliesInj
<1>5. order \in Seq(S) /\ Len(order) = n
  BY <1>1, <1>2
<1>6. \A j, k \in 1..n : order[j] = order[k] => j = k
  BY <1>4 DEF Injection, IsInjective
<1> QED
  BY <1>1, <1>5, <1>6

(* Two sequences without repetition and without a common element.          *)
LEMMA JoinedOnce ==
    ASSUME NEW S, NEW p \in Seq(S), NEW q \in Seq(S),
           \A j, k \in 1..Len(p) : p[j] = p[k] => j = k,
           \A j, k \in 1..Len(q) : q[j] = q[k] => j = k,
           \A j \in 1..Len(p), k \in 1..Len(q) : p[j] # q[k]
    PROVE  /\ \A k \in 1..Len(p \o q) :
                 \/ \E j \in 1..Len(p) : (p \o q)[k] = p[j]
                 \/ \E j \in 1..Len(q) : (p \o q)[k] = q[j]
           /\ \A j, k \in 1..Len(p \o q) : (p \o q)[j] = (p \o q)[k] => j = k
<1>1. Len(p) \in Nat /\ Len(q) \in Nat /\ Len(p \o q) = Len(p) + Len(q)
  OBVIOUS
<1> DEFINE Here(k) == k \in 1..Len(p) /\ (p \o q)[k] = p[k]
           There(k) == k - Len(p) \in 1..Len(q) /\ (p \o q)[k] = q[k - Len(p)]
<1>2. \A k \in 1..Len(p \o q) : Here(k) \/ There(k)
  BY <1>1
<1>3. ASSUME NEW j \in 1..Len(p \o q), NEW k \in 1..Len(p \o q), (p \o q)[j] = (p \o q)[k]
      PROVE  j = k
  <2>1. CASE Here(j) /\ Here(k)
    BY <1>3, <2>1
  <2>2. CASE There(j) /\ There(k)
    <3>1. j - Len(p) = k - Len(p)
      BY <1>3, <2>2
    <3> QED
      BY <1>1, <3>1
  <2> QED
    BY <1>2, <1>3, <2>1, <2>2
<1> QED
  BY <1>2, <1>3

LEMMA TimeoutOrderly ==
    ASSUME JobInv, Orderly, NEW ids \in SUBSET inProgress, DetectTimeoutTask(ids),
           slow = 0, slow' = 0
    PROVE  Orderly'
<1>0. TypeOK /\ OwnIds
  BY DEF JobInv
<1>1. \A id \in ids : InRange(id) /\ Tasks[id] = "IN_PROGRESS"
  BY DEF Orderly, WatchedInProgress
<1>2. ids \subseteq TaskId
  BY <1>0 DEF TypeOK
<1>3. ids \subseteq Orphans
  <2>1. IsFiniteSet(ids \ Orphans)
    BY <1>2, IdFacts, FS_Subset
  <2>2. Cardinality(ids \ Orphans) = 0
    BY <2>1, FS_CardinalityType DEF DetectTimeoutTask
  <2>3. ids \ Orphans = {}
    BY <2>1, <2>2, FS_EmptySet
  <2> QED
    BY <2>3
<1>4. PICK order \in Orders(ids) : idle' = idle \o order
  BY <1>1 DEF DetectTimeoutTask
<1>5. /\ inProgress' = inProgress \ ids /\ Tasks' = TimedOut(ids)
      /\ UNCHANGED <<master, phase, completedCnt, inter, out, worker>>
  BY <1>1 DEF DetectTimeoutTask, Tasks, fileVars
<1>6. /\ DOMAIN Tasks' = DOMAIN Tasks
      /\ \A id \in DOMAIN Tasks : Tasks'[id] = IF id \in ids THEN "IDLE" ELSE Tasks[id]
  BY <1>5 DEF TimedOut
<1>7. QueueIsIdle'
  <2>1. idle \in Seq(TaskId) /\ order \in Seq(TaskId) /\ DOMAIN order = 1..Len(order)
    BY <1>0, <1>2, <1>4, OrdersFacts DEF TypeOK
  <2>2. \A k \in 1..Len(order) : order[k] \in ids
    BY <1>2, <1>4, <2>1, OrdersAreOnce
  <2>3. \A k \in 1..Len(idle) : idle[k] \in DOMAIN Tasks /\ Tasks[idle[k]] = "IDLE" /\ idle[k] \notin ids
    BY <1>1 DEF Orderly, QueueIsIdle, InRange
  <2>4. \A j, k \in 1..Len(order) : order[j] = order[k] => j = k
    BY <1>2, <1>4, OrdersAreOnce
  <2>5. /\ \A k \in 1..Len(idle') :
              \/ \E j \in 1..Len(idle) : idle'[k] = idle[j]
              \/ \E j \in 1..Len(order) : idle'[k] = order[j]
        /\ \A j, k \in 1..Len(idle') : idle'[j] = idle'[k] => j = k
    <3>1. \A j, k \in 1..Len(idle) : idle[j] = idle[k] => j = k
      BY DEF Orderly, QueueIsIdle
    <3>2. \A j \in 1..Len(idle), k \in 1..Len(order) : idle[j] # order[k]
      BY <2>2, <2>3
    <3>3. /\ \A k \in 1..Len(idle \o order) :
                 \/ \E j \in 1..Len(idle) : (idle \o order)[k] = idle[j]
                 \/ \E j \in 1..Len(order) : (idle \o order)[k] = order[j]
          /\ \A j, k \in 1..Len(idle \o order) : (idle \o order)[j] = (idle \o order)[k] => j = k
      BY ONLY <2>1, <2>4, <3>1, <3>2, JoinedOnce, ZenonT(60)
    <3> QED
      BY <1>4, <3>3
  <2>6. \A k \in 1..Len(idle') : idle'[k] \in DOMAIN Tasks' /\ Tasks'[idle'[k]] = "IDLE"
    BY <1>1, <1>6, <2>2, <2>3, <2>5, SMTT(30) DEF InRange
  <2> QED
    BY <2>5, <2>6 DEF QueueIsIdle, InRange
<1>8. WatchedInProgress'
  BY <1>5, <1>6 DEF Orderly, WatchedInProgress, InRange
<1>9. \A w \in Worker : HoldsInProgress(w)'
  <2>1. ASSUME NEW w \in Worker, Busy(w)
        PROVE  worker[w].id \notin ids /\ worker[w].id \in DOMAIN Tasks
    BY <1>0, <1>3, <2>1, HeldIsWanted DEF Orphans, Holds, Busy
  <2> QED
    BY <1>5, <1>6, <2>1 DEF Orderly, HoldsInProgress, Busy
<1>10. OneHolder'
  BY <1>5 DEF Orderly, OneHolder, Busy
<1>11. Counted'
  <2>1. Completed' = Completed
    BY <1>1, <1>6 DEF Completed
  <2> QED
    BY <1>5, <2>1 DEF Orderly, Counted
<1>12. WholeOutput'
  <2>1. \A r \in ReduceId : reduceState'[r] = "COMPLETED" => reduceState[r] = "COMPLETED"
    BY <1>0, <1>1, TasksType DEF DetectTimeoutTask, TimedOut, Tasks, TypeOK
  <2> QED
    BY <1>5, <2>1 DEF Orderly, WholeOutput
<1> QED
  BY <1>5, <1>7, <1>8, <1>9, <1>10, <1>11, <1>12 DEF Orderly

(* Nothing undefined happens, and nobody commits what is not wanted.       *)
LEMMA NeverInOrder ==
    ASSUME TypeOK, OwnIds, Orderly, NEW w \in Worker
    PROVE  ~AssignUndefined(w) /\ ~CommitMapUndefined(w) /\ ~CommitIgnored(w)
<1>1. ~AssignUndefined(w)
  BY DEF AssignUndefined, Orderly, QueueIsIdle
<1>2. ~CommitIgnored(w)
  <2>1. ASSUME CommitIgnored(w) PROVE FALSE
    <3>1. Busy(w) /\ ~IsWanted(w)
      BY <2>1 DEF CommitIgnored, Committing, Busy
    <3> QED
      BY <3>1, HeldIsWanted
  <2> QED
    BY <2>1
<1>3. ~CommitMapUndefined(w)
  <2>1. ASSUME CommitMapUndefined(w) PROVE FALSE
    <3>1. /\ Busy(w) /\ phase = "MAP" /\ completedCnt + 1 = NumMap
          /\ inter \cup {worker[w].id} # MapId
      BY <2>1 DEF CommitMapUndefined, Committing, Busy, IsLast
    <3>2. inter = Completed /\ completedCnt = Cardinality(Completed)
      BY <3>1 DEF Orderly, Counted
    <3>3. worker[w].id \in DOMAIN Tasks /\ worker[w].id \notin Completed /\ DOMAIN Tasks = MapId
      BY <3>1, HeldIsWanted, TasksType
    <3>4. Cardinality(Completed \cup {worker[w].id}) = Cardinality(MapId)
      BY <3>1, <3>2, <3>3, CompletedFacts, FS_AddElement
    <3>5. Completed \cup {worker[w].id} = DOMAIN Tasks
      BY <3>3, <3>4, LastCompletes, CompletedFacts
    <3> QED
      BY <3>1, <3>2, <3>3, <3>5
  <2> QED
    BY <2>1
<1> QED
  BY <1>1, <1>2, <1>3

InTime == slow = 0 => Orderly

LEMMA InTimeStep == JobInv /\ InTime /\ [Next]_vars => InTime'
<1> SUFFICES ASSUME JobInv, InTime, [Next]_vars, slow' = 0 PROVE Orderly'
  BY DEF InTime
<1>0. TypeOK /\ OwnIds
  BY DEF JobInv
<1>1. slow = 0
  <2>1. ASSUME NEW ids \in SUBSET inProgress, DetectTimeoutTask(ids) PROVE slow = 0
    <3>1. IsFiniteSet(ids \ Orphans)
      BY <1>0, IdFacts, FS_Subset DEF TypeOK
    <3>2. Cardinality(ids \ Orphans) \in Nat /\ slow' = slow + Cardinality(ids \ Orphans)
      BY <2>1, <3>1, FS_CardinalityType DEF DetectTimeoutTask
    <3> QED
      BY <1>0, <3>2 DEF TypeOK
  <2>2. ASSUME NEW w \in Worker, WorkerStep(w) \/ Crash(w) PROVE slow' = slow
    BY <2>2 DEF WorkerStep, AssignTask, AssignNothing, AssignUndefined, DoMapTask, ReadInputs,
                OpenOutput, WriteOutput, CommitIgnored, CommitMapTask, CommitMapUndefined,
                CommitReduceTask, CallFails, Crash
  <2> QED
    BY <2>1, <2>2 DEF Next, ExitServer, vars
<1>2. Orderly
  BY <1>1 DEF InTime
<1>3. ASSUME NEW w \in Worker, WorkerStep(w) \/ Crash(w) PROVE Orderly'
  BY <1>0, <1>2, <1>3, AssignOrderly, WorkOrderly, WriteOrderly, CommitMapOrderly,
     CommitReduceOrderly, NeverInOrder DEF WorkerStep
<1>4. ASSUME NEW ids \in SUBSET inProgress, DetectTimeoutTask(ids) PROVE Orderly'
  BY <1>1, <1>2, <1>4, TimeoutOrderly
<1>5. CASE ExitServer \/ UNCHANGED vars
  <2>1. /\ UNCHANGED <<phase, mapState, reduceState, idle, inProgress, completedCnt, inter, out, worker>>
        /\ master' # "undefined"
    BY <1>2, <1>5 DEF ExitServer, vars, masterVars, fileVars, Orderly
  <2>2. WholeOutput'
    BY <1>2, <2>1 DEF Orderly, WholeOutput
  <2> QED
    BY <1>2, <2>1, <2>2, SameTasksOrderly DEF Busy
<1> QED
  BY <1>3, <1>4, <1>5 DEF Next

LEMMA InTimeInit == Init => InTime
<1> SUFFICES ASSUME Init PROVE Orderly
  BY DEF InTime
<1>1. Tasks = mapState /\ DOMAIN Tasks = MapId /\ \A m \in MapId : Tasks[m] = "IDLE"
  BY DEF Init, Tasks
<1>2. /\ Len(idle) = NumMap /\ \A k \in 1..NumMap : idle[k] = k - 1 /\ idle[k] \in MapId
  BY TaskAssumption DEF Init, MapId
<1>3. QueueIsIdle
  <2>1. \A j, k \in 1..NumMap : j - 1 = k - 1 => j = k
    BY TaskAssumption
  <2> QED
    BY <1>1, <1>2, <2>1 DEF QueueIsIdle, InRange
<1>4. Completed = {}
  BY <1>1 DEF Completed
<1>5. Counted
  BY <1>4, FS_EmptySet DEF Init, Counted
<1>6. \A w \in Worker : worker[w].pc = "ask"
  BY DEF Init, Asking
<1> QED
  BY <1>3, <1>5, <1>6
  DEF Init, Orderly, WatchedInProgress, HoldsInProgress, Busy, OneHolder, WholeOutput
-----------------------------------------------------------------------------
LEMMA JobInit == Init => JobInv
<1> SUFFICES ASSUME Init PROVE JobInv
  OBVIOUS
<1>1. TypeOK /\ NoTaskLost
  BY TypeInit, LostInit
<1>2. \A w \in Worker : worker[w].id = 0 /\ worker[w].type = "MAP" /\ worker[w].pc = "ask"
  BY DEF Init, Asking
<1>3. OwnIds /\ NothingReducedYet /\ WholeInReducePhase /\ OnlyFinishedCounts
  BY <1>2, IdFacts DEF Init, OwnIds, NothingReducedYet, WholeInReducePhase, OnlyFinishedCounts
<1> QED
  BY <1>1, <1>3 DEF JobInv

LEMMA JobStep == JobInv /\ [Next]_vars => JobInv'
  BY TypeStep, LostStep, OwnIdsStep, NothingReducedStep, WholeStep, CountsStep DEF JobInv

LEMMA JobInvariant == Spec => []JobInv
  BY JobInit, JobStep, PTL DEF Spec

(* Every variable keeps its type; in particular every worker has an id of  *)
(* a task of its kind, and the count stays below the number of tasks until *)
(* the phase is switched.                                                  *)
THEOREM TypeCorrect == Spec => []TypeOK
<1>1. JobInv => TypeOK
  BY DEF JobInv
<1> QED
  BY <1>1, JobInvariant, PTL

(* However tasks are handed out, timed out, handed out again after they    *)
(* were completed and committed late, no task of the current phase is      *)
(* lost: one that is idle is queued, one in progress will time out.        *)
THEOREM NoTaskIsLost == Spec => []NoTaskLost
<1>1. JobInv => NoTaskLost
  BY DEF JobInv
<1> QED
  BY <1>1, JobInvariant, PTL

(* A reduce task counts as completed only when a worker has finished it    *)
(* from all map results.                                                   *)
THEOREM OnlyFinishedTasksCount == Spec => []OnlyFinishedCounts
<1>1. JobInv => OnlyFinishedCounts
  BY DEF JobInv
<1> QED
  BY <1>1, JobInvariant, PTL

(* Workers that crash, at any moment and any number of them, do no harm:   *)
(* unless a worker was too slow, every task is counted once, nothing       *)
(* undefined happens and what counts as completed has its whole output.    *)
THEOREM CrashesAreHarmless == Spec => []CrashesDoNoHarm
<1>1. TypeOK /\ InTime => CrashesDoNoHarm
  <2> SUFFICES ASSUME TypeOK, Orderly
               PROVE  /\ master # "undefined" /\ completedCnt = Cardinality(Completed)
                      /\ \A r \in ReduceId : reduceState[r] = "COMPLETED" => out[r] = "whole"
                      /\ phase = "COMPLETED" => \A r \in ReduceId : out[r] = "whole"
    BY DEF InTime, CrashesDoNoHarm
  <2>1. phase = "COMPLETED" => \A r \in ReduceId : reduceState[r] = "COMPLETED"
    BY DEF Orderly, Counted, Completed, Tasks
  <2> QED
    BY <2>1 DEF Orderly, Counted, WholeOutput
<1>2. JobInv => TypeOK
  BY DEF JobInv
<1> QED
  BY <1>1, <1>2, InTimeInit, InTimeStep, JobInvariant, PTL DEF Spec
=============================================================================
