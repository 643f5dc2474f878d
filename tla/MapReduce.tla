------------------------------ MODULE MapReduce ------------------------------
(***************************************************************************)
(* MasterHandler (master.cpp) and the Worker processes (worker.cpp) of one *)
(* MapReduce job, with the files they share.                               *)
(*                                                                         *)
(* Each RPC of the master, and each pass of detectTimeoutTask, holds lock_ *)
(* from its first to its last statement and is one action.  A worker is a  *)
(* process with a single thread; it may crash at any moment, and a call it *)
(* had sent is executed all the same.  Time is not modelled: a task may    *)
(* time out as soon as it is assigned.                                     *)
(*                                                                         *)
(* An index past the end of reduceTasks_, or into the empty results of a   *)
(* map task, is undefined behaviour: the master is then "undefined", and   *)
(* nothing is said about what it does.                                     *)
(*                                                                         *)
(* Operators named Mutant... are no part of the specification: each is the *)
(* operator after it with a plausible bug, that a property must catch.     *)
(***************************************************************************)
EXTENDS Integers, Sequences, FiniteSets

CONSTANTS
    Worker,
    NumMap,        \* mapTasks_.size()
    NumReduce,     \* reduceTasks_.size()
    MaxSlow,       \* bound: tasks that time out while their worker lives
    MaxCrashes     \* bound: workers that crash

ASSUME TaskAssumption ==
    /\ NumMap \in Nat \ {0}
    /\ NumReduce \in Nat \ {0}

VARIABLES
    master,        \* "up", "stopped" after exitServer_, or "undefined"
    phase,         \* state_ of the master
    mapState,      \* state of each map task
    reduceState,   \* state of each reduce task
    idle,          \* the queue idle_
    inProgress,    \* the keys of inProgress_
    completedCnt,
    inter,         \* map tasks whose files mr.mid*.rid* are there
    out,           \* the files mr-out-*: "none", "partial" or "whole"
    worker,        \* the processes
    crashed,       \* workers that have crashed
    \* history
    slow,          \* tasks that timed out while their worker lived
    finished       \* reduce tasks some worker has finished, from all map results

masterVars == <<master, phase, mapState, reduceState, idle, inProgress, completedCnt>>
fileVars   == <<inter, out>>
vars == <<masterVars, fileVars, worker, crashed, slow, finished>>

MapId    == 0..NumMap - 1
ReduceId == 0..NumReduce - 1
TaskId   == MapId \cup ReduceId
State    == {"IDLE", "IN_PROGRESS", "COMPLETED"}

\* A worker between two tasks.
Asking == [pc |-> "ask", type |-> "MAP", id |-> 0, whole |-> TRUE, linked |-> TRUE]
Ended  == [Asking EXCEPT !.pc = "end"]

Init ==
    /\ master = "up"
    /\ phase = "MAP"
    /\ mapState = [m \in MapId |-> "IDLE"]
    /\ reduceState = [r \in ReduceId |-> "IDLE"]
    /\ idle = [k \in 1..NumMap |-> k - 1]
    /\ inProgress = {}
    /\ completedCnt = 0
    /\ inter = {}
    /\ out = [r \in ReduceId |-> "none"]
    /\ worker = [w \in Worker |-> Asking]
    /\ crashed = {}
    /\ slow = 0
    /\ finished = {}
-----------------------------------------------------------------------------
(***************************************************************************)
(* The tasks of the current phase; after the last one those are still the  *)
(* reduce tasks.                                                           *)
(***************************************************************************)
Tasks == IF phase = "MAP" THEN mapState ELSE reduceState

SetTask(id, s) ==
    IF phase = "MAP"
    THEN mapState' = [mapState EXCEPT ![id] = s] /\ UNCHANGED reduceState
    ELSE reduceState' = [reduceState EXCEPT ![id] = s] /\ UNCHANGED mapState

InRange(id) == id \in DOMAIN Tasks

Undefined ==
    /\ master' = "undefined"
    /\ UNCHANGED <<phase, mapState, reduceState, idle, inProgress, completedCnt, fileVars,
                   crashed, finished>>
-----------------------------------------------------------------------------
(***************************************************************************)
(* assignTask.                                                             *)
(***************************************************************************)
(* tryToGetIdleTask pops ids until one is idle.  When none is, it returns  *)
(* the last one it popped, whose task is in progress or completed.         *)
PoppedUntil(k) ==
    \A j \in 1..k - 1 : InRange(idle[j]) /\ Tasks[idle[j]] # "IDLE"

IsChosen(k) ==
    /\ PoppedUntil(k)
    /\ InRange(idle[k])
    /\ Tasks[idle[k]] = "IDLE" \/ k = Len(idle)

\* How a worker goes on with the reply.
Assigned(id) ==
    IF phase = "COMPLETED" THEN Ended
    ELSE [pc |-> "work", type |-> phase, id |-> id, whole |-> TRUE, linked |-> TRUE]

AssignTask(w) ==
    /\ master = "up"
    /\ worker[w].pc = "ask"
    /\ \E k \in 1..Len(idle) :
          /\ IsChosen(k)
          /\ idle' = SubSeq(idle, k + 1, Len(idle))
          /\ inProgress' = inProgress \cup {idle[k]}
          /\ SetTask(idle[k], "IN_PROGRESS")
          /\ worker' = [worker EXCEPT ![w] = Assigned(idle[k])]
    /\ UNCHANGED <<master, phase, completedCnt, fileVars, crashed, slow, finished>>

\* The queue is empty: WAIT, which changes nothing, or COMPLETED.
AssignNothing(w) ==
    /\ master = "up"
    /\ worker[w].pc = "ask"
    /\ idle = <<>>
    /\ phase = "COMPLETED"
    /\ worker' = [worker EXCEPT ![w] = Ended]
    /\ UNCHANGED <<masterVars, fileVars, crashed, slow, finished>>

\* An id left over from the map phase is past the end of reduceTasks_.
AssignUndefined(w) ==
    /\ master = "up"
    /\ worker[w].pc = "ask"
    /\ \E k \in 1..Len(idle) : PoppedUntil(k) /\ ~InRange(idle[k])
    /\ Undefined
    /\ UNCHANGED <<worker, slow>>
-----------------------------------------------------------------------------
(***************************************************************************)
(* The work of a worker.  A map task writes files that only this worker    *)
(* knows of, until they are renamed in commitTask.  A reduce task writes   *)
(* mr-out-<id> itself: every worker of that task opens the same file.      *)
(***************************************************************************)
Alive(w) == w \notin crashed

DoMapTask(w) ==
    /\ Alive(w)
    /\ worker[w].pc = "work" /\ worker[w].type = "MAP"
    /\ worker' = [worker EXCEPT ![w].pc = "commit"]
    /\ UNCHANGED <<masterVars, fileVars, crashed, slow, finished>>

\* A file that is not there gives no key: the ifstream simply fails.
ReadInputs(w) ==
    /\ Alive(w)
    /\ worker[w].pc = "work" /\ worker[w].type = "REDUCE"
    /\ worker' = [worker EXCEPT ![w].pc = "open", ![w].whole = inter = MapId]
    /\ UNCHANGED <<masterVars, fileVars, crashed, slow, finished>>

OpenOutput(w) ==
    /\ Alive(w)
    /\ worker[w].pc = "open"
    /\ worker' = [worker EXCEPT ![w].pc = "write"]
    /\ out' = [out EXCEPT ![worker[w].id] = "partial"]
    /\ UNCHANGED <<masterVars, inter, crashed, slow, finished>>

\* The stream is flushed when doReduceTask ends, unless the file was removed meanwhile.
WriteOutput(w) ==
    /\ Alive(w)
    /\ worker[w].pc = "write"
    /\ worker' = [worker EXCEPT ![w].pc = "commit"]
    /\ out' = IF ~worker[w].linked THEN out
              ELSE [out EXCEPT ![worker[w].id] = IF worker[w].whole THEN "whole" ELSE "partial"]
    /\ finished' = IF worker[w].whole THEN finished \cup {worker[w].id} ELSE finished
    /\ UNCHANGED <<masterVars, inter, crashed, slow>>

\* exit(0) in simulateFailure, or a kill.  A call that has left is still executed.
Crash(w) ==
    /\ Alive(w)
    /\ worker[w].pc # "end"
    /\ Cardinality(crashed) < MaxCrashes
    /\ crashed' = crashed \cup {w}
    /\ \/ worker' = [worker EXCEPT ![w] = Ended]
       \/ worker[w].pc = "commit" /\ UNCHANGED worker
    /\ UNCHANGED <<masterVars, fileVars, slow, finished>>

\* The master is gone: the call ends in a TException, which main catches.
CallFails(w) ==
    /\ master # "up"
    /\ worker[w].pc \in {"ask", "commit"}
    /\ worker' = [worker EXCEPT ![w] = Ended]
    /\ UNCHANGED <<masterVars, fileVars, crashed, slow, finished>>
-----------------------------------------------------------------------------
(***************************************************************************)
(* commitTask.                                                             *)
(***************************************************************************)
MutantIsWanted(w) ==
    phase # "COMPLETED" /\ InRange(worker[w].id) /\ Tasks[worker[w].id] # "COMPLETED"

\* The phase is still that of the task, and nobody has committed it.
IsWanted(w) == worker[w].type = phase /\ Tasks[worker[w].id] # "COMPLETED"

AfterCommit(w) == IF Alive(w) THEN Asking ELSE Ended

Committing(w) ==
    /\ master = "up"
    /\ worker[w].pc = "commit"

\* A process that writes mr-out-<r> goes on with a file that has no name any more.
Unlinked(v, r) ==
    IF worker[v].pc = "write" /\ worker[v].id = r
    THEN [worker[v] EXCEPT !.linked = FALSE] ELSE worker[v]

\* removeFiles on a result nobody wants.  For a reduce task that is mr-out-<id>.
CommitIgnored(w) ==
    /\ Committing(w)
    /\ ~IsWanted(w)
    /\ IF worker[w].type = "REDUCE"
       THEN /\ out' = [out EXCEPT ![worker[w].id] = "none"]
            /\ worker' = [v \in Worker |->
                  IF v = w THEN AfterCommit(w) ELSE Unlinked(v, worker[w].id)]
       ELSE /\ worker' = [worker EXCEPT ![w] = AfterCommit(w)]
            /\ UNCHANGED out
    /\ UNCHANGED <<masterVars, inter, crashed, slow, finished>>

\* completedCnt_++, and whether that was the last of n tasks.
MutantIsLast(n) == completedCnt + 2 = n

IsLast(n) == completedCnt + 1 = n

MutantCountInReducePhase == completedCnt + 1

CountInReducePhase == 0

(* switchToReduceState: params of the reduce tasks, and their ids at the   *)
(* end of the queue, behind any id the map phase has left there.           *)
SwitchToReduceState ==
    /\ phase' = "REDUCE"
    /\ completedCnt' = CountInReducePhase
    /\ idle' = idle \o [k \in 1..NumReduce |-> k - 1]

\* commitMapTask renames the files of the worker to mr.mid<id>.rid*.
CommitMapTask(w) ==
    /\ Committing(w)
    /\ IsWanted(w)
    /\ phase = "MAP"
    /\ IsLast(NumMap) => inter \cup {worker[w].id} = MapId
    /\ SetTask(worker[w].id, "COMPLETED")
    /\ inProgress' = inProgress \ {worker[w].id}
    /\ inter' = inter \cup {worker[w].id}
    /\ IF IsLast(NumMap) THEN SwitchToReduceState
       ELSE completedCnt' = completedCnt + 1 /\ UNCHANGED <<phase, idle>>
    /\ worker' = [worker EXCEPT ![w] = AfterCommit(w)]
    /\ UNCHANGED <<master, out, crashed, slow, finished>>

\* switchToReduceState indexes the results of a map task that has none yet.
CommitMapUndefined(w) ==
    /\ Committing(w)
    /\ IsWanted(w)
    /\ phase = "MAP"
    /\ IsLast(NumMap)
    /\ inter \cup {worker[w].id} # MapId
    /\ Undefined
    /\ UNCHANGED <<worker, slow>>

(* commitReduceTask renames mr-out-<id> to itself, and does not look       *)
(* whether it is there.  switchToCompletedState removes the map results.   *)
CommitReduceTask(w) ==
    /\ Committing(w)
    /\ IsWanted(w)
    /\ phase = "REDUCE"
    /\ SetTask(worker[w].id, "COMPLETED")
    /\ inProgress' = inProgress \ {worker[w].id}
    /\ completedCnt' = completedCnt + 1
    /\ IF IsLast(NumReduce)
       THEN phase' = "COMPLETED" /\ inter' = {}
       ELSE UNCHANGED <<phase, inter>>
    /\ worker' = [worker EXCEPT ![w] = AfterCommit(w)]
    /\ UNCHANGED <<master, idle, out, crashed, slow, finished>>

\* exitServer_, a second after the last commit.
ExitServer ==
    /\ master = "up"
    /\ phase = "COMPLETED"
    /\ master' = "stopped"
    /\ UNCHANGED <<phase, mapState, reduceState, idle, inProgress, completedCnt, fileVars,
                   worker, crashed, slow, finished>>
-----------------------------------------------------------------------------
(***************************************************************************)
(* detectTimeoutTask.                                                      *)
(***************************************************************************)
Holds(w, id) == worker[w].id = id /\ worker[w].pc \notin {"ask", "end"}

\* Ids in progress that no process and no call will commit any more.
Orphans == {id \in inProgress : \A w \in Worker : ~Holds(w, id)}

\* The orders in which a pass over inProgress_ may find the ids of S.
Orders(S) == {q \in [1..Cardinality(S) -> S] : \A id \in S : \E k \in DOMAIN q : q[k] = id}

MutantTimedOut(ids) == [id \in DOMAIN Tasks |-> IF id \in ids THEN "IN_PROGRESS" ELSE Tasks[id]]

TimedOut(ids) == [id \in DOMAIN Tasks |-> IF id \in ids THEN "IDLE" ELSE Tasks[id]]

\* A pass that finds the tasks of `ids' assigned for longer than TIME_OUT.
DetectTimeoutTask(ids) ==
    /\ master = "up"
    /\ ids # {}
    /\ slow' = slow + Cardinality(ids \ Orphans)
    /\ slow' <= MaxSlow
    /\ IF \A id \in ids : InRange(id)
       THEN /\ \E order \in Orders(ids) : idle' = idle \o order
            /\ inProgress' = inProgress \ ids
            /\ IF phase = "MAP"
               THEN mapState' = TimedOut(ids) /\ UNCHANGED reduceState
               ELSE reduceState' = TimedOut(ids) /\ UNCHANGED mapState
            /\ UNCHANGED <<master, phase, completedCnt, fileVars, crashed, finished>>
       ELSE Undefined
    /\ UNCHANGED worker
-----------------------------------------------------------------------------
WorkerStep(w) ==
    \/ AssignTask(w) \/ AssignNothing(w) \/ AssignUndefined(w)
    \/ DoMapTask(w) \/ ReadInputs(w) \/ OpenOutput(w) \/ WriteOutput(w)
    \/ CommitIgnored(w) \/ CommitMapTask(w) \/ CommitMapUndefined(w) \/ CommitReduceTask(w)
    \/ CallFails(w)

Next ==
    \/ \E w \in Worker : WorkerStep(w) \/ Crash(w)
    \/ \E ids \in SUBSET inProgress : DetectTimeoutTask(ids)
    \/ ExitServer

Spec == Init /\ [][Next]_vars

(* A process that lives goes on, a call that has left arrives, and a task  *)
(* nobody works on is found by a later pass of detectTimeoutTask.          *)
Fairness ==
    /\ \A w \in Worker : WF_vars(WorkerStep(w))
    /\ WF_vars(DetectTimeoutTask(Orphans))

FairSpec == Spec /\ Fairness
-----------------------------------------------------------------------------
TypeOK ==
    /\ master \in {"up", "stopped", "undefined"}
    /\ phase \in {"MAP", "REDUCE", "COMPLETED"}
    /\ mapState \in [MapId -> State]
    /\ reduceState \in [ReduceId -> State]
    /\ idle \in Seq(TaskId)
    /\ inProgress \subseteq TaskId
    /\ completedCnt \in Nat
    /\ phase = "MAP" => completedCnt < NumMap
    /\ phase = "REDUCE" => completedCnt < NumReduce
    /\ inter \subseteq MapId
    /\ out \in [ReduceId -> {"none", "partial", "whole"}]
    /\ worker \in [Worker -> [pc: {"ask", "work", "open", "write", "commit", "end"},
                              type: {"MAP", "REDUCE"}, id: TaskId,
                              whole: BOOLEAN, linked: BOOLEAN]]
    /\ crashed \subseteq Worker
    /\ slow \in Nat
    /\ finished \subseteq ReduceId

(* No task is lost: one that is IDLE is in the queue, and one that is      *)
(* IN_PROGRESS is watched by detectTimeoutTask, although the queue and     *)
(* inProgress_ outlive the phase they were filled in and tasks that are    *)
(* completed are popped, handed out and timed out again.                   *)
NoTaskLost ==
    \A id \in DOMAIN Tasks :
        /\ Tasks[id] = "IDLE" => \E k \in DOMAIN idle : idle[k] = id
        /\ Tasks[id] = "IN_PROGRESS" => id \in inProgress

(* A reduce task counts as completed only when some worker has finished it *)
(* from all map results: no late result of the map phase or of an earlier  *)
(* assignment is taken for it, nor one computed while the map results are  *)
(* removed.                                                                *)
OnlyFinishedCounts ==
    \A r \in ReduceId : reduceState[r] = "COMPLETED" => r \in finished

(* Workers that crash, at any moment, never harm the job: as long as no    *)
(* task timed out while its worker lived, every task is counted once, the  *)
(* master does nothing undefined and the output of the job is whole.       *)
Completed == {id \in DOMAIN Tasks : Tasks[id] = "COMPLETED"}

CrashesDoNoHarm ==
    slow = 0 =>
        /\ master # "undefined"
        /\ completedCnt = Cardinality(Completed)
        /\ \A r \in ReduceId : reduceState[r] = "COMPLETED" => out[r] = "whole"
        /\ phase = "COMPLETED" => \A r \in ReduceId : out[r] = "whole"

(* The job ends, if the master survives, as long as one worker does.       *)
JobEnds == <>(phase = "COMPLETED" \/ master = "undefined")
=============================================================================
