----------------------------- MODULE Threadpool -----------------------------
(***************************************************************************)
(* war::Threadpool: capacity_ pipelines, an atomic round robin counter,    *)
(* the flags closed_ and finished_ and the mutex of JoinAll.               *)
(*                                                                         *)
(* Each pipeline is one line of handlers with the flags of Pipeline, at a  *)
(* coarser grain: AddingTask and the post that follows are one step here,  *)
(* and so are ExecTask_'s decrement and the removal from the line.  What   *)
(* it keeps is the point between two accesses to state of two pipelines,   *)
(* or of a pipeline and the pool.  Only the pool's own functions are       *)
(* calls; each is made at most once, once the pool is constructed.         *)
(***************************************************************************)
EXTENDS Naturals, Sequences, FiniteSets

CONSTANTS
  Calls,          (* identities of calls                                   *)
  NumThreads,     (* the numThreads argument                               *)
  Cores,          (* what thread::hardware_concurrency() returns           *)
  UintMax,        (* the largest value of unsigned                         *)
  QueueCapacity,  (* maxPerThreadQueueCapacity                             *)
  ClientKinds,    (* functions each call of another thread may be          *)
  WorkerKinds,    (* functions tasks of the pool call                      *)
  Nobody          (* no call, or no pipeline                               *)

Kinds == {"Post", "PostWithTimer", "GetAnyPipeline", "Close", "WaitUntilClosed",
          "Destroy"}

ASSUME ThreadpoolAssumption ==
  /\ NumThreads \in 0 .. UintMax /\ Cores \in 0 .. UintMax
  /\ UintMax \in Nat /\ UintMax >= 2
  /\ QueueCapacity \in Nat
  /\ ClientKinds \in [Calls -> SUBSET Kinds]
  /\ WorkerKinds \subseteq Kinds \ {"Destroy"}
  /\ Nobody \notin Calls \cup Nat

(* max<unsigned>(2, thread::hardware_concurrency() - 1), in unsigned.      *)
DefaultThreads ==
  LET n == (Cores + UintMax) % (UintMax + 1)
  IN  IF n > 2 THEN n ELSE 2

capacity == IF NumThreads > 0 THEN NumThreads ELSE DefaultThreads

Pipelines == 0 .. capacity - 1

VARIABLES
  pool,      (* the constructor's progress                                 *)
  built,     (* pipelines in pool_                                         *)
  pc,        (* control of each call                                       *)
  kind,      (* the function called                                        *)
  by,        (* the pipeline whose task made the call, if any             *)
  target,    (* the pipeline GetAnyPipeline chose                          *)
  at,        (* the loop variable of Close and JoinAll                     *)
  late,      (* history: a post that began when closed_ was set            *)
  job,       (* what became of the task of a post                          *)
  line,      (* per pipeline: ready handlers                               *)
  nest,      (* per pipeline: the handler being executed, if any           *)
  over,      (* per pipeline: handlers that are over                       *)
  closing,   (* per pipeline: closing_                                     *)
  shut,      (* per pipeline: closed_, with io_context stopped             *)
  left,      (* per pipeline: the worker is gone and waiter_ is free       *)
  next,      (* round_robin_next_thread_                                   *)
  mutex,     (* the call that holds close_mutex_                           *)
  closed,    (* closed_ of the pool                                        *)
  finished   (* finished_                                                  *)

ids      == <<kind, by, late>>
object   == <<pool, built>>
pipeline == <<line, nest, over, closing, shut, left>>
vars     == <<pool, built, pc, kind, by, target, at, late, job, line, nest, over,
              closing, shut, left, next, mutex, closed, finished>>

ApiPoints == {"pick", "post", "adding", "close", "closing", "marking", "lock", "joining"}

TypeOK ==
  /\ pool \in {"building", "ready", "unwinding", "threw"}
  /\ built \in 0 .. capacity
  /\ pc \in [Calls -> ApiPoints \cup {"idle", "returned", "threw"}]
  /\ kind \in [Calls -> Kinds \cup {"none"}]
  /\ by \in [Calls -> Pipelines \cup {Nobody}]
  /\ target \in [Calls -> Pipelines \cup {Nobody}]
  /\ at \in [Calls -> 0 .. capacity]
  /\ late \in [Calls -> BOOLEAN]
  /\ job \in [Calls -> {"none", "dropped", "refused", "armed", "queued",
                        "started", "running", "ran", "dismissed"}]
  /\ line \in [Pipelines -> Seq(Calls)]
  /\ nest \in [Pipelines -> Seq(Calls)]
  /\ over \in [Pipelines -> SUBSET Calls]
  /\ {closing, shut, left} \subseteq [Pipelines -> BOOLEAN]
  /\ next \in 0 .. UintMax
  /\ mutex \in Calls \cup {Nobody}
  /\ {closed, finished} \subseteq BOOLEAN

Init ==
  /\ pool = "building" /\ built = 0
  /\ pc = [c \in Calls |-> "idle"]
  /\ kind = [c \in Calls |-> "none"]
  /\ by = [c \in Calls |-> Nobody]
  /\ target = [c \in Calls |-> Nobody]
  /\ at = [c \in Calls |-> 0]
  /\ late = [c \in Calls |-> FALSE]
  /\ job = [c \in Calls |-> "none"]
  /\ line = [p \in Pipelines |-> << >>]
  /\ nest = [p \in Pipelines |-> << >>]
  /\ over = [p \in Pipelines |-> {}]
  /\ closing = [p \in Pipelines |-> FALSE]
  /\ shut = [p \in Pipelines |-> FALSE]
  /\ left = [p \in Pipelines |-> FALSE]
  /\ next = 0 /\ mutex = Nobody
  /\ closed = FALSE /\ finished = FALSE

-----------------------------------------------------------------------------
(* The constructor.                                                        *)

BuildOne ==
  /\ pool = "building"
  /\ built' = built + 1
  /\ pool' = IF built' = capacity THEN "ready" ELSE pool
  /\ UNCHANGED <<pc, ids, target, at, job, pipeline, next, mutex, closed, finished>>

(* A pipeline's thread cannot be created.                                  *)
BuildFails ==
  /\ pool = "building"
  /\ pool' = "unwinding"
  /\ UNCHANGED <<built, pc, ids, target, at, job, pipeline, next, mutex, closed, finished>>

(* The exception reaches the user when the destructors of the pipelines    *)
(* built so far have joined their workers, which no one has closed.        *)
BuildThrows ==
  /\ pool = "unwinding"
  /\ \A p \in 0 .. built - 1 : left[p]
  /\ pool' = "threw"
  /\ UNCHANGED <<built, pc, ids, target, at, job, pipeline, next, mutex, closed, finished>>

-----------------------------------------------------------------------------
(* Calls.                                                                  *)

WorkerInApi(p) == \E c \in Calls : by[c] = p /\ pc[c] \in ApiPoints

Running(p) == nest[p] # << >> /\ job[Head(nest[p])] = "running" /\ ~WorkerInApi(p)

Entry(k) ==
  CASE k \in {"Post", "PostWithTimer", "GetAnyPipeline"} -> "pick"
    [] k \in {"Close", "Destroy"} -> "close"
    [] k = "WaitUntilClosed"      -> "lock"

Begin(c, k, b) ==
  /\ pc[c] = "idle"
  /\ pc' = [pc EXCEPT ![c] = Entry(k)]
  /\ kind' = [kind EXCEPT ![c] = k]
  /\ by' = [by EXCEPT ![c] = b]
  /\ late' = [late EXCEPT ![c] = closed /\ k \in {"Post", "PostWithTimer"}]
  /\ UNCHANGED <<object, target, at, job, pipeline, next, mutex, closed, finished>>

(* The destructor is called when no other thread uses the pool any more;   *)
(* its own tasks may.                                                      *)
ClientCalls(c) ==
  /\ pool = "ready"
  /\ \A d \in Calls : kind[d] # "Destroy"
  /\ \E k \in ClientKinds[c] :
       /\ k = "Destroy" => \A d \in Calls : by[d] = Nobody => pc[d] \notin ApiPoints
       /\ Begin(c, k, Nobody)

WorkerCalls(c) ==
  \E p \in Pipelines : Running(p) /\ \E k \in WorkerKinds : Begin(c, k, p)

(* Mutant of Inc: the counter does not wrap.                               *)
IncUnbounded(n) == n + 1

Inc(n) == IF n = UintMax THEN 0 ELSE n + 1

(* A post goes on to the pipeline it was given.                            *)
AfterPick(c) == IF kind[c] = "GetAnyPipeline" THEN "returned" ELSE "post"

(* Mutant of Pick: the counter is read, and not advanced.                 *)
PickUnmoved(c) ==
  /\ pc[c] = "pick"
  /\ target' = [target EXCEPT ![c] = Inc(next) % capacity]
  /\ pc' = [pc EXCEPT ![c] = AfterPick(c)]
  /\ UNCHANGED <<object, ids, at, job, pipeline, next, mutex, closed, finished>>

(* GetAnyPipeline: one atomic increment.                                   *)
Pick(c) ==
  /\ pc[c] = "pick"
  /\ next' = Inc(next)
  /\ target' = [target EXCEPT ![c] = Inc(next) % capacity]
  /\ pc' = [pc EXCEPT ![c] = AfterPick(c)]
  /\ UNCHANGED <<object, ids, at, job, pipeline, mutex, closed, finished>>

(* Mutant of PostCheck: the flag is not tested.                            *)
PostUnchecked(c) ==
  /\ pc[c] = "post"
  /\ pc' = [pc EXCEPT ![c] = "adding"]
  /\ UNCHANGED <<object, ids, target, at, job, pipeline, next, mutex, closed, finished>>

(* The load of closing_ at the top of Pipeline::Post and PostWithTimer.    *)
PostCheck(c) ==
  /\ pc[c] = "post"
  /\ IF closing[target[c]]
     THEN /\ pc' = [pc EXCEPT ![c] = "returned"]
          /\ job' = [job EXCEPT ![c] = "dropped"]
     ELSE /\ pc' = [pc EXCEPT ![c] = "adding"]
          /\ UNCHANGED job
  /\ UNCHANGED <<object, ids, target, at, pipeline, next, mutex, closed, finished>>

Append_(p, c) == line' = [line EXCEPT ![p] = Append(@, c)]

(* Posts that wait in the line of p; timers are not counted.               *)
Counted(p) == Cardinality({c \in Calls : kind[c] = "Post" /\ target[c] = p /\ job[c] = "queued"})

Add(c) ==
  /\ pc[c] = "adding" /\ kind[c] = "Post"
  /\ IF Counted(target[c]) < QueueCapacity
     THEN /\ Append_(target[c], c)
          /\ job' = [job EXCEPT ![c] = "queued"]
          /\ pc' = [pc EXCEPT ![c] = "returned"]
     ELSE /\ job' = [job EXCEPT ![c] = "refused"]
          /\ pc' = [pc EXCEPT ![c] = "threw"]
          /\ UNCHANGED line
  /\ UNCHANGED <<object, ids, target, at, nest, over, closing, shut, left, next, mutex, closed, finished>>

Arm(c) ==
  /\ pc[c] = "adding" /\ kind[c] = "PostWithTimer"
  /\ job' = [job EXCEPT ![c] = "armed"]
  /\ pc' = [pc EXCEPT ![c] = "returned"]
  /\ UNCHANGED <<object, ids, target, at, pipeline, next, mutex, closed, finished>>

(* The destructor goes on to JoinAll.                                      *)
AfterClose(c) == IF kind[c] = "Destroy" THEN "lock" ELSE "returned"

CloseCheck(c) ==
  /\ pc[c] = "close"
  /\ pc' = [pc EXCEPT ![c] = IF closed THEN AfterClose(c) ELSE "closing"]
  /\ UNCHANGED <<object, ids, target, at, job, pipeline, next, mutex, closed, finished>>

(* Mutant of CloseOne: Close gives up when another thread is at it.        *)
CloseOneGivesUp(c) ==
  /\ pc[c] = "closing" /\ at[c] < capacity
  /\ IF closing[at[c]]
     THEN pc' = [pc EXCEPT ![c] = AfterClose(c)] /\ UNCHANGED <<at, line>>
     ELSE Append_(at[c], c) /\ pc' = [pc EXCEPT ![c] = "marking"] /\ UNCHANGED at
  /\ UNCHANGED <<object, ids, target, job, nest, over, closing, shut, left, next, mutex, closed, finished>>

(* Pipeline::Close: the handler is posted unless closing_ is set.          *)
CloseOne(c) ==
  /\ pc[c] = "closing" /\ at[c] < capacity
  /\ IF closing[at[c]]
     THEN at' = [at EXCEPT ![c] = @ + 1] /\ UNCHANGED <<pc, line>>
     ELSE Append_(at[c], c) /\ pc' = [pc EXCEPT ![c] = "marking"] /\ UNCHANGED at
  /\ UNCHANGED <<object, ids, target, job, nest, over, closing, shut, left, next, mutex, closed, finished>>

(* Pipeline::Close: then closing_ is set.                                  *)
MarkClosing(c) ==
  /\ pc[c] = "marking"
  /\ closing' = [closing EXCEPT ![at[c]] = TRUE]
  /\ at' = [at EXCEPT ![c] = @ + 1]
  /\ pc' = [pc EXCEPT ![c] = "closing"]
  /\ UNCHANGED <<object, ids, target, job, line, nest, over, shut, left, next, mutex, closed, finished>>

CloseDone(c) ==
  /\ pc[c] = "closing" /\ at[c] = capacity
  /\ closed' = TRUE
  /\ pc' = [pc EXCEPT ![c] = AfterClose(c)]
  /\ at' = [at EXCEPT ![c] = 0]
  /\ UNCHANGED <<object, ids, target, job, pipeline, next, mutex, finished>>

(* JoinAll: lock close_mutex_ and test finished_.                          *)
JoinLock(c) ==
  /\ pc[c] = "lock" /\ mutex = Nobody
  /\ IF finished
     THEN pc' = [pc EXCEPT ![c] = "returned"] /\ UNCHANGED mutex
     ELSE pc' = [pc EXCEPT ![c] = "joining"] /\ mutex' = c
  /\ UNCHANGED <<object, ids, target, at, job, pipeline, next, closed, finished>>

(* Mutant of JoinOne: the wait is skipped for a pipeline that is closing.  *)
JoinSkipsClosing(c) ==
  /\ pc[c] = "joining" /\ at[c] < capacity
  /\ left[at[c]] \/ closing[at[c]]
  /\ at' = [at EXCEPT ![c] = @ + 1]
  /\ UNCHANGED <<object, pc, ids, target, job, pipeline, next, mutex, closed, finished>>

(* Pipeline::WaitUntilClosed of the next pipeline returns.                 *)
JoinOne(c) ==
  /\ pc[c] = "joining" /\ at[c] < capacity
  /\ left[at[c]]
  /\ at' = [at EXCEPT ![c] = @ + 1]
  /\ UNCHANGED <<object, pc, ids, target, job, pipeline, next, mutex, closed, finished>>

(* Mutant of JoinDone: close_mutex_ stays locked.                          *)
JoinKeepsLock(c) ==
  /\ pc[c] = "joining" /\ at[c] = capacity
  /\ finished' = TRUE
  /\ pc' = [pc EXCEPT ![c] = "returned"]
  /\ UNCHANGED <<object, ids, target, at, job, pipeline, next, mutex, closed>>

JoinDone(c) ==
  /\ pc[c] = "joining" /\ at[c] = capacity
  /\ finished' = TRUE
  /\ mutex' = Nobody
  /\ pc' = [pc EXCEPT ![c] = "returned"]
  /\ UNCHANGED <<object, ids, target, at, job, pipeline, next, closed>>

-----------------------------------------------------------------------------
(* The worker of pipeline p.                                               *)

IsTask(c) == kind[c] \in {"Post", "PostWithTimer"}

(* Mutant of Between: a stopped io_context goes on.                        *)
BetweenStopped(p) == nest[p] = << >> /\ ~left[p]

(* The worker is in io_context::run() between two handlers.                *)
Between(p) == nest[p] = << >> /\ ~shut[p] /\ ~left[p]

(* Mutant of Expire: the timer is not kept alive, and OnTimer_ is called   *)
(* with operation_aborted.                                                 *)
ExpireAborted(c) ==
  /\ job[c] = "armed" /\ Between(target[c])
  /\ job' = [job EXCEPT ![c] = "dismissed"]
  /\ UNCHANGED <<object, pc, ids, target, at, pipeline, next, mutex, closed, finished>>

Expire(c) ==
  /\ job[c] = "armed" /\ Between(target[c])
  /\ Append_(target[c], c)
  /\ job' = [job EXCEPT ![c] = "queued"]
  /\ UNCHANGED <<object, pc, ids, target, at, nest, over, closing, shut, left, next, mutex, closed, finished>>

Start(p) ==
  /\ Between(p) /\ line[p] # << >>
  /\ LET c == Head(line[p]) IN
       /\ nest' = [nest EXCEPT ![p] = <<c>>]
       /\ job' = [job EXCEPT ![c] = IF IsTask(c) THEN "started" ELSE @]
  /\ line' = [line EXCEPT ![p] = Tail(@)]
  /\ UNCHANGED <<object, pc, ids, target, at, over, closing, shut, left, next, mutex, closed, finished>>

Finish(p) ==
  /\ over' = [over EXCEPT ![p] = @ \cup {Head(nest[p])}]
  /\ nest' = [nest EXCEPT ![p] = << >>]

(* ExecTask_: the load of closing_.                                        *)
ExecTask(p) ==
  /\ nest[p] # << >>
  /\ LET c == Head(nest[p]) IN
       /\ job[c] = "started"
       /\ IF closing[p]
          THEN job' = [job EXCEPT ![c] = "dismissed"] /\ Finish(p)
          ELSE job' = [job EXCEPT ![c] = "running"] /\ UNCHANGED <<nest, over>>
  /\ UNCHANGED <<object, pc, ids, target, at, line, closing, shut, left, next, mutex, closed, finished>>

(* The task returns, or throws into ExecTask_.                             *)
TaskOver(p) ==
  /\ Running(p)
  /\ job' = [job EXCEPT ![Head(nest[p])] = "ran"]
  /\ Finish(p)
  /\ UNCHANGED <<object, pc, ids, target, at, line, closing, shut, left, next, mutex, closed, finished>>

(* Mutant of Shutdown: the handler goes through ExecTask_ like a task.     *)
ShutdownDismissed(p) ==
  /\ nest[p] # << >> /\ ~IsTask(Head(nest[p]))
  /\ shut' = [shut EXCEPT ![p] = ~closing[p]]
  /\ Finish(p)
  /\ UNCHANGED <<object, pc, ids, target, at, job, line, closing, left, next, mutex, closed, finished>>

(* The handler of Pipeline::Close.                                         *)
Shutdown(p) ==
  /\ nest[p] # << >> /\ ~IsTask(Head(nest[p]))
  /\ shut' = [shut EXCEPT ![p] = TRUE]
  /\ Finish(p)
  /\ UNCHANGED <<object, pc, ids, target, at, job, line, closing, left, next, mutex, closed, finished>>

(* io_context::run() returns, the thread ends and waiter_ is free.         *)
Leave(p) ==
  /\ nest[p] = << >> /\ shut[p] /\ ~left[p]
  /\ left' = [left EXCEPT ![p] = TRUE]
  /\ UNCHANGED <<object, pc, ids, target, at, job, line, nest, over, closing, shut, next, mutex, closed, finished>>

-----------------------------------------------------------------------------
ApiStep(c) ==
  \/ Pick(c) \/ PostCheck(c) \/ Add(c) \/ Arm(c)
  \/ CloseCheck(c) \/ CloseOne(c) \/ MarkClosing(c) \/ CloseDone(c)
  \/ JoinLock(c) \/ JoinOne(c) \/ JoinDone(c)

WorkerStep(p) == Start(p) \/ ExecTask(p) \/ TaskOver(p) \/ Shutdown(p) \/ Leave(p)

Next ==
  \/ BuildOne \/ BuildFails \/ BuildThrows
  \/ \E c \in Calls : ClientCalls(c) \/ WorkerCalls(c) \/ ApiStep(c) \/ Expire(c)
  \/ \E p \in Pipelines : WorkerStep(p)

Spec == Init /\ [][Next]_vars

(* Threads run, timers expire and tasks end.  close_mutex_ needs no more:  *)
(* as every call is made once, it is not taken for ever.                   *)
Fairness ==
  /\ \A c \in Calls : WF_vars(ApiStep(c) \/ Expire(c))
  /\ \A p \in Pipelines : WF_vars(WorkerStep(p))

FairSpec == Spec /\ Fairness

-----------------------------------------------------------------------------
(* Safety.                                                                 *)

Given(p) == Cardinality({c \in Calls : target[c] = p})
Picked   == Cardinality({c \in Calls : target[c] # Nobody})

(* "round-robin approach for balancing": no pipeline gets more than one    *)
(* task over any other, but for one more each time the counter wraps,      *)
(* since 2^w need not be a multiple of the number of pipelines.            *)
RoundRobin ==
  \A p, q \in Pipelines : Given(p) <= Given(q) + 1 + Picked \div (UintMax + 1)

(* However many threads close the pool at a time, when one of them is      *)
(* back, or closed_ is set, every pipeline is closing.                     *)
CloseIsComplete ==
  closed \/ (\E c \in Calls : kind[c] = "Close" /\ pc[c] = "returned")
  => \A p \in Pipelines : closing[p]

(* A post that begins when the pool is closed leaves nothing behind.       *)
LatePostDropped ==
  \A c \in Calls : late[c] => job[c] \in {"none", "dropped"}

(* JoinAll: who is back from WaitUntilClosed or the destructor, by way of  *)
(* the mutex or of finished_, finds every worker gone.                     *)
JoinedMeansLeft ==
  finished \/ (\E c \in Calls : kind[c] \in {"WaitUntilClosed", "Destroy"} /\ pc[c] = "returned")
  => \A p \in Pipelines : left[p] /\ ~WorkerInApi(p)

(* Each pipeline of the pool takes only steps of a task sequencer.         *)
Sequencer(p) == INSTANCE TaskSequencer WITH
  Jobs <- Calls, line <- line[p], nest <- nest[p], over <- over[p],
  shut <- shut[p], left <- left[p]

PipelinesAreSequencers ==
  [][\A p \in Pipelines :
       Sequencer(p)!SequencerNext \/ UNCHANGED Sequencer(p)!sequencer]_vars

-----------------------------------------------------------------------------
(* Liveness, for pools whose tasks do not wait for the pool to close.      *)

(* Close, from whatever thread, sends every worker home.                   *)
CloseEndsWorkers == (\E c \in Calls : pc[c] = "closing") ~> \A p \in Pipelines : left[p]

(* WaitUntilClosed and the destructor return once the pool is closed, in   *)
(* whichever order waiters and closers come.                               *)
Waiting == {c \in Calls : pc[c] \in {"lock", "joining"}}
WaitersReturn == closed /\ Waiting # {} ~> Waiting = {}

(* Every task that is accepted runs, unless its pipeline is closed.        *)
Outstanding == {c \in Calls : /\ job[c] \in {"armed", "queued", "started", "running", "dismissed"}
                              /\ ~closing[target[c]]}
TasksRun == Outstanding # {} ~> Outstanding = {}

=============================================================================
