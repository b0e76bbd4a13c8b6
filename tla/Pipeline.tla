------------------------------ MODULE Pipeline ------------------------------
(***************************************************************************)
(* war::Pipeline: a task sequencer built from one worker thread, one       *)
(* boost::asio io_context, a counter of queued tasks (count_), two flags   *)
(* (closing_, closed_) and a mutex (waiter_) the worker holds while it     *)
(* lives.                                                                  *)
(*                                                                         *)
(* A call is one invocation of a member function.  It has two threads of   *)
(* control: call[c] is where its caller is inside the member function, and *)
(* task[c] is where the handler it gave to the io_context is.  One step    *)
(* makes one access to the state the threads share, so every interleaving  *)
(* of the loads, stores and increments of the code is a behaviour here.    *)
(***************************************************************************)
EXTENDS Naturals, Sequences, FiniteSets

CONSTANTS
  Calls,        (* identities of calls; each is made at most once          *)
  Capacity,     (* capacity_                                               *)
  MaxCount,     (* the largest value of size_t: count_ wraps beyond it     *)
  ClientKinds,  (* member functions other threads call                     *)
  WorkerKinds   (* member functions tasks call on their own pipeline       *)

Kinds == {"Post", "Dispatch", "Sync", "Promise", "Timer", "Token",
          "TokenTimer", "Raw", "Close", "Wait"}

(* Kinds whose queued handler was counted by AddingTask.                   *)
CountedKinds == {"Post", "Dispatch", "Sync", "Promise"}

(* Kinds whose handler decrements count_ in ExecTask_.                     *)
DecrementingKinds == CountedKinds \cup {"Token"}

(* PostSynchronously and PostWithPromise wrap the task in a lambda that    *)
(* enters ExecTask_ a second time and settles a promise.                   *)
WrappedKinds == {"Sync", "Promise"}

(* Post and PostWithTimer with a completion token: a completion handler    *)
(* runs on the worker after the task.                                      *)
TokenKinds == {"Token", "TokenTimer"}

ASSUME PipelineAssumption ==
  /\ IsFiniteSet(Calls)
  /\ Capacity \in Nat
  /\ MaxCount \in Nat
  /\ Capacity <= MaxCount
  /\ Cardinality(Calls) <= MaxCount
  /\ ClientKinds \subseteq Kinds
  /\ WorkerKinds \subseteq Kinds

VARIABLES
  call,     (* control of the caller inside the member function            *)
  task,     (* control of the handler                                      *)
  outcome,  (* what became of the caller's task function                   *)
  promise,  (* the promise of a Sync or Promise call                       *)
  kind,     (* the member function called                                  *)
  by,       (* whether the caller is the worker thread                     *)
  before,   (* history: the handlers queued when the call began            *)
  queue,    (* ready handlers of the io_context                            *)
  stopped,  (* io_context::stop() was called                               *)
  guard,    (* work_guard_ keeps run() from returning when idle            *)
  stack,    (* handlers the worker is executing, innermost first           *)
  worker,   (* the worker thread                                           *)
  waiter,   (* the worker holds waiter_                                    *)
  count,    (* count_                                                      *)
  closing,  (* closing_                                                    *)
  closed    (* closed_                                                     *)

ids    == <<kind, by, before>>
result == <<outcome, promise>>
ioc    == <<queue, stopped, guard>>
thread == <<stack, worker, waiter>>
flags  == <<closing, closed>>
vars   == <<call, task, outcome, promise, kind, by, before, queue, stopped,
            guard, stack, worker, waiter, count, closing, closed>>

(* Points inside a member function where the caller may still be.          *)
ApiPoints == {"dispatch", "post", "adding", "over", "posting", "timer",
              "arming", "close", "closing", "shut", "future", "waiter"}
CallPoints == ApiPoints \cup {"idle", "inline", "returned", "threw"}
TaskPoints == {"none", "armed", "queued", "entered", "check", "inner",
               "running", "completing", "shutdown", "done", "escaped"}

TypeOK ==
  /\ call \in [Calls -> CallPoints]
  /\ task \in [Calls -> TaskPoints]
  /\ outcome \in [Calls -> {"none", "ran", "failed", "dismissed"}]
  /\ promise \in [Calls -> {"unset", "value", "exception"}]
  /\ kind \in [Calls -> Kinds \cup {"none"}]
  /\ by \in [Calls -> {"client", "worker", "none"}]
  /\ before \in [Calls -> SUBSET Calls]
  /\ queue \in Seq(Calls)
  /\ stack \in Seq(Calls)
  /\ worker \in {"created", "starting", "failed", "looping", "unwinding", "exited"}
  /\ count \in 0 .. MaxCount
  /\ {stopped, guard, waiter, closing, closed} \subseteq BOOLEAN

Init ==
  /\ call = [c \in Calls |-> "idle"]
  /\ task = [c \in Calls |-> "none"]
  /\ outcome = [c \in Calls |-> "none"]
  /\ promise = [c \in Calls |-> "unset"]
  /\ kind = [c \in Calls |-> "none"]
  /\ by = [c \in Calls |-> "none"]
  /\ before = [c \in Calls |-> {}]
  /\ queue = << >>
  /\ stack = << >>
  /\ worker = "created"
  /\ count = 0
  /\ stopped = FALSE /\ guard = FALSE /\ waiter = FALSE
  /\ closing = FALSE /\ closed = FALSE

-----------------------------------------------------------------------------
(* Calls.                                                                  *)

(* size_t arithmetic.                                                      *)
Inc(n) == IF n = MaxCount THEN 0 ELSE n + 1

(* Mutant of Dec: a signed counter.                                        *)
SignedDec(n) == n - 1

Dec(n) == IF n = 0 THEN MaxCount ELSE n - 1

(* The worker is inside a member function a task called.                   *)
WorkerInApi == \E c \in Calls : by[c] = "worker" /\ call[c] \in ApiPoints

(* The worker executes code of the user, innermost on its stack.           *)
InUserCode ==
  /\ stack # << >>
  /\ task[Head(stack)] \in {"running", "completing"}
  /\ ~WorkerInApi

Entry(k) ==
  CASE k \in {"Dispatch", "Sync"} -> "dispatch"
    [] k \in {"Post", "Promise"}  -> "post"
    [] k \in {"Token", "Raw"}     -> "posting"
    [] k = "Timer"                -> "timer"
    [] k = "TokenTimer"           -> "arming"
    [] k = "Close"                -> "close"
    [] k = "Wait"                 -> "waiter"

Begin(c, k, b) ==
  /\ call[c] = "idle"
  /\ call' = [call EXCEPT ![c] = Entry(k)]
  /\ kind' = [kind EXCEPT ![c] = k]
  /\ by' = [by EXCEPT ![c] = b]
  /\ before' = [before EXCEPT ![c] = {d \in Calls : task[d] = "queued"}]
  /\ UNCHANGED <<task, result, ioc, thread, count, flags>>

(* The constructor has returned once the worker reached its loop.          *)
ClientCalls(c) ==
  /\ worker \in {"looping", "unwinding", "exited"}
  /\ \E k \in ClientKinds : Begin(c, k, "client")

WorkerCalls(c) ==
  /\ InUserCode
  /\ \E k \in WorkerKinds : Begin(c, k, "worker")

(* PostSynchronously goes on to wait for its future whether or not the     *)
(* task was accepted; every other function returns.                        *)
AfterPost(c) == IF kind[c] = "Sync" THEN "future" ELSE "returned"

(* Mutant of DispatchCheck: every caller is taken for the worker.          *)
DispatchInline(c) ==
  /\ call[c] = "dispatch"
  /\ IF ~closing
     THEN /\ call' = [call EXCEPT ![c] = "inline"]
          /\ task' = [task EXCEPT ![c] = "check"]
          /\ stack' = <<c>> \o stack
     ELSE /\ call' = [call EXCEPT ![c] = AfterPost(c)]
          /\ UNCHANGED <<task, stack>>
  /\ UNCHANGED <<ids, result, ioc, worker, waiter, count, flags>>

(* Dispatch: one load of closing_, then ExecTask_ inline or Post.          *)
DispatchCheck(c) ==
  /\ call[c] = "dispatch"
  /\ IF ~closing /\ by[c] = "worker"
     THEN /\ call' = [call EXCEPT ![c] = "inline"]
          /\ task' = [task EXCEPT ![c] = "check"]
          /\ stack' = <<c>> \o stack
     ELSE /\ call' = [call EXCEPT ![c] = IF closing THEN AfterPost(c) ELSE "post"]
          /\ UNCHANGED <<task, stack>>
  /\ UNCHANGED <<ids, result, ioc, worker, waiter, count, flags>>

PostCheck(c) ==
  /\ call[c] = "post"
  /\ call' = [call EXCEPT ![c] = IF closing THEN AfterPost(c) ELSE "adding"]
  /\ UNCHANGED <<task, ids, result, ioc, thread, count, flags>>

(* Mutant of TakeSlot: count_++ > capacity_.                               *)
PostIncrement(c) ==
  /\ call[c] = "adding"
  /\ count' = Inc(count)
  /\ call' = [call EXCEPT ![c] = IF count > Capacity THEN "over" ELSE "posting"]
  /\ UNCHANGED <<task, ids, result, ioc, thread, flags>>

(* AddingTask: ++count_ > capacity_ is one atomic increment.               *)
TakeSlot(c) ==
  /\ call[c] = "adding"
  /\ count' = Inc(count)
  /\ call' = [call EXCEPT ![c] = IF Inc(count) > Capacity THEN "over" ELSE "posting"]
  /\ UNCHANGED <<task, ids, result, ioc, thread, flags>>

(* Mutant of GiveBackSlot: the throw leaves count_ incremented.            *)
KeepSlot(c) ==
  /\ call[c] = "over"
  /\ call' = [call EXCEPT ![c] = "threw"]
  /\ UNCHANGED <<task, ids, result, ioc, thread, count, flags>>

(* AddingTask: --count_, then ExceptionCapacityExceeded to the caller.     *)
GiveBackSlot(c) ==
  /\ call[c] = "over"
  /\ count' = Dec(count)
  /\ call' = [call EXCEPT ![c] = "threw"]
  /\ UNCHANGED <<task, ids, result, ioc, thread, flags>>

(* Mutant of Enqueue: boost::asio::dispatch in the place of post.          *)
RunInline(c) ==
  /\ call[c] = "posting"
  /\ IF by[c] = "worker"
     THEN /\ call' = [call EXCEPT ![c] = "inline"]
          /\ task' = [task EXCEPT ![c] = "entered"]
          /\ stack' = <<c>> \o stack
          /\ UNCHANGED queue
     ELSE /\ call' = [call EXCEPT ![c] = AfterPost(c)]
          /\ task' = [task EXCEPT ![c] = "queued"]
          /\ queue' = Append(queue, c)
          /\ UNCHANGED stack
  /\ UNCHANGED <<ids, result, stopped, guard, worker, waiter, count, flags>>

(* boost::asio::post: a stopped io_context still accepts the handler.      *)
Enqueue(c) ==
  /\ call[c] = "posting"
  /\ queue' = Append(queue, c)
  /\ task' = [task EXCEPT ![c] = "queued"]
  /\ call' = [call EXCEPT ![c] = AfterPost(c)]
  /\ UNCHANGED <<ids, result, stopped, guard, thread, count, flags>>

TimerCheck(c) ==
  /\ call[c] = "timer"
  /\ call' = [call EXCEPT ![c] = IF closing THEN "returned" ELSE "arming"]
  /\ UNCHANGED <<task, ids, result, ioc, thread, count, flags>>

Arm(c) ==
  /\ call[c] = "arming"
  /\ task' = [task EXCEPT ![c] = "armed"]
  /\ call' = [call EXCEPT ![c] = "returned"]
  /\ UNCHANGED <<ids, result, ioc, thread, count, flags>>

(* Mutant of FutureReady: the wait is given up when the pipeline closes.   *)
FutureAbandoned(c) ==
  /\ call[c] = "future"
  /\ promise[c] # "unset" \/ closing
  /\ call' = [call EXCEPT ![c] = IF promise[c] = "exception" THEN "threw" ELSE "returned"]
  /\ UNCHANGED <<task, ids, result, ioc, thread, count, flags>>

(* future.get() of PostSynchronously returns or rethrows.                  *)
FutureReady(c) ==
  /\ call[c] = "future"
  /\ promise[c] # "unset"
  /\ call' = [call EXCEPT ![c] = IF promise[c] = "value" THEN "returned" ELSE "threw"]
  /\ UNCHANGED <<task, ids, result, ioc, thread, count, flags>>

CloseCheck(c) ==
  /\ call[c] = "close"
  /\ call' = [call EXCEPT ![c] = IF closing THEN "returned" ELSE "closing"]
  /\ UNCHANGED <<task, ids, result, ioc, thread, count, flags>>

ClosePost(c) ==
  /\ call[c] = "closing"
  /\ queue' = Append(queue, c)
  /\ task' = [task EXCEPT ![c] = "queued"]
  /\ call' = [call EXCEPT ![c] = "shut"]
  /\ UNCHANGED <<ids, result, stopped, guard, thread, count, flags>>

(* Mutant of SetClosing: Close leaves closing_ alone.                      *)
ForgetClosing(c) ==
  /\ call[c] = "shut"
  /\ call' = [call EXCEPT ![c] = "returned"]
  /\ UNCHANGED <<task, ids, result, ioc, thread, count, flags>>

SetClosing(c) ==
  /\ call[c] = "shut"
  /\ closing' = TRUE
  /\ call' = [call EXCEPT ![c] = "returned"]
  /\ UNCHANGED <<task, ids, result, ioc, thread, count, closed>>

(* WaitUntilClosed gets waiter_ when the worker has let go of it.          *)
WaiterFree(c) ==
  /\ call[c] = "waiter"
  /\ ~waiter
  /\ call' = [call EXCEPT ![c] = "returned"]
  /\ UNCHANGED <<task, ids, result, ioc, thread, count, flags>>

-----------------------------------------------------------------------------
(* The worker thread.                                                      *)

(* Mutant of RunLock: the worker does not take waiter_.                    *)
RunUnlocked ==
  /\ worker = "created"
  /\ worker' = "starting"
  /\ UNCHANGED <<call, task, ids, result, ioc, stack, waiter, count, flags>>

RunLock ==
  /\ worker = "created"
  /\ worker' = "starting"
  /\ waiter' = TRUE
  /\ UNCHANGED <<call, task, ids, result, ioc, stack, count, flags>>

(* Mutant of RunStart: no work guard.                                      *)
RunUnguarded ==
  /\ worker = "starting"
  /\ worker' = "looping"
  /\ UNCHANGED <<call, task, ids, result, ioc, stack, waiter, count, flags>>

RunStart ==
  /\ worker = "starting"
  /\ worker' = "looping"
  /\ guard' = TRUE
  /\ UNCHANGED <<call, task, ids, result, queue, stopped, stack, waiter, count, flags>>

(* make_unique throws: the constructor never returns.                      *)
RunFails ==
  /\ worker = "starting"
  /\ worker' = "failed"
  /\ waiter' = FALSE
  /\ UNCHANGED <<call, task, ids, result, ioc, stack, count, flags>>

(* The reactor moves an expired timer's handler to the ready handlers; the *)
(* worker runs the reactor between handlers.                               *)
Expire(c) ==
  /\ worker = "looping" /\ ~stopped /\ stack = << >>
  /\ task[c] = "armed"
  /\ task' = [task EXCEPT ![c] = "queued"]
  /\ queue' = Append(queue, c)
  /\ UNCHANGED <<call, ids, result, stopped, guard, thread, count, flags>>

FirstPoint(k) ==
  CASE k \in DecrementingKinds       -> "entered"
    [] k \in {"Timer", "TokenTimer"} -> "check"
    [] k = "Close"                   -> "shutdown"
    [] OTHER                         -> "running"

Dequeue ==
  /\ worker = "looping" /\ ~stopped /\ stack = << >>
  /\ queue # << >>
  /\ LET c == Head(queue) IN
       /\ task' = [task EXCEPT ![c] = FirstPoint(kind[c])]
       /\ stack' = <<c>>
  /\ queue' = Tail(queue)
  /\ UNCHANGED <<call, ids, result, stopped, guard, worker, waiter, count, flags>>

(* The innermost handler of the worker is at point p.                      *)
At(c, p) ==
  /\ stack # << >> /\ c = Head(stack)
  /\ task[c] = p
  /\ ~WorkerInApi

(* ExecTask_: --count_.                                                    *)
Uncount(c) ==
  /\ At(c, "entered")
  /\ count' = Dec(count)
  /\ task' = [task EXCEPT ![c] = "check"]
  /\ UNCHANGED <<call, ids, result, ioc, thread, flags>>

(* The call of the task function is over, with outcome o and promise p.    *)
EndTask(c, o, p) ==
  /\ outcome' = [outcome EXCEPT ![c] = o]
  /\ promise' = [promise EXCEPT ![c] = p]
  /\ IF kind[c] \in TokenKinds
     THEN /\ task' = [task EXCEPT ![c] = "completing"]
          /\ UNCHANGED <<call, stack>>
     ELSE /\ task' = [task EXCEPT ![c] = "done"]
          /\ call' = [call EXCEPT ![c] = IF @ = "inline" THEN AfterPost(c) ELSE @]
          /\ stack' = Tail(stack)
  /\ UNCHANGED <<ids, ioc, worker, waiter, count, flags>>

(* ExecTask_: the load of closing_.  A wrapped task comes here again.      *)
StartTask(c) ==
  /\ At(c, "check")
  /\ ~closing
  /\ task' = [task EXCEPT ![c] = IF kind[c] \in WrappedKinds THEN "inner" ELSE "running"]
  /\ UNCHANGED <<call, ids, result, ioc, thread, count, flags>>

DismissTask(c) ==
  /\ At(c, "check")
  /\ closing
  /\ EndTask(c, "dismissed", promise[c])

StartInner(c) ==
  /\ At(c, "inner")
  /\ ~closing
  /\ task' = [task EXCEPT ![c] = "running"]
  /\ UNCHANGED <<call, ids, result, ioc, thread, count, flags>>

(* The inner ExecTask_ returns without a word: PostSynchronously's lambda  *)
(* goes on to set_value().                                                 *)
DismissInner(c) ==
  /\ At(c, "inner")
  /\ closing
  /\ EndTask(c, "dismissed", IF kind[c] = "Sync" THEN "value" ELSE promise[c])

TaskReturns(c) ==
  /\ At(c, "running")
  /\ EndTask(c, "ran", IF kind[c] \in WrappedKinds THEN "value" ELSE promise[c])

(* Mutant of TaskThrows: the inner ExecTask_ catches and logs.             *)
ThrowSwallowed(c) ==
  /\ At(c, "running")
  /\ kind[c] # "Raw"
  /\ EndTask(c, "failed", IF kind[c] \in WrappedKinds THEN "value" ELSE promise[c])

(* Mutant of TaskThrows: the lambda of a wrapped task does not catch.      *)
ThrowUnreported(c) ==
  /\ At(c, "running")
  /\ kind[c] # "Raw"
  /\ EndTask(c, "failed", promise[c])

(* Mutant of TaskThrows: OnTimer_ runs the task without autoCatch.         *)
ThrowUncaught(c) ==
  /\ At(c, "running")
  /\ kind[c] # "Raw"
  /\ IF kind[c] = "Timer"
     THEN /\ task' = [task EXCEPT ![c] = "escaped"]
          /\ stack' = << >>
          /\ worker' = "unwinding"
          /\ UNCHANGED <<call, ids, result, ioc, waiter, count, flags>>
     ELSE EndTask(c, "failed", IF kind[c] \in WrappedKinds THEN "exception" ELSE promise[c])

(* ExecTask_ catches, or the lambda of a wrapped task does.                *)
TaskThrows(c) ==
  /\ At(c, "running")
  /\ kind[c] # "Raw"
  /\ EndTask(c, "failed", IF kind[c] \in WrappedKinds THEN "exception" ELSE promise[c])

CompletionReturns(c) ==
  /\ At(c, "completing")
  /\ task' = [task EXCEPT ![c] = "done"]
  /\ stack' = Tail(stack)
  /\ UNCHANGED <<call, ids, result, ioc, worker, waiter, count, flags>>

(* A handler given to the io_context itself, or a completion handler,      *)
(* throws: nothing catches below Run, which leaves io_context::run().      *)
HandlerEscapes(c) ==
  /\ \/ At(c, "running") /\ kind[c] = "Raw"
     \/ At(c, "completing")
  /\ task' = [task EXCEPT ![c] = "escaped"]
  /\ stack' = << >>
  /\ worker' = "unwinding"
  /\ UNCHANGED <<call, ids, result, ioc, waiter, count, flags>>

(* Mutant of Shutdown: the guard is reset and run() left to drain.         *)
ShutdownDrains(c) ==
  /\ At(c, "shutdown")
  /\ closed' = TRUE
  /\ guard' = IF closed THEN guard ELSE FALSE
  /\ task' = [task EXCEPT ![c] = "done"]
  /\ stack' = Tail(stack)
  /\ UNCHANGED <<call, ids, result, queue, stopped, worker, waiter, count, closing>>

(* Mutant of Shutdown: closing_ is tested in the place of closed_.         *)
ShutdownTestsClosing(c) ==
  /\ At(c, "shutdown")
  /\ closed' = (closed \/ ~closing)
  /\ guard' = IF closing THEN guard ELSE FALSE
  /\ stopped' = IF closing THEN stopped ELSE TRUE
  /\ task' = [task EXCEPT ![c] = "done"]
  /\ stack' = Tail(stack)
  /\ UNCHANGED <<call, ids, result, queue, worker, waiter, count, closing>>

(* The handler Close() posted.                                             *)
Shutdown(c) ==
  /\ At(c, "shutdown")
  /\ closed' = TRUE
  /\ guard' = IF closed THEN guard ELSE FALSE
  /\ stopped' = IF closed THEN stopped ELSE TRUE
  /\ task' = [task EXCEPT ![c] = "done"]
  /\ stack' = Tail(stack)
  /\ UNCHANGED <<call, ids, result, queue, worker, waiter, count, closing>>

OutOfWork == ~guard /\ queue = << >> /\ \A c \in Calls : task[c] # "armed"

(* io_context::run() has returned or thrown; Run returns and waiter_lock   *)
(* releases waiter_.                                                       *)
Exit ==
  /\ \/ worker = "unwinding"
     \/ worker = "looping" /\ stack = << >> /\ (stopped \/ OutOfWork)
  /\ worker' = "exited"
  /\ waiter' = FALSE
  /\ UNCHANGED <<call, task, ids, result, ioc, stack, count, flags>>

-----------------------------------------------------------------------------
(* A step of the caller inside a member function.                          *)
ApiStep(c) ==
  \/ DispatchCheck(c) \/ PostCheck(c) \/ TakeSlot(c) \/ GiveBackSlot(c)
  \/ Enqueue(c) \/ TimerCheck(c) \/ Arm(c) \/ FutureReady(c)
  \/ CloseCheck(c) \/ ClosePost(c) \/ SetClosing(c) \/ WaiterFree(c)

(* A step of the handler of c on the worker.                               *)
HandlerStep(c) ==
  \/ Uncount(c) \/ StartTask(c) \/ DismissTask(c) \/ StartInner(c)
  \/ DismissInner(c) \/ TaskReturns(c) \/ TaskThrows(c)
  \/ CompletionReturns(c) \/ HandlerEscapes(c) \/ Shutdown(c)

WorkerStep ==
  \/ RunLock \/ RunStart \/ RunFails \/ Dequeue \/ Exit
  \/ \E c \in Calls : HandlerStep(c)

Next ==
  \/ \E c \in Calls : ClientCalls(c) \/ WorkerCalls(c) \/ ApiStep(c) \/ Expire(c)
  \/ WorkerStep

Spec == Init /\ [][Next]_vars

(* Threads inside the library keep running, timers expire, and the user's  *)
(* tasks come to an end (TaskReturns, TaskThrows are steps of the worker). *)
Fairness ==
  /\ \A c \in Calls : WF_vars(ApiStep(c) \/ Expire(c))
  /\ WF_vars(WorkerStep)

FairSpec == Spec /\ Fairness

-----------------------------------------------------------------------------
(* Safety.                                                                 *)

(* Calls whose increment of count_ has not been undone.                    *)
Held == {c \in Calls : /\ kind[c] \in CountedKinds
                       /\ \/ call[c] \in {"over", "posting"}
                          \/ task[c] \in {"queued", "entered"}}

(* Of these, the calls AddingTask let through.                             *)
Accepted == {c \in Held : call[c] # "over"}

(* Token posts that went through the decrement without an increment.       *)
Overdrawn == {c \in Calls : /\ kind[c] = "Token"
                            /\ task[c] \in {"check", "running", "completing", "done", "escaped"}}

(* count_ is the number of increments not undone, less one for every       *)
(* handler of a Token post that ran: each interleaving of AddingTask's     *)
(* increment and decrement with ExecTask_'s decrement keeps the sum.       *)
CountAccounting ==
  LET held == Cardinality(Held)
      less == Cardinality(Overdrawn)
  IN  count + less = IF less <= held THEN held ELSE held + MaxCount + 1

(* AddingTask never lets more than capacity_ tasks through at a time,      *)
(* whatever the interleaving of posters, but for the Token posts that ran, *)
(* each of which makes room for one more.                                  *)
QueueBound == Cardinality(Accepted) <= Capacity + Cardinality(Overdrawn)

(* When AddingTask turns a call down, the queue is full, or seems so       *)
(* because another call is being turned down.                              *)
JustRefusals ==
  \A c \in Calls : call[c] # "over" /\ call'[c] = "over" =>
    \/ Cardinality(Accepted) >= Capacity
    \/ \E d \in Calls : call[d] = "over"

(* No call is turned down for less, as long as no Token post ran: neither  *)
(* a refusal nor a task that is dismissed or throws leaves an increment in *)
(* count_.                                                                 *)
RefusedWhenFull == [][Overdrawn = {} => JustRefusals]_vars

(* Post adds to the end of the queue: when a handler has left the queue,   *)
(* so has every handler that was queued before its call began.  Dispatch   *)
(* on the worker is the function call that overtakes the queue.            *)
Fifo ==
  \A c, d \in Calls :
    /\ d \in before[c] /\ task[c] \notin {"none", "armed", "queued"}
    /\ ~(kind[c] \in {"Dispatch", "Sync"} /\ by[c] = "worker")
    => task[d] # "queued"

(* The handler of PostSynchronously uses a promise on its caller's stack:  *)
(* while that handler can still run, its caller has not left the function. *)
PromiseAlive ==
  \A c \in Calls :
    kind[c] = "Sync" /\ task[c] \in {"queued", "entered", "check", "inner", "running"}
    => call[c] \in {"future", "inline"}

(* What the caller of PostSynchronously can conclude: a normal return says *)
(* the task ran, unless the pipeline is closing; an exception is the       *)
(* task's own, or the task was never queued.                               *)
SyncReport ==
  \A c \in Calls : kind[c] = "Sync" =>
    /\ call[c] = "returned" => \/ outcome[c] = "ran"
                               \/ outcome[c] = "dismissed" /\ closing
    /\ call[c] = "threw" => outcome[c] = "failed" \/ task[c] = "none"

(* Only an exception from a handler given to the io_context itself, or     *)
(* from a completion handler, ends the worker of a pipeline that has not   *)
(* been closed: a throwing task never does.                                *)
ThrowContained ==
  worker \in {"unwinding", "exited"} /\ ~closed =>
    \E c \in Calls : task[c] = "escaped" /\ kind[c] \in TokenKinds \cup {"Raw"}

(* Once closed_ is set no task starts, in whichever order Close's handler  *)
(* and its store to closing_ come, and however many handlers are queued.   *)
NoStartAfterClosed ==
  [][closed => \A c \in Calls : task'[c] = "running" => task[c] = "running"]_vars

(* closed_ is ahead of closing_ only while a Close() call is between its   *)
(* post and its store.                                                     *)
ClosedBeforeClosing == closed /\ ~closing => \E c \in Calls : call[c] = "shut"

(* A pipeline is a task sequencer: one handler at a time, each call's at   *)
(* most once, in queue order, none after closed_, and the thread leaves    *)
(* only when closed or by an exception, however its flags interleave.      *)
Over == {c \in Calls : task[c] \in {"done", "escaped"}}
Gone == worker \in {"unwinding", "exited"}

Sequencer == INSTANCE TaskSequencer WITH
  Jobs <- Calls, line <- queue, nest <- stack, over <- Over,
  shut <- closed, left <- Gone

ImplementsSequencer == Sequencer!SequencerSpec

(* WaitUntilClosed returns after the worker is done, even to a caller that *)
(* asks as soon as the constructor returned.                               *)
WaitReturnsAfterExit ==
  \A c \in Calls : kind[c] = "Wait" /\ call[c] = "returned" => worker = "exited"

-----------------------------------------------------------------------------
(* What the documentation and the tests say, and the code does not do.     *)

(* WarPipeline.h:36: ExceptionCapacityExceeded is "thrown from             *)
(* post/dispatch functions if the capacity of the queue is used up".       *)
RefusedOnlyWhenFull == [][JustRefusals]_vars

(* WarPipeline.h:97 and 158: a task Close() dismisses from the queue lets  *)
(* go of the caller that waits for it.                                     *)
AwaitingFuture == {c \in Calls : call[c] = "future"}
SyncReturns == AwaitingFuture # {} ~> AwaitingFuture = {}
=============================================================================
