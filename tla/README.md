# Verification of warlib

warlib is a small C++ library for asynchronous servers: a single-thread task
sequencer on top of `boost::asio` (`Pipeline`), a fixed pool of them
(`Threadpool`), a log engine that every other part writes to, and a few helpers
for clean-up and errors. This directory holds TLA+ modules translated from
`src/core`, the TLC configurations that check them, and theorems about each of
them that TLAPS checks.

Contents:

1. Inventory of the system
2. Modules
3. What each run checks, and its bounds
4. Fairness
5. Where the code and its documentation part
6. What is proved
7. What is only model-checked, and what is not modelled
8. Plan

## 1. Inventory of the system

| Component | Source | State | Operations |
|---|---|---|---|
| `Pipeline` | `WarPipeline.{h,cpp}` | `io_context_` (ready handlers, timers, stopped), `work_guard_`, `thread_`, atomics `count_`, `closing_`, `closed_`, mutex `waiter_` held by the worker while it lives | constructor and destructor, `Post` (task; task and completion token), `PostWithPromise`, `PostSynchronously`, `Dispatch`, `PostWithTimer` (task; task and token), `GetIoService`, `Close`, `WaitUntilClosed`; `Run` on the worker |
| `Threadpool` | `WarThreadpool.{h,cpp}` | vector of pipelines, `round_robin_next_thread_`, `capacity_`, `closed_`, `finished_`, `close_mutex_` | constructor and destructor, `Post`, `PostWithTimer`, `GetAnyPipeline`, `GetPipeline`, `Close`, `WaitUntilClosed` |
| `LogEngine`, log statements | `WarLog.{h,cpp}` | statics `instance_`, `current_level_`, `current_filter_`; `handlers_` under `lock_` | the `LOG_*` macros (`IsRelevant`, then `~Log` calls `Submit`), `AddHandler`, `UpdateLevelAndFilter`, `SetLevel` on a handler, `GetLevelFromName` |
| `LogEventHandler`, `LogToFile`, `LogToStream` | `WarLog.{h,cpp}` | name, level, filter, output stream | `Submit`: time stamp, level, filter, message |
| `Transaction` | `transaction.h` | undo operations, `committed_` | `AddUndo`, `Commit`, destructor |
| `WarCleanUp` | `WarCleanUp.h` | handler, `thread_id_` | constructor, destructor |
| exceptions and catch macros | `error_handling.h` | none | `WAR_THROW*`, `WAR_CATCH_*`, `WAR_ASSERT*` |
| `LogFunctionCall`, `log::Timer`, `Errno`, `Esc` | `WarLog.h` | values | formatting |
| helpers | `helper.h`, `debug_helper.h`, `impl.h`, `basics.h`, `asio.h`, `uuid.h`, `filecheck.h`, `boost_ptree_helper.h`, `ostream_operators.cpp`, `win/*` | none | `WarMapAddUnique`, names of threads, printing, Windows file check and mini dump |

How they interact. Any thread calls a member function of a pipeline or the pool.
The member function reads `closing_`, counts the task in `count_`, and hands a
handler to the `io_context`; the pipeline's one worker takes handlers in order,
and each enters `ExecTask_`, which reads `closing_` again. A task is user code on
the worker and may call the same member functions: `Dispatch` and
`PostSynchronously` then run their task as a function call. `Close` posts a
handler that sets `closed_`, drops the work guard and stops the `io_context`, and
after the post sets `closing_`. `WaitUntilClosed` locks `waiter_`. The pool picks
a pipeline per post, closes all of them one by one, and waits for them one by one
with `close_mutex_` held. Log statements run on all these threads, test two
statics without a lock, and meet in `lock_`.

What is hard, and what makes each part correct:

* **Pipeline.** Callers interleave with each other, with the worker and with
  timers, between every two accesses to the atomics. Right is: `count_` is exact
  and the queue bounded under all interleavings of the increment, its undo and
  the decrement; order of the queue; a synchronous call neither returns while
  its handler may still use its stack frame nor reports success wrongly; no
  exception of a task gets to the loop; no task starts after `closed_`;
  `WaitUntilClosed` waits; the worker ends once the pipeline closes and handles
  everything until then.
* **Threadpool.** Posts race `Close`, closers race each other, waiters queue on a
  mutex held during a long wait. Right is: balance, also when the counter wraps;
  when one closer is back every pipeline is closing; who is back from
  `WaitUntilClosed` finds every worker gone; all waiters return.
* **LogEngine.** Unlocked statics read while handlers are added, and while there
  is no engine; levels that `SetLevel` stores without the lock while
  `UpdateLevelAndFilter` loads each of them twice. Right is: one order for all
  handlers, no message missed by a handler that was in place when the statement
  began, no message that passes the test and reaches nobody, no message submitted
  to an engine that is not there.
* **LogEventHandler.** Line ends and look-ahead at the end of a text, rounding of
  times, a process that stops half way through an event. Right is: a log can be
  read back event by event, and what was logged is in it.
* **Construction and destruction.** A worker that fails before its loop, a
  destructor that joins a worker whose tasks still use the object. Right is: who
  destroys a closing pipeline gets through, and nothing comes to the object after.
* **Transaction, WarCleanUp.** Scopes left by return, by an exception or by another
  thread. Right is: a step is taken back if and only if its scope did not commit,
  in the reverse order, and the clean-up handler runs on its own thread.

`PROJECT.json` lists the hazards line by line, with the properties that cover
each, and a note where none does yet.

## 2. Modules

| Module | Models |
|---|---|
| `TaskSequencer` | abstract: a line of handlers, the nest of handlers in execution, a shut flag and a thread that leaves |
| `Pipeline` | `WarPipeline.{h,cpp}`; `ImplementsSequencer` is its refinement of `TaskSequencer` |
| `MCPipeline` | TLC instance: symmetry of calls |
| `Lifetime`, `MCLifetime` | constructor and destructor of a pipeline around the actions of `Pipeline` |
| `LifetimeProofs` | theorems: `Lifetime` is a `Pipeline`, and nothing comes to a destroyed object |
| `PipelineProofs` | inductive invariant and safety theorems of `Pipeline`; `Pipeline` implements `TaskSequencer` |
| `Threadpool` | `WarThreadpool.{h,cpp}` over one abstract line per pipeline |
| `MCThreadpool` | TLC instances: interchangeable calls, and calls with roles |
| `ThreadpoolProofs` | inductive invariant and safety theorems of `Threadpool`; its pipelines implement `TaskSequencer` |
| `LogEngine` | the engine, statements, `AddHandler`, `SetLevel` |
| `MCLogEngine` | TLC instance: symmetry of messages and handlers |
| `LogEngineProofs` | inductive invariant and safety theorems of `LogEngine` |
| `LogText`, `MCLogText` | what `LogToFile` writes, and what is left of it when the process stops |
| `LogReading` | lemmas of `LogTextProofs`: how a text and a file are read, and how that changes with what is appended |
| `LogTextProofs` | inductive invariant and theorems of `LogText`: types, the time stamp, and that events are read back |
| `Unwinding`, `MCUnwinding` | `Transaction` and `WarCleanUp` |
| `UnwindingProofs` | inductive invariant and theorems of `Unwinding` |
| `Quotients` | lemmas on quotients and remainders, for the round robin and the time stamp |

Operators whose comment starts with "Mutant of" are the plausible bugs every
property was tried against; nothing else uses them.

### Pipeline

A *call* is one invocation of a member function, made at most once. It has two
threads of control: `call[c]` is where the caller is inside the function, and
`task[c]` where the handler it queued is. One step makes one access to shared
state, so all interleavings of loads, stores and increments are there.

| Model | Code |
|---|---|
| `queue`, `stopped`, `guard` | ready handlers of the `io_context`, `stop()`, `work_guard_` |
| `stack` | the handlers the worker is in, innermost first: more than one when a task calls `Dispatch` or `PostSynchronously` |
| `worker`, `waiter` | where `Run` is, and whether it holds `waiter_` |
| `count`, `closing`, `closed` | the atomics; `count` is modulo `MaxCount + 1` as `size_t` is modulo 2^64 |
| `outcome`, `promise` | what became of the user's task and of the promise of `PostSynchronously` or `PostWithPromise` |
| `before` | history: the handlers queued when the call began |

The kinds of call are `Post`, `Dispatch`, `Sync` (`PostSynchronously`), `Promise`
(`PostWithPromise`), `Timer` (`PostWithTimer`), `Token` and `TokenTimer` (the two
with a completion token), `Raw` (something given to `GetIoService()` directly),
`Close` and `Wait`. `DispatchCheck`, `PostCheck`, `TimerCheck`, `CloseCheck` are
the loads of `closing_` by callers; `TakeSlot` and `GiveBackSlot` are
`AddingTask`; `Enqueue` is `boost::asio::post`; `ClosePost` and `SetClosing` are
the two halves of `Close`; `Uncount`, `StartTask`, `DismissTask` are `ExecTask_`,
and `StartInner`, `DismissInner` the second `ExecTask_` inside the lambdas of
`PostSynchronously` and `PostWithPromise`. User code either returns
(`TaskReturns`), throws (`TaskThrows`, `HandlerEscapes`) or calls the pipeline
again (`WorkerCalls`). The `io_context` is external: ready handlers are first in,
first out for its single thread; an expired timer's handler joins them between
two handlers; `run()` returns when stopped or out of work.

### Lifetime

`Lifetime` EXTENDS `Pipeline` and runs its actions between a constructor and a
destructor; `Pipeline` alone starts where `Run` locks `waiter_`. `life` is where
the owner is and `thread_` the `std::thread`.

| Action | Code |
|---|---|
| `StartThread`, `ThreadRefused` | `new thread` returns or throws |
| `ConstructorReturns`, `ConstructorRethrows` | `sync.get_future().get()` |
| `Destroy`, `Join` | the destructor's `joinable()` and `join()`, and the end of the members |
| `DestroyByTask` | the destructor called by a task: the thread would join itself |
| `ThreadEnds` | `Run` returned |
| `ThreadStep`, `CallStep`, `NewCall` | the actions of `Pipeline`, while there is a thread and, for clients, an object |

That no client is inside a member function when the owner destroys the object is
the rule of the language; tasks of the object are bound by no such rule. A
program that was terminated takes no step.

### Threadpool

The same structure one level up: `pc` is the control of a call of the pool, and
each pipeline is `line`, `nest`, `over`, `closing`, `shut` and `left`. The grain
is coarser inside one pipeline, where `Pipeline` has the detail, and fine between
two accesses to different objects: `Pick` (the atomic increment), then
`PostCheck` (that pipeline's `closing_`), then `Add` or `Arm`; `CloseOne` and
`MarkClosing` per pipeline, then `CloseDone`; `JoinLock`, `JoinOne` per pipeline,
`JoinDone`. The constructor is `BuildOne` per pipeline; `BuildFails` is a pipeline
that throws, after which the pipelines built so far are destroyed, and
`BuildThrows` is when the user sees the exception. Both `Pipeline` and each
pipeline of the pool are task sequencers: the first by `PipelineIsSequencer`, the
second by `PipelinesAreSequencers`; this is what the two levels have in common.

### LogEngine

A message is one execution of a log statement, and may come before the first
engine, between two, and after the last. `Construct` and `Destruct` are the
engine's; it is destroyed when no statement and no `AddHandler` is in progress.
`CheckLevel` and `CheckFilter` are the two loads of `IsRelevant`. The statics are plain variables, so loads and
stores race: each is modelled as atomic, and the two loads, and the two stores of
`UpdateLevelAndFilter`, are taken in either order, as a compiler may. `Lock`,
`Deliver` and `Unlock` are `DoSubmit`, one handler per step. `AddHandler` is
`PushBack` under the lock, then `UpdateLevelAndFilter` under it again: `Survey`
takes the lock, each round of the loop is `Compare`, the load of a level that tests
it, and, if it is the highest so far, `Raise`, the load that takes it; then come the
two stores. `SetLevel` may come between any two of these. `torn` records that it
lowered the level a `Raise` was about to load below the highest so far; the
properties say what still holds after that. `audience` records which handlers were in place when the statement began.

### LogText

One step per round of the loop of `WriteMessage`, over the four classes of
characters it tells apart, between the header and the line end of
`WriteDefaulInfo`. `to_time_t` may round up or truncate (external, both are
tried). `buffer` is what the stream holds back, `disk` the file: `std::endl` moves
the one to the other (`EndLine`), and so does a line that fills the stream's
buffer, which, as its size is the library's, may be at any character (`Spill`).
`Stop` loses the one and keeps the other; `torn` records that it came when the file
ended within a line. What the next process writes then goes on in that line, and
`ReadsBack` says nothing of the file until it is truncated.
`Open` is the constructor, for append or truncating. The reader is the
specification: a line that is not indented starts an event.

### Unwinding

`scopes` are the scopes a task is in, each with a `Transaction` and, declared after
it, a `WarCleanUp`, so that the clean-up comes first. `Step` makes a step and adds
its undo function, `AddUndo`; `Exit` leaves the innermost scope by return or
exception, `Forced` all of them, on another thread, as `WarCleanUp.h` reports of
coroutines. `CleanUp`, `Undo` and `Leave` are the destructors, an undo function at
a time; `UndoThrows` ends the program, `Catch` the exception. `left` records the
scopes that were left.

## 3. What each run checks, and its bounds

All passing runs use `CHECK_DEADLOCK FALSE`: calls are made once, so every
behaviour ends, and a caller that waits for ever is the subject of the liveness
properties.

**`pipeline_safety`**: three calls of any kind from clients and tasks, capacity 1
(1.0 million states up to symmetry). Three calls are enough for two posters and a
third that overshoots, a closer between a poster and its handler, a call made by
a task made by a task, and capacity 1 makes the queue full with one of them.
`MaxCount = 7` is out of reach of every increment, so that a wrap can only come
from below zero.

* `CountAccounting`: `count_` is the increments not undone less the token posts
  that ran, modulo the width; `QueueBound`: `AddingTask` lets no more than
  `capacity_` tasks (and one per such deficit) through.
* `RefusedWhenFull`: while no token post ran, a call is turned down only if the
  queue is full or another call is being turned down; so a refusal, a dismissed
  task or one that throws leaves nothing behind in `count_`.
* `Fifo`: whatever left the queue left it after all that was queued before its
  call began. `ImplementsSequencer`: the refinement.
* `PromiseAlive`, `SyncReport`: the promise on the caller's stack outlives its
  use; a normal return means the task ran unless the pipeline is closing, an
  exception is the task's or the queue's.
* `ThrowContained`: while the pipeline is open only raw handlers and completion
  handlers can end the worker by throwing.
* `NoStartAfterClosed`, `ClosedBeforeClosing`, `WaitReturnsAfterExit`: shutdown.

**`pipeline_lifetime`**: a pipeline from constructor to destructor, with three
calls, each `PostSynchronously` or `Close` of a client, or a timer or `Close` of a
task (123 thousand states, no symmetry). Among the behaviours: a thread that is
refused, a `Run` that fails, a destructor before, during and after `Close`, tasks
that close the pipeline while its owner joins, tasks that destroy it.

* `DestroyedIsUntouched`: the destructor waits for the thread. Waiting for
  `waiter_`, as `WaitUntilClosed` does, would not do: that is the mutant.
* `QueuedIsHandled`, `ShutdownCompletes`, `SyncReturnsWhileOpen`,
  `DestructorReturns`: liveness.

**`threadpool_safety`**: three calls of any function, from clients and tasks; two
pipelines of capacity 1; an `unsigned` of two bits' worth of values, 0 to 2, so
that three posts wrap the counter, and `DefaultThreads` is computed (102 thousand
states up to symmetry). `RoundRobin` allows one more for each wrap, because the
number of values need not be a multiple of the number of pipelines.
`CloseIsComplete`, `LatePostDropped`, `JoinedMeansLeft`, `PipelinesAreSequencers`.

**`threadpool_liveness`**: four calls with roles, a post, a closer, a waiter, and
a waiter or the destructor, and tasks that may close the pool (55 thousand
states). `CloseEndsWorkers`, `WaitersReturn`, `TasksRun`.

**`log_safety`**: two statements, two handlers of any level and filter, three
levels, one flag, one `SetLevel`, two engines one after the other (5.6 million
states up to symmetry). Two of each are what an order, and an interleaving of two
`AddHandler` calls, need; with three levels a handler's level can be the highest
when it is tested and below another's when it is taken, which is the race of
`UpdateLevelAndFilter` with `SetLevel`; with two engines the statements find what
the first leaves behind. Statements have the flag and a handler may not have it,
which is all that a flag more could tell apart. `SameOrder`, `RelevantIsLogged`,
`SubmitHasEngine`; `NoneMissed` and `StaticsCover`: the filter, and the delivery of
what `IsRelevant` lets through, are safe from that race; the static level is but
for `torn`. That the exemption is needed is what `log_torn_level` shows.

**`log_text`**: all texts of up to three characters, two events, times of a whole
second and of half a second more, processes that stop and start again at any
point, lines that fill the buffer at any character (2.9 million states). Three
characters put a carriage return between a line end and the end of the text; two
events put one after one that a stop cut off. `ReadsBack` also says what a stop may
cost when the file ends with a line: nothing of an event `Submit` has returned from,
and of another nothing or its beginning. `StampIsExact`.

**`unwinding`**: two nested scopes, three steps (19 thousand states): an outer scope
with steps before and after an inner one, committed or not. `AllOrNothing`,
`UndoneBackwards`. The type invariant is not among the properties of this run and
of `pipeline_lifetime`: no plausible bug of this code breaks it there.

The remaining runs are counterexamples: section 5.

## 4. Fairness

`FairSpec` of `Pipeline` and `Threadpool` assumes

* weak fairness of each call's next step: the operating system schedules every
  thread, and inside the library a thread only ever blocks on `future.get()` or a
  mutex, where its step is not enabled;
* with it, weak fairness of the expiry of its timer: durations are finite, and the
  reactor is polled between handlers;
* weak fairness of the worker, which includes the end of the user's task: a task
  that never ends blocks every pipeline, and no code could help.

Starting calls is not fair: nobody needs to call anything. Strong fairness is not
needed for the mutexes, as every call is made once.

`LifeFairSpec` of `Lifetime` adds weak fairness of the owner inside the constructor
and the destructor, and of the end of the thread. No one needs to destroy the
object, and a program that was terminated owes nothing.

What the liveness runs leave out, because it defeats the property by itself: `Raw`
and the token kinds, whose handlers may throw the worker out of its loop;
`WaitUntilClosed` by a task, which waits for itself; and, in `pipeline_lifetime`,
`PostSynchronously` by a task, which can wait for ever for an answer its own,
closing worker will not give. That last case is the finding `pipeline_sync_hangs`.

## 5. Where the code and its documentation part

| Run | Property | What TLC shows |
|---|---|---|
| `pipeline_refusal` | `RefusedOnlyWhenFull` | `Post(task, token)` decrements `count_` without an increment (WarPipeline.h:74): it wraps, and after two such posts an idle pipeline refuses every `Post` |
| `pipeline_sync_hangs` | `SyncReturns` | a closing pipeline drops the handler that would settle the promise of `PostSynchronously`; the caller waits for ever (WarPipeline.cpp:145) |
| `lifetime_rethrow` | `EarlyExceptionRethrown` | the constructor rethrows what `Run` reported, and with its members destroys a joinable `std::thread`: the program ends (WarPipeline.cpp:49) |
| `log_torn_level` | `MostDetailed` | `UpdateLevelAndFilter` loads a level twice, and a `SetLevel` between the two leaves the static level below that of another handler (WarLog.cpp:93) |
| `cleanup` | `CleanedUpAtHome` | `thread_id_` is never set: the clean-up handler runs on no thread (WarCleanUp.h:51) |

`RefusedOnlyWhenFull` lets a call be refused while another is being refused: each
has its increment in `count_` for a moment, which is the price of a counter
without a lock and not what the run is about. Without the token post the same
statement does hold: it is `RefusedWhenFull`, checked by `pipeline_safety` and
proved as `RefusalCorrect`.

Other disagreements met while modelling are hazards with a note in
`PROJECT.json`: `IsRelevant` after `SetLevel`, a default of 2^32-1 threads when the
number of cores is unknown, a pool whose constructor hangs when it fails half way.
`GetLevelFromName`, which has no state, throws out of `noexcept` for a name it does
not know. Time stamps have no seconds.

Two more follow from a line or two of the code, and the models have them, but no
run is spent on them. A `PostSynchronously` that `Close` meets between the outer
and the inner `ExecTask_` of its handler (WarPipeline.cpp:137) returns as if its
task had run, where WarPipeline.h:97 has it "wait until it is executed"; `SyncReport`
is what does hold of its return, with an exemption for this case. And `DoSubmit`
compares levels only (WarLog.cpp:62), so that a handler gets messages its own filter
excludes, where WarLog.h:321 has it print those "relevant according to it's own level
and filter".

`MostDetailed` is stated for handlers whose level was never set, when no
`AddHandler` is on its way: the handler that loses messages is not the one whose
level changed.

## 6. What is proved

Every safety property of the passing runs is a theorem of the
component's specification (no fairness), for all values of the constants.

| Component | Theorem | States |
|---|---|---|
| `Pipeline` | `TypeCorrect`, `CountCorrect`, `BoundCorrect`, `FifoCorrect`, `PromiseSafe`, `SyncReportCorrect`, `ThrowsContained`, `WaitCorrect`, `CloseOrder` | `[]` of `TypeOK`, `CountAccounting`, `QueueBound`, `Fifo`, `PromiseAlive`, `SyncReport`, `ThrowContained`, `WaitReturnsAfterExit`, `ClosedBeforeClosing` |
| | `NoStartCorrect`, `RefusalCorrect` | the action properties `NoStartAfterClosed`, `RefusedWhenFull` |
| | `PipelineIsSequencer` | `Spec => ImplementsSequencer` |
| `Lifetime` | `LifeIsPipeline` | `LifeSpec => Spec` |
| | `LifeTypeCorrect`, `DestroyedCorrect` | `[]LifeTypeOK` and the action property `DestroyedIsUntouched` |
| `Threadpool` | `TypeCorrect`, `RoundRobinCorrect`, `CloseCorrect`, `LateCorrect`, `JoinCorrect` | `[]` of `TypeOK`, `RoundRobin`, `CloseIsComplete`, `LatePostDropped`, `JoinedMeansLeft` |
| | `SequencersCorrect`, `PoolImplementsSequencers` | `PipelinesAreSequencers`, and `Sequencer(p)!SequencerSpec` for each pipeline p |
| `LogEngine` | `TypeCorrect`, `SameOrderCorrect`, `NoneMissedCorrect`, `RelevantLoggedCorrect`, `StaticsCoverCorrect`, `SubmitHasEngineCorrect` | `[]` of `TypeOK`, `SameOrder`, `NoneMissed`, `RelevantIsLogged`, `StaticsCover`, `SubmitHasEngine` |
| `Unwinding` | `AllOrNothingCorrect` | `[]AllOrNothing` |
| | `UndoneBackwardsCorrect` | the action property `UndoneBackwards` |
| `LogText` | `TypeCorrect`, `StampCorrect`, `ReadsBackCorrect` | `[]` of `TypeOK`, `StampIsExact`, `ReadsBack` |

In each component the theorem `Invariant` states the inductive invariant the others
follow from. They rest on the assumption of the module and nothing else:

* `PipelineAssumption`: finitely many calls, and a width of `count_` of at least the
  capacity and the number of calls; any kinds.
* `ThreadpoolAssumption`: `numThreads` and the number of cores are values of
  `unsigned`, which has at least three; any calls, capacity and functions. It need
  not say that calls are finitely many: at any time only finitely many have begun.
* `LogEngineAssumption`: finitely many statements and handlers, any levels, flags
  and number of engines.
* `UnwindingAssumption`, `LogTextAssumption`: bounds are natural numbers, and a
  second and a minute are not empty.

### Pipeline

None of the invariants is inductive alone. `SyncReport`, say, speaks of `promise`
and `outcome`; that a promise is set only by a handler that ended, and that this
handler belonged to a `PostSynchronously` call, needs the relation of the two
controls of a call. `IInv` is the conjunction of

* `Places`: which points of `call` and `task` go together, and with which kind
  (`CallPlace`, `TaskPlace`, `SyncPlace`, `ClosePlace`);
* `QueueInv`: the queue holds exactly the queued handlers, each once;
* `OrderInv`: handlers are in the queue in the order of their calls, from which
  `Fifo` follows;
* `StackInv`: the handlers on the worker's stack are distinct and at points of
  execution, and all but the outermost are inline calls;
* `WorkerInv`: what `stopped`, `guard`, `waiter` and `closed` say of the worker.

Each part has one lemma for the steps of a caller and one for those of the worker
(`ApiPlaces`, `WorkerPlaces`, ...), with a step per action; the sequences are
handled once, in `TailDistinct`, `ConsDistinct`, `AppendDistinct`. `CountStep`
turns "the sets of held and overdrawn calls change by this call" into the change
of their cardinalities, and `ApiCount`, `WorkerCount` apply it to every action.
`RefusalCorrect` follows from `CountAccounting`: without a token post `count_` is
the number of calls that hold an increment, and each of those was accepted or is
being turned down (`TurnedDown`: only the increment of `AddingTask` does that).

The refinement maps `queue` to the line, `stack` to the nest, `closed` to `shut`,
"the worker is unwinding or gone" to `left`, and the handlers that are done or
let an exception out to `over`. `ApiRefines`, `HandlerRefines` and `WorkerRefines`
show which abstract step, or stutter, each action is. That a handler enters the
line or the nest only once, which is what `TaskSequencer` demands of it, is
`NewIsFresh`, from `QueueInv` and `StackInv`.

### Lifetime

With the constructor and the destructor around it a pipeline is still a pipeline:
`LifeStep` shows that each step of `LifeNext` is one of `Next` or leaves the
pipeline alone, so that every theorem above holds of `LifeSpec` too. That no step
comes to a destroyed object needs the invariant `LifeInv`: when the owner is in
the destructor no client is inside (`ClientStaysOut`), once the thread ended the
worker has left `Run` and stays so (`WorkerStays`), and then no task can be inside
either, for a call of a task lies on the worker's stack, which `IInv` says is empty
(`CallerStep`, `CallerKnown`).

### Threadpool

`SafetyInv` was checked by TLC on the instance of `threadpool_safety` before it was
proved. No property of the pool is inductive alone:

* `CallsInv` says which function a call is in, that loops start at 0, and that
  the task of a post exists only when the post is over;
* `HandlersInv`: each handler of a pipeline is in one of its line, its nest and
  `over`, a task with the fate that goes with the place (`HandlerOf`), the shutdown
  handler of a close only where the close is past that pipeline (`PastClose`).
  So whoever joins a line is new to it (`StrangerIsFresh`), which is what
  `TaskSequencer` demands;
* `WorkersInv`: a task inside a function of the pool is the one being executed,
  so that a worker that left has none (`JoinedMeansLeft`);
* `CloseInv`: a closer in its loop has left every pipeline behind it closing, by
  its own store or because it found the flag set; `closed_` is set after the last.
  `LateInv` then gives `LatePostDropped`: the post meets `closing_` wherever it goes;
* `JoinInv`: a waiter in its loop has no worker behind it, and `finished_` is set
  after the last. It does not mention `close_mutex_`: two loops side by side would be
  as safe, and the mutex matters for liveness only (`WaitersReturn`);
* `TurnInv` for `RoundRobin`: after w wraps the picks are w(UintMax + 1) + `next`,
  and with `Ahead(p)` for "p has had its turn in this round and pipeline 0 not yet
  its next" the tasks given, less `Ahead`, differ by at most w. A step without wrap
  moves the turn and leaves the differences; a wrap interrupts the round, and
  costs one.

`HandlerKept` shows once, for every action, that handlers stay what they are;
`Joins`, `StartHandlers` and `FinishHandlers` are the three ways a handler moves.

### LogEngine

`IInv` was checked on the instance of `log_safety` before it was proved. `LockInv`
ties the control of statements and of `UpdateLevelAndFilter` to `lock_`;
`HandlersInv` says the list holds the handlers added, each once. From there:

* `EngineInv`: without an engine the statics are 0 and empty, so no statement gets
  past its two tests (`SubmitHasEngine`);
* `CoverInv`: the static filter has, or with the next store will have, the filter of
  every handler in the list, also of one that another thread pushed before the
  survey and has not surveyed yet (`FiltersCover`). For levels, while not `torn`
  (`LevelsInv`, `LevelsCover`): the highest so far is at least the level of the
  handlers the loop is past, and a level about to be taken is at least the highest
  so far. The second is what a `SetLevel` between the two loads would break, and
  `torn` records; `RoundMoves` and `RoundCovers` carry the first through a round;
* `OrderInv`: a statement that is being delivered is the last message of each
  handler it has reached; so a message is appended behind everything both handlers
  have, which keeps `SameOrder`;
* `AudienceInv`: handlers in place when the statement began stay so, the tests let
  it through if one of them wants it, but for `torn`, and those behind the loop have
  it (`NoneMissed`);
* `RelevanceInv`, while no level was changed by `SetLevel`: some handler has
  at least the static level, and handlers only come, so a statement that passed one test
  before and one after a store still finds a handler of its level.

### Unwinding

`IInv` was checked with three steps and three scopes. `UndoInv` says that the undo
functions of a scope are those of its steps in effect, the latest first, which
holds half way through a destructor too; `OverInv` that only the innermost scope
can be there; `StepsInv` that scopes share no step. When a scope is left without
commit its list is empty, so no step of it is in effect (`LeaveStep`); the next
undo function is of the latest step in effect (`UndoLatest`), which is
`UndoneBackwards`.

### LogText

The stamp: whichever of the two seconds around t `to_time_t` returns, the
correction of `WriteTimestamp` makes it the one before (`SecondFound`, from
`RoundedUp`), and dividing by seconds and then minutes is dividing by both
(`NestedQuotient`). `TypeOK` needs that a process that writes has the file open, so
that a file is never truncated under an event.

`ReadsBack` speaks of the file alone, and is not inductive: what the next line end
moves there is in `buffer`. The invariant, checked on the instance of `log_text`
before it was proved, is about all that was written, `disk \o buffer`. Of that
only `WriteInv`, the types, the stamps and `WriterInv`, holds at all times; the
rest, `FileInv`, while not `torn`:

* `WriterInv`: what is being written is the last event, and its text; nothing is
  held back between events;
* `LinesInv`: every line starts with a header or is indented, and only the file
  has line ends;
* `EventInv`: there is an event for each header, in order, and one in the file for
  each event `Submit` returned from (`Placed`); the file shows the whole text of
  those and a beginning of the others (`ReadSoFar`); and behind the last header is
  what the loop of `WriteMessage` is past, `Shown(text, ch - 1)` (`BeingWritten`).

The file grows in `EndLine` and `Spill`. `Spill` moves what is held back and leaves
the whole as it is; the last event is then in the file in part, of which a
beginning of its text is read (`SpillEvents`, `ReadUnended`). What `EndLine` adds does not disturb the reading of
earlier events (`ReadKept`), and of the last one makes readable what the loop is
past (`ReadLast`, `EndLineReads`). `Shown` is what the reader should see of the
first n characters; `ShownNext` goes with each round of the loop: a carriage
return adds nothing, and a line end at the end of the text is not shown.

`Read` and `Legible` filter sequences of any length with `Without`, a recursive
function, so lemmas about it need induction. They take it from the least element
of a set of natural numbers (`LeastNatural`, from `WFMin`, and `Induction`), where
the set is that of the numbers for which the statement holds: `FilterExists` and
`FilterUnique` show that there is one function as `Without` defines it, and
`WithoutAppend` then gives its value one element at a time.

## 7. What is only model-checked, and what is not modelled

Only by TLC: all liveness (`QueuedIsHandled`, `ShutdownCompletes`,
`SyncReturnsWhileOpen`, `DestructorReturns`, `CloseEndsWorkers`, `WaitersReturn`,
`TasksRun`), because fairness and `ENABLED` are out of the prover's reach. The
counterexamples of section 5 are TLC's too.

Not modelled:

* the branch of `PostWithTimer` for Boost before 1.70, and the error branch of
  `OnTimer_`: nothing cancels a timer, and a stopped `io_context` calls no handler;
* `tasks_run_`, thread names, pinning, log texts of the pipelines: nothing depends
  on them;
* memory: an allocation that fails in `Post`, `AddHandler` or `AddUndo`;
* the destruction of the `LogEngine` while a statement is in progress: the user is
  to prevent it, and nothing in the code does;
* writes to the log file that fail; the stamp of zeros `WriteTimestamp` writes when
  `war_localtime` fails (WarLog.cpp:192-194); a text with a `%` followed by digits, which reads
  like an escaped character;
* `GetLevelFromName`, which has no state;
* a call of `GetPipeline(id)` next to the pool's own functions; the pipeline then
  behaves as in `Pipeline`;
* the relative order of times and messages in the log (`now()` is taken before the
  lock);
* everything with status `not_modelled` in `PROJECT.json`, with the reason there.

## 8. Plan

In the order of importance:

1. *Done*: `TaskSequencer`, `Pipeline`, its proofs and its refinement.
2. *Done*: `Threadpool`, `LogEngine`, `LogText` as models with runs.
3. *Done*: `Lifetime` with its proofs; the construction of the pool; the engine's
   construction and destruction; a log file and processes that stop; `Unwinding`.
4. *Done*: proofs for `Threadpool`, `LogEngine`, `Unwinding` and `LogText`, with
   the induction over texts that reading them back needs.
5. Open: what a task sequencer promises (each handler at most once, in order, none
   after it is shut), proved of `TaskSequencer` and so of each pipeline of the pool
   through its refinement. For `Pipeline` the theorems of section 6 say more.
