------------------------------ MODULE Lifetime ------------------------------
(***************************************************************************)
(* The life of a Pipeline object around the calls of module Pipeline: its  *)
(* constructor, which starts the worker and waits for it, and its          *)
(* destructor, which joins it and then destroys the io_context with the    *)
(* handlers left in it.                                                    *)
(*                                                                         *)
(* The owner is the thread that constructs the object.  As everywhere in   *)
(* C++ it destroys the object when no other client is inside a member      *)
(* function or calls one later.  The object's own tasks know nothing of    *)
(* this: they go on, and call member functions, until the thread is        *)
(* joined.                                                                 *)
(***************************************************************************)
EXTENDS Pipeline

VARIABLES
  life,     (* of the object, and of the program it may end                *)
  thread_   (* the std::thread                                             *)

object  == <<life, thread_>>
allVars == <<life, thread_, call, task, outcome, promise, kind, by, before,
             queue, stopped, guard, stack, worker, waiter, count, closing, closed>>

LifeTypeOK ==
  /\ life \in {"constructing", "waiting", "alive", "joining", "destroyed",
               "threw", "terminated"}
  /\ thread_ \in {"none", "running", "ended"}
  /\ TypeOK

LifeInit == Init /\ life = "constructing" /\ thread_ = "none"

-----------------------------------------------------------------------------
(* The constructor.                                                        *)

StartThread ==
  /\ life = "constructing"
  /\ life' = "waiting" /\ thread_' = "running"
  /\ UNCHANGED vars

(* new thread throws: there is nothing to take back but memory.            *)
ThreadRefused ==
  /\ life = "constructing"
  /\ life' = "threw"
  /\ UNCHANGED <<thread_, vars>>

(* sync.get_future().get() returns after Run called set_value().           *)
ConstructorReturns ==
  /\ life = "waiting" /\ worker \in {"looping", "unwinding", "exited"}
  /\ life' = "alive"
  /\ UNCHANGED <<thread_, vars>>

(* get() rethrows what Run reported.  The members are destroyed, and with  *)
(* thread_ a joinable std::thread: std::terminate.                         *)
ConstructorRethrows ==
  /\ life = "waiting" /\ worker = "failed"
  /\ life' = "terminated"
  /\ UNCHANGED <<thread_, vars>>

-----------------------------------------------------------------------------
(* The destructor.                                                         *)

NoClientInside == \A c \in Calls : by[c] = "client" => call[c] \notin ApiPoints

(* The owner calls the destructor, which goes on to join().                *)
Destroy ==
  /\ life = "alive" /\ NoClientInside
  /\ life' = "joining"
  /\ UNCHANGED <<thread_, vars>>

(* A task calls the destructor: a thread that joins itself gets an         *)
(* exception, which may not leave a destructor.                            *)
DestroyByTask ==
  /\ life = "alive" /\ NoClientInside /\ InUserCode
  /\ life' = "terminated"
  /\ UNCHANGED <<thread_, vars>>

(* Mutant of Join: the destructor does not wait for the thread, only until *)
(* waiter_ is free or closed_ is set, which the worker does before it is   *)
(* out of the closing handler.                                             *)
JoinWaiter ==
  /\ life = "joining" /\ (~waiter \/ closed)
  /\ life' = "destroyed"
  /\ UNCHANGED <<thread_, vars>>

(* join() returns; the io_context is destroyed, and handlers that are      *)
(* armed or queued with it, uncalled.                                      *)
Join ==
  /\ life = "joining" /\ thread_ = "ended"
  /\ life' = "destroyed"
  /\ UNCHANGED <<thread_, vars>>

(* Run has returned, and the thread ends.                                  *)
ThreadEnds ==
  /\ thread_ = "running" /\ worker \in {"failed", "exited"}
  /\ thread_' = "ended"
  /\ UNCHANGED <<life, vars>>

-----------------------------------------------------------------------------
OwnerStep ==
  StartThread \/ ThreadRefused \/ ConstructorReturns \/ ConstructorRethrows \/ Join

ThreadStep == thread_ = "running" /\ WorkerStep /\ UNCHANGED object

CallStep(c) ==
  /\ ApiStep(c) \/ (thread_ = "running" /\ Expire(c))
  /\ UNCHANGED object

NewCall(c) ==
  /\ (life = "alive" /\ ClientCalls(c)) \/ WorkerCalls(c)
  /\ UNCHANGED object

(* Nothing happens in a program that was terminated.                       *)
Ended == life = "terminated"

LifeNext ==
  /\ ~Ended
  /\ \/ OwnerStep \/ Destroy \/ DestroyByTask \/ ThreadStep \/ ThreadEnds
     \/ \E c \in Calls : NewCall(c) \/ CallStep(c)

LifeSpec == LifeInit /\ [][LifeNext]_allVars

(* Threads inside the library keep running, timers expire, and the user's  *)
(* tasks come to an end.  No one needs to destroy the object.              *)
LifeFairness ==
  /\ WF_allVars(OwnerStep)
  /\ WF_allVars(~Ended /\ (ThreadStep \/ ThreadEnds))
  /\ \A c \in Calls : WF_allVars(~Ended /\ CallStep(c))

LifeFairSpec == LifeSpec /\ LifeFairness

-----------------------------------------------------------------------------
(* Safety.                                                                 *)

(* No step of the worker, or of a call its tasks made, comes to an object  *)
(* that is destroyed: join() waits for more than waiter_, which the worker *)
(* gives up while it is still inside Run.                                  *)
DestroyedIsUntouched ==
  [][life = "destroyed" => UNCHANGED <<thread_, vars>>]_allVars

-----------------------------------------------------------------------------
(* Liveness, for pipelines whose handlers let no exception out.            *)

(* Every queued task and every timer is handled, unless the pipeline is    *)
(* closed: as each call is made once, no pending call remains.             *)
Pending == {c \in Calls : task[c] \in {"armed", "queued"}}
QueuedIsHandled == Pending # {} ~> Pending = {} \/ closed \/ Ended

(* Once closing_ is set the worker leaves for good and waiter_ is free.    *)
ShutdownCompletes == closing ~> [](Ended \/ (worker = "exited" /\ ~waiter))

(* PostSynchronously returns to every caller unless the pipeline closes.   *)
SyncReturnsWhileOpen == AwaitingFuture # {} ~> AwaitingFuture = {} \/ closing \/ Ended

(* The destructor returns once the pipeline is closing, whether the owner  *)
(* closed it before or a task does it while the owner is already waiting.  *)
DestructorReturns == life = "joining" /\ closing ~> life = "destroyed"

-----------------------------------------------------------------------------
(* What a comment says, and the code does not do.                          *)

(* WarPipeline.cpp:48: "Wait for the thread to run so that we can re-throw *)
(* any early exceptions".                                                  *)
EarlyExceptionRethrown == worker = "failed" => life \in {"waiting", "threw"}
=============================================================================
