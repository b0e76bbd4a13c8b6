--------------------------- MODULE LifetimeProofs ---------------------------
(* Theorems about the life of a Pipeline object, for any number of calls,  *)
(* any capacity and any kinds of call.                                     *)
EXTENDS Lifetime, PipelineProofs

(* What a step of the life of the object is to the pipeline: a step of the *)
(* pipeline, or nothing.                                                   *)
LEMMA LifeStep ==
  ASSUME [LifeNext]_allVars
  PROVE  [Next]_vars
<1>1. CASE OwnerStep \/ Destroy \/ DestroyByTask \/ ThreadEnds
  BY <1>1 DEF OwnerStep, StartThread, ThreadRefused, ConstructorReturns, ConstructorRethrows,
     Join, Destroy, DestroyByTask, ThreadEnds
<1>2. CASE ThreadStep
  BY <1>2 DEF ThreadStep, Next
<1>3. CASE \E c \in Calls : NewCall(c) \/ CallStep(c)
  BY <1>3 DEF NewCall, CallStep, Next
<1>4. CASE UNCHANGED allVars
  BY <1>4 DEF allVars, vars
<1> QED BY <1>1, <1>2, <1>3, <1>4 DEF LifeNext

(* The calls of a pipeline that is constructed and destroyed are calls of  *)
(* a pipeline: what is proved of Spec holds of LifeSpec.                   *)
THEOREM LifeIsPipeline == LifeSpec => Spec
<1>1. LifeInit => Init
  BY DEF LifeInit
<1>2. [LifeNext]_allVars => [Next]_vars
  BY LifeStep
<1> QED BY <1>1, <1>2, PTL DEF LifeSpec, Spec

-----------------------------------------------------------------------------
(* Who calls: a call in progress has a caller, and one that runs its own   *)
(* handler was made by the worker.                                         *)
CallerKnown ==
  \A c \in Calls : /\ call[c] # "idle" => by[c] \in {"client", "worker"}
                   /\ call[c] = "inline" => by[c] = "worker"

(* The object, its thread and its callers.                                 *)
LifeInv ==
  /\ life \in {"constructing", "waiting", "alive", "joining", "destroyed",
               "threw", "terminated"}
  /\ thread_ \in {"none", "running", "ended"}
  /\ thread_ = "none" <=> life \in {"constructing", "threw"}
  /\ thread_ = "ended" => worker \in {"failed", "exited"}
  /\ life \in {"alive", "joining", "destroyed"} =>
       worker \in {"looping", "unwinding", "exited"}
  /\ life \in {"joining", "destroyed"} => NoClientInside
  /\ life = "destroyed" => thread_ = "ended"

(* Callers stay known.                                                     *)
LEMMA CallerStep ==
  ASSUME IInv, CallerKnown, [Next]_vars
  PROVE  CallerKnown'
<1> USE DEF IInv, TypeOK, CallerKnown, ids, result, ioc, thread, flags
<1>1. ASSUME NEW c \in Calls, NEW k \in Kinds, NEW b \in {"client", "worker"}, Begin(c, k, b)
      PROVE  CallerKnown'
  <2>1. Entry(k) # "inline"
    BY DEF Entry, Kinds
  <2> QED BY <1>1, <2>1 DEF Begin
<1>2. ASSUME NEW c \in Calls, ClientCalls(c) \/ WorkerCalls(c) PROVE CallerKnown'
  BY <1>1, <1>2, PipelineAssumption DEF ClientCalls, WorkerCalls
<1>3. ASSUME NEW c \in Calls, ApiStep(c) PROVE CallerKnown'
  <2>1. by' = by /\ call[c] # "idle" /\ call' = [call EXCEPT ![c] = call'[c]]
        /\ (call'[c] = "inline" => by[c] = "worker")
    BY <1>3 DEF ApiStep, DispatchCheck, PostCheck, TakeSlot, GiveBackSlot, Enqueue, TimerCheck,
       Arm, FutureReady, CloseCheck, ClosePost, SetClosing, WaiterFree, AfterPost
  <2> QED BY <2>1
<1>4. ASSUME NEW c \in Calls, HandlerStep(c) PROVE CallerKnown'
  <2>1. by' = by /\ \/ call' = call
                    \/ call' = [call EXCEPT ![c] = IF @ = "inline" THEN AfterPost(c) ELSE @]
    BY <1>4, HandlerFrame
  <2> QED BY <2>1 DEF AfterPost
<1>5. CASE RunLock \/ RunStart \/ RunFails \/ Dequeue \/ Exit \/ UNCHANGED vars
           \/ \E c \in Calls : Expire(c)
  BY <1>5 DEF RunLock, RunStart, RunFails, Dequeue, Exit, Expire, vars
<1> QED BY <1>2, <1>3, <1>4, <1>5 DEF Next, WorkerStep

(* No client is left in, or comes into, an object that is being destroyed. *)
LEMMA ClientStaysOut ==
  ASSUME IInv, CallerKnown, NoClientInside, [LifeNext]_allVars, life # "alive"
  PROVE  NoClientInside'
<1> USE DEF IInv, TypeOK, CallerKnown, NoClientInside, ids, result, ioc, thread, flags
<1>1. CASE OwnerStep \/ Destroy \/ DestroyByTask \/ ThreadEnds \/ UNCHANGED allVars
  BY <1>1 DEF OwnerStep, StartThread, ThreadRefused, ConstructorReturns, ConstructorRethrows,
     Join, Destroy, DestroyByTask, ThreadEnds, vars, allVars
<1>2. ASSUME NEW c \in Calls, HandlerStep(c) PROVE NoClientInside'
  <2>1. by' = by /\ \/ call' = call
                    \/ call' = [call EXCEPT ![c] = IF @ = "inline" THEN AfterPost(c) ELSE @]
    BY <1>2, HandlerFrame
  <2> QED BY <2>1 DEF AfterPost
<1>3. CASE RunLock \/ RunStart \/ RunFails \/ Dequeue \/ Exit \/ \E c \in Calls : Expire(c)
  BY <1>3 DEF RunLock, RunStart, RunFails, Dequeue, Exit, Expire
<1>4. ASSUME NEW c \in Calls, ApiStep(c) PROVE NoClientInside'
  <2>1. by' = by /\ call[c] \in ApiPoints /\ call' = [call EXCEPT ![c] = call'[c]]
    BY <1>4 DEF ApiStep, DispatchCheck, PostCheck, TakeSlot, GiveBackSlot, Enqueue, TimerCheck,
       Arm, FutureReady, CloseCheck, ClosePost, SetClosing, WaiterFree, ApiPoints
  <2> QED BY <2>1
<1>5. ASSUME NEW c \in Calls, WorkerCalls(c) PROVE NoClientInside'
  BY <1>5 DEF WorkerCalls, Begin
<1> QED
  BY <1>1, <1>2, <1>3, <1>4, <1>5 DEF LifeNext, ThreadStep, WorkerStep, NewCall, CallStep

(* The worker's thread is over for good, and so is its state.              *)
LEMMA WorkerStays ==
  ASSUME IInv, [Next]_vars
  PROVE  /\ worker \in {"failed", "exited"} => worker' = worker
         /\ worker \in {"looping", "unwinding", "exited"} =>
              worker' \in {"looping", "unwinding", "exited"}
<1> USE DEF IInv, TypeOK, ids, result, ioc, thread, flags
<1>1. ASSUME NEW c \in Calls, ClientCalls(c) \/ WorkerCalls(c) \/ ApiStep(c) \/ Expire(c)
      PROVE  worker' = worker
  BY <1>1 DEF ClientCalls, WorkerCalls, Begin, ApiStep, DispatchCheck, PostCheck, TakeSlot,
     GiveBackSlot, Enqueue, TimerCheck, Arm, FutureReady, CloseCheck, ClosePost, SetClosing,
     WaiterFree, Expire
<1>2. ASSUME NEW c \in Calls, HandlerStep(c)
      PROVE  worker = "looping" /\ worker' \in {"looping", "unwinding"}
  BY <1>2, HandlerFrame DEF WorkerInv
<1>3. CASE RunLock \/ RunStart \/ RunFails \/ Dequeue \/ Exit \/ UNCHANGED vars
  BY <1>3 DEF RunLock, RunStart, RunFails, Dequeue, Exit, vars
<1> QED BY <1>1, <1>2, <1>3 DEF Next, WorkerStep

(* The invariant of the object's life.                                     *)
LEMMA LifeInvStep ==
  ASSUME IInv, CallerKnown, LifeInv, [LifeNext]_allVars
  PROVE  LifeInv'
<1>1. [Next]_vars
  BY LifeStep
<1>2. CASE OwnerStep \/ Destroy \/ DestroyByTask \/ ThreadEnds
  BY <1>2 DEF OwnerStep, StartThread, ThreadRefused, ConstructorReturns, ConstructorRethrows,
     Join, Destroy, DestroyByTask, ThreadEnds, vars, LifeInv, NoClientInside
<1>3. CASE ThreadStep \/ (\E c \in Calls : NewCall(c) \/ CallStep(c)) \/ UNCHANGED allVars
  <2>1. UNCHANGED <<life, thread_>>
    BY <1>3 DEF ThreadStep, NewCall, CallStep, allVars, object
  <2>2. life # "alive" /\ NoClientInside => NoClientInside'
    BY ClientStaysOut
  <2> QED BY <1>1, <2>1, <2>2, WorkerStays DEF LifeInv
<1> QED BY <1>2, <1>3 DEF LifeNext

(* The invariant of the pipeline, of its callers and of its life.          *)
THEOREM LifeInvariant == LifeSpec => [](IInv /\ CallerKnown /\ LifeInv)
<1>1. LifeInit => CallerKnown /\ LifeInv
  BY DEF LifeInit, Init, CallerKnown, LifeInv
<1>2. IInv /\ CallerKnown /\ LifeInv /\ [LifeNext]_allVars => CallerKnown' /\ LifeInv'
  BY CallerStep, LifeStep, LifeInvStep
<1> QED BY <1>1, <1>2, LifeIsPipeline, Invariant, PTL DEF LifeSpec

(* Every state of the object is well typed.                                *)
THEOREM LifeTypeCorrect == LifeSpec => []LifeTypeOK
<1>1. IInv /\ LifeInv => LifeTypeOK
  BY DEF IInv, LifeInv, LifeTypeOK
<1> QED BY <1>1, LifeInvariant, PTL

(* Neither the worker nor a call one of its tasks made touches an object   *)
(* that is destroyed: join() has waited for all of them.                   *)
THEOREM DestroyedCorrect == LifeSpec => DestroyedIsUntouched
<1>1. IInv /\ CallerKnown /\ LifeInv /\ [LifeNext]_allVars =>
        [life = "destroyed" => UNCHANGED <<thread_, vars>>]_allVars
  <2> SUFFICES ASSUME IInv, CallerKnown, LifeInv, LifeNext, life = "destroyed"
               PROVE  UNCHANGED <<thread_, vars>>
    OBVIOUS
  <2>1. thread_ = "ended" /\ worker \in {"failed", "exited"} /\ NoClientInside
    BY DEF LifeInv
  <2>2. stack = << >>
    BY <2>1 DEF IInv, WorkerInv
  <2>3. \A c \in Calls : call[c] \notin ApiPoints
    BY <2>1, <2>2 DEF IInv, StackInv, CallerKnown, NoClientInside, ApiPoints
  <2>4. ASSUME NEW c \in Calls PROVE ~NewCall(c) /\ ~CallStep(c)
    <3>1. ~ApiStep(c)
      BY <2>3 DEF ApiStep, DispatchCheck, PostCheck, TakeSlot, GiveBackSlot, Enqueue, TimerCheck,
         Arm, FutureReady, CloseCheck, ClosePost, SetClosing, WaiterFree, ApiPoints
    <3> QED BY <2>1, <2>2, <3>1 DEF NewCall, CallStep, WorkerCalls, InUserCode
  <2> QED
    BY <2>1, <2>4 DEF LifeNext, OwnerStep, StartThread, ThreadRefused, ConstructorReturns,
       ConstructorRethrows, Join, Destroy, DestroyByTask, ThreadStep, ThreadEnds
<1> QED BY <1>1, LifeInvariant, PTL DEF LifeSpec, DestroyedIsUntouched
=============================================================================
