--------------------------- MODULE PipelineProofs ---------------------------
(* Theorems about Pipeline, for any number of calls, any capacity and any  *)
(* kinds of call.                                                          *)
EXTENDS Pipeline, TLAPS, FiniteSetTheorems, SequenceTheorems

-----------------------------------------------------------------------------
(* Sequences without repetition.                                           *)

Distinct(q) == \A i, j \in 1 .. Len(q) : q[i] = q[j] => i = j

(* t is what is left of q, and lacks q's head.                             *)
IsTail(t, q) ==
  /\ t \in Seq(Calls) /\ Len(q) \in Nat \ {0} /\ Len(t) = Len(q) - 1
  /\ Head(q) = q[1] /\ q[1] \in Calls /\ 1 \in 1 .. Len(q)
  /\ \A i \in 1 .. Len(t) : /\ i + 1 \in 1 .. Len(q) /\ t[i] = q[i + 1]
                            /\ t[i] \in Calls /\ t[i] # q[1]
  /\ Distinct(t)

(* t is c followed by q.                                                   *)
IsCons(t, c, q) ==
  /\ t \in Seq(Calls) /\ Len(q) \in Nat /\ Len(t) = Len(q) + 1 /\ t[1] = c
  /\ \A i \in 1 .. Len(t) : i # 1 => i - 1 \in 1 .. Len(q) /\ t[i] = q[i - 1]
  /\ Distinct(t)

(* t is q followed by c.                                                   *)
IsAppend(t, q, c) ==
  /\ t \in Seq(Calls) /\ Len(q) \in Nat /\ Len(t) = Len(q) + 1
  /\ \A i \in 1 .. Len(q) : q[i] \in Calls
  /\ \A i \in 1 .. Len(t) : /\ t[i] = IF i <= Len(q) THEN q[i] ELSE c
                            /\ i <= Len(q) => i \in 1 .. Len(q)
  /\ Distinct(t)

Lacks(q, c) == \A i \in 1 .. Len(q) : q[i] # c

(* The tail of such a sequence has none either, and lacks its head.        *)
LEMMA TailDistinct ==
  ASSUME NEW q \in Seq(Calls), q # << >>, Distinct(q),
         NEW t, t = Tail(q)
  PROVE  IsTail(t, q)
<1>1. /\ t \in Seq(Calls) /\ Len(q) \in Nat \ {0} /\ Len(t) = Len(q) - 1
      /\ Head(q) = q[1] /\ q[1] \in Calls
      /\ \A i \in 1 .. Len(t) : t[i] = q[i + 1] /\ t[i] \in Calls
  OBVIOUS
<1>2. \A n \in Nat \ {0} : 1 \in 1 .. n /\ \A i \in 1 .. n - 1 : i + 1 \in 1 .. n /\ i + 1 # 1
  OBVIOUS
<1>3. \A i \in 1 .. Len(t) : i + 1 \in 1 .. Len(q) /\ i + 1 # 1
  BY <1>1, <1>2
<1>4. \A i \in 1 .. Len(t) : t[i] # q[1]
  <2> TAKE i \in 1 .. Len(t)
  <2> QED BY <1>1, <1>2, <1>3 DEF Distinct
<1>5. Distinct(t)
  <2> SUFFICES ASSUME NEW i \in 1 .. Len(t), NEW j \in 1 .. Len(t), t[i] = t[j]
               PROVE  i = j
    BY DEF Distinct
  <2>1. i + 1 = j + 1
    BY <1>1, <1>3 DEF Distinct
  <2> QED BY <2>1
<1> QED BY <1>1, <1>2, <1>3, <1>4, <1>5 DEF IsTail

(* A new element can be put in front of such a sequence.                   *)
LEMMA ConsDistinct ==
  ASSUME NEW q \in Seq(Calls), NEW c \in Calls, Distinct(q), Lacks(q, c),
         NEW t, t = <<c>> \o q
  PROVE  IsCons(t, c, q)
<1>1. /\ t \in Seq(Calls) /\ Len(q) \in Nat /\ Len(t) = Len(q) + 1 /\ t[1] = c
      /\ \A i \in 1 .. Len(t) : i # 1 => i - 1 \in 1 .. Len(q) /\ t[i] = q[i - 1]
  OBVIOUS
<1>2. ASSUME NEW i \in 1 .. Len(t), NEW j \in 1 .. Len(t), t[i] = t[j]
      PROVE  i = j
  <2>1. CASE i # 1 /\ j # 1
    <3>1. i - 1 = j - 1
      BY <1>1, <1>2, <2>1 DEF Distinct
    <3> QED BY <3>1
  <2>2. CASE i = 1 \/ j = 1
    BY <1>1, <1>2, <2>2 DEF Lacks
  <2> QED BY <2>1, <2>2
<1> QED BY <1>1, <1>2 DEF Distinct, IsCons

(* Or at its end.                                                          *)
LEMMA AppendDistinct ==
  ASSUME NEW q \in Seq(Calls), NEW c \in Calls, Distinct(q), Lacks(q, c),
         NEW t, t = Append(q, c)
  PROVE  IsAppend(t, q, c)
<1>1. /\ t \in Seq(Calls) /\ Len(q) \in Nat /\ Len(t) = Len(q) + 1
      /\ \A i \in 1 .. Len(q) : q[i] \in Calls
      /\ \A i \in 1 .. Len(t) : /\ t[i] = IF i <= Len(q) THEN q[i] ELSE c
                                /\ i <= Len(q) => i \in 1 .. Len(q)
  OBVIOUS
<1>2. Distinct(t)
  BY <1>1 DEF Distinct, Lacks
<1> QED BY <1>1, <1>2 DEF IsAppend

-----------------------------------------------------------------------------
(* Types.                                                                  *)

(* The arithmetic of size_t stays in its range.                            *)
LEMMA IncDecType ==
  ASSUME NEW n \in 0 .. MaxCount
  PROVE  Inc(n) \in 0 .. MaxCount /\ Dec(n) \in 0 .. MaxCount
BY PipelineAssumption DEF Inc, Dec

(* The steps of a caller keep the types.                                   *)
LEMMA ApiTyping ==
  ASSUME TypeOK, NEW c \in Calls,
         ClientCalls(c) \/ WorkerCalls(c) \/ ApiStep(c)
  PROVE  TypeOK'
<1> USE DEF TypeOK, CallPoints, ApiPoints, TaskPoints, AfterPost, vars, ids, result, ioc, thread, flags
<1>1. ASSUME NEW k \in Kinds, NEW b \in {"client", "worker"}, Begin(c, k, b)
      PROVE  TypeOK'
  <2>1. Entry(k) \in ApiPoints
    BY <1>1 DEF Entry, Kinds
  <2>2. call' = [call EXCEPT ![c] = Entry(k)] /\ kind' = [kind EXCEPT ![c] = k]
        /\ by' = [by EXCEPT ![c] = b]
        /\ before' = [before EXCEPT ![c] = {d \in Calls : task[d] = "queued"}]
    BY <1>1 DEF Begin
  <2>3. call' \in [Calls -> CallPoints] /\ kind' \in [Calls -> Kinds \cup {"none"}]
    BY <2>1, <2>2
  <2>4. by' \in [Calls -> {"client", "worker", "none"}] /\ before' \in [Calls -> SUBSET Calls]
    BY <2>2
  <2>5. UNCHANGED <<task, outcome, promise, queue, stopped, guard, stack, worker, waiter,
                    count, closing, closed>>
    BY <1>1 DEF Begin
  <2> QED BY <2>3, <2>4, <2>5
<1>2. CASE ClientCalls(c)
  BY <1>1, <1>2, PipelineAssumption DEF ClientCalls
<1>3. CASE WorkerCalls(c)
  BY <1>1, <1>3, PipelineAssumption DEF WorkerCalls
<1>4. CASE DispatchCheck(c)
  <2>1. <<c>> \o stack \in Seq(Calls)
    OBVIOUS
  <2>5. PICK p \in CallPoints : call' = [call EXCEPT ![c] = p]
    BY <1>4 DEF DispatchCheck
  <2>6. task' = task \/ task' = [task EXCEPT ![c] = "check"]
    BY <1>4 DEF DispatchCheck
  <2>2. call' \in [Calls -> CallPoints] /\ task' \in [Calls -> TaskPoints]
    BY <2>5, <2>6
  <2>3. stack' \in Seq(Calls)
    BY <1>4, <2>1 DEF DispatchCheck
  <2>4. UNCHANGED <<kind, by, before, outcome, promise, queue, stopped, guard, worker, waiter,
                    count, closing, closed>>
    BY <1>4 DEF DispatchCheck
  <2> QED BY <2>2, <2>3, <2>4
<1>5. CASE PostCheck(c)
  BY <1>5 DEF PostCheck
<1>6. CASE TakeSlot(c)
  BY <1>6, IncDecType DEF TakeSlot
<1>7. CASE GiveBackSlot(c)
  BY <1>7, IncDecType DEF GiveBackSlot
<1>8. CASE Enqueue(c)
  BY <1>8 DEF Enqueue
<1>9. CASE TimerCheck(c)
  BY <1>9 DEF TimerCheck
<1>10. CASE Arm(c)
  BY <1>10 DEF Arm
<1>11. CASE FutureReady(c)
  BY <1>11 DEF FutureReady
<1>12. CASE CloseCheck(c)
  BY <1>12 DEF CloseCheck
<1>13. CASE ClosePost(c)
  BY <1>13 DEF ClosePost
<1>14. CASE SetClosing(c)
  BY <1>14 DEF SetClosing
<1>15. CASE WaiterFree(c)
  BY <1>15 DEF WaiterFree
<1> QED
  BY <1>2, <1>3, <1>4, <1>5, <1>6, <1>7, <1>8, <1>9, <1>10, <1>11, <1>12, <1>13, <1>14, <1>15 DEF ApiStep

(* The steps of the worker, and the expiry of a timer, keep the types.     *)
LEMMA WorkerTyping ==
  ASSUME TypeOK, WorkerStep \/ \E c \in Calls : Expire(c)
  PROVE  TypeOK'
<1> USE DEF TypeOK, CallPoints, ApiPoints, TaskPoints, vars, ids, result, ioc, thread, flags
<1>1. CASE RunLock
  BY <1>1 DEF RunLock
<1>2. CASE RunStart
  BY <1>2 DEF RunStart
<1>3. CASE RunFails
  BY <1>3 DEF RunFails
<1>4. CASE Exit
  BY <1>4 DEF Exit
<1>5. CASE Dequeue
  <2>1. Head(queue) \in Calls /\ Tail(queue) \in Seq(Calls) /\ <<Head(queue)>> \in Seq(Calls)
    BY <1>5 DEF Dequeue
  <2>2. FirstPoint(kind[Head(queue)]) \in TaskPoints
    BY <2>1 DEF FirstPoint
  <2> QED BY <1>5, <2>1, <2>2 DEF Dequeue
<1>6. ASSUME NEW c \in Calls, Expire(c) PROVE TypeOK'
  BY <1>6 DEF Expire
<1>7. ASSUME NEW c \in Calls, HandlerStep(c) PROVE TypeOK'
  <2>1. ASSUME NEW o \in {"ran", "failed", "dismissed"}, NEW p \in {"unset", "value", "exception"},
               stack # << >>, EndTask(c, o, p)
        PROVE  TypeOK'
    <3>1. Tail(stack) \in Seq(Calls)
      BY <2>1
    <3>2. outcome' \in [Calls -> {"none", "ran", "failed", "dismissed"}]
          /\ promise' \in [Calls -> {"unset", "value", "exception"}]
      <4>1. outcome' = [outcome EXCEPT ![c] = o] /\ promise' = [promise EXCEPT ![c] = p]
        BY <2>1 DEF EndTask
      <4> QED BY <2>1, <4>1
    <3>3. task' \in [Calls -> TaskPoints] /\ stack' \in Seq(Calls)
      <4>1. PICK t \in TaskPoints : task' = [task EXCEPT ![c] = t]
        BY <2>1 DEF EndTask
      <4>2. stack' = stack \/ stack' = Tail(stack)
        BY <2>1 DEF EndTask
      <4>3. task' \in [Calls -> TaskPoints]
        BY <4>1
      <4>4. stack' \in Seq(Calls)
        BY <3>1, <4>2
      <4> QED BY <4>3, <4>4
    <3>4. call' \in [Calls -> CallPoints]
      BY <2>1 DEF EndTask, AfterPost
    <3>5. UNCHANGED <<kind, by, before, queue, stopped, guard, worker, waiter,
                      count, closing, closed>>
      BY <2>1 DEF EndTask
    <3> QED BY <3>2, <3>3, <3>4, <3>5
  <2>2. stack # << >> => Tail(stack) \in Seq(Calls)
    OBVIOUS
  <2>3. CASE Uncount(c)
    BY <2>3, IncDecType DEF Uncount
  <2>4. CASE StartTask(c)
    BY <2>4 DEF StartTask
  <2>5. CASE DismissTask(c)
    BY <2>5, <2>1 DEF DismissTask, At
  <2>6. CASE StartInner(c)
    BY <2>6 DEF StartInner
  <2>7. CASE DismissInner(c)
    BY <2>7, <2>1 DEF DismissInner, At
  <2>8. CASE TaskReturns(c)
    BY <2>8, <2>1 DEF TaskReturns, At
  <2>9. CASE TaskThrows(c)
    BY <2>9, <2>1 DEF TaskThrows, At
  <2>10. CASE CompletionReturns(c)
    BY <2>10, <2>2 DEF CompletionReturns, At
  <2>11. CASE HandlerEscapes(c)
    BY <2>11 DEF HandlerEscapes
  <2>12. CASE Shutdown(c)
    BY <2>12, <2>2 DEF Shutdown, At
  <2> QED
    BY <1>7, <2>3, <2>4, <2>5, <2>6, <2>7, <2>8, <2>9, <2>10, <2>11, <2>12 DEF HandlerStep
<1> QED
  BY <1>1, <1>2, <1>3, <1>4, <1>5, <1>6, <1>7 DEF WorkerStep

(* The initial state is well typed.                                        *)
LEMMA InitTyping == Init => TypeOK
<1> SUFFICES ASSUME Init PROVE TypeOK
  OBVIOUS
<1>1. {stopped, guard, waiter, closing, closed} \subseteq BOOLEAN
  BY DEF Init
<1>2. count \in 0 .. MaxCount /\ queue \in Seq(Calls) /\ stack \in Seq(Calls)
  BY PipelineAssumption DEF Init
<1> QED BY <1>1, <1>2 DEF Init, TypeOK, CallPoints, TaskPoints

(* Every state of the pipeline is well typed; in particular count_, which  *)
(* goes below zero and wraps, stays a size_t.                              *)
THEOREM TypeCorrect == Spec => []TypeOK
<1>1. Init => TypeOK
  BY InitTyping
<1>2. TypeOK /\ [Next]_vars => TypeOK'
  <2> SUFFICES ASSUME TypeOK, [Next]_vars PROVE TypeOK'
    OBVIOUS
  <2>1. CASE Next
    BY <2>1, ApiTyping, WorkerTyping DEF Next
  <2>2. CASE UNCHANGED vars
    BY <2>2 DEF vars, TypeOK
  <2> QED BY <2>1, <2>2
<1> QED BY <1>1, <1>2, PTL DEF Spec

-----------------------------------------------------------------------------
(* Places: which points of a caller and of its handler go together, and    *)
(* with which member function.                                             *)

BeforeHandler == {"idle", "dispatch", "post", "adding", "over", "posting",
                  "timer", "arming", "close", "closing", "waiter"}
LiveTask == {"queued", "entered", "check", "inner", "running"}

CallPlace(c) ==
  /\ call[c] \in BeforeHandler => task[c] = "none"
  /\ call[c] = "dispatch" => kind[c] \in {"Dispatch", "Sync"}
  /\ call[c] \in {"post", "adding", "over"} => kind[c] \in CountedKinds
  /\ call[c] = "posting" => kind[c] \in DecrementingKinds \cup {"Raw"}
  /\ call[c] = "inline" => /\ kind[c] \in {"Dispatch", "Sync"}
                           /\ task[c] \in {"check", "inner", "running"}
  /\ call[c] \in {"timer", "arming"} => kind[c] \in {"Timer", "TokenTimer"}
  /\ call[c] \in {"close", "closing", "shut"} => kind[c] = "Close"
  /\ call[c] = "waiter" => kind[c] = "Wait"
  /\ call[c] = "future" => kind[c] = "Sync"

TaskPlace(c) ==
  /\ task[c] = "armed" => kind[c] \in {"Timer", "TokenTimer"}
  /\ task[c] = "entered" => kind[c] \in DecrementingKinds
  /\ task[c] = "inner" => kind[c] \in WrappedKinds
  /\ task[c] = "completing" => kind[c] \in TokenKinds
  /\ task[c] = "shutdown" => kind[c] = "Close"
  /\ task[c] = "escaped" => kind[c] \in TokenKinds \cup {"Raw"}

(* A PostSynchronously call, its promise and what its task came to.        *)
SyncPlace(c) ==
  /\ promise[c] # "unset" => task[c] = "done"
  /\ kind[c] = "Sync" =>
       /\ task[c] \in LiveTask => call[c] \in {"future", "inline"}
       /\ promise[c] = "value" => \/ outcome[c] = "ran"
                                  \/ outcome[c] = "dismissed" /\ closing
       /\ promise[c] = "exception" => outcome[c] = "failed"
       /\ call[c] = "returned" => promise[c] = "value"
       /\ call[c] = "threw" => promise[c] = "exception" \/ task[c] = "none"

(* A handler Close() posted exists before closing_ is set only while its   *)
(* caller is on the way to set it.                                         *)
ClosePlace(c) == kind[c] = "Close" /\ task[c] # "none" /\ ~closing => call[c] = "shut"

Places == \A c \in Calls : CallPlace(c) /\ TaskPlace(c) /\ SyncPlace(c) /\ ClosePlace(c)

(* The ready queue holds each queued handler once.                         *)
QueueInv ==
  /\ \A i \in 1 .. Len(queue) : task[queue[i]] = "queued"
  /\ Distinct(queue)
  /\ \A c \in Calls : task[c] = "queued" => \E i \in 1 .. Len(queue) : queue[i] = c

(* Handlers are in the queue in the order of their calls.                  *)
OrderInv ==
  \A c, d \in Calls : d \in before[c] =>
    /\ c # d /\ call[c] # "idle" /\ task[d] \notin {"none", "armed"}
    /\ \A i, j \in 1 .. Len(queue) : queue[i] = d /\ queue[j] = c => i < j

(* The handlers on the worker's stack; all but the first one it took from  *)
(* the queue are inline Dispatch or PostSynchronously calls.               *)
StackInv ==
  /\ \A i \in 1 .. Len(stack) :
       /\ task[stack[i]] \in {"entered", "check", "inner", "running", "completing", "shutdown"}
       /\ (call[stack[i]] = "inline") <=> (i < Len(stack))
  /\ Distinct(stack)
  /\ \A c \in Calls : by[c] = "worker" /\ call[c] \in ApiPoints => stack # << >>

(* The worker, waiter_ and the io_context.                                 *)
WorkerInv ==
  /\ stack # << >> => worker = "looping"
  /\ \A c \in Calls : /\ call[c] # "idle" => worker \in {"looping", "unwinding", "exited"}
                      /\ kind[c] = "Wait" /\ call[c] = "returned" => worker = "exited"
  /\ waiter <=> worker \in {"starting", "looping", "unwinding"}
  /\ stopped <=> closed
  /\ closed => stack = << >>
  /\ worker = "looping" /\ ~closed => guard
  /\ worker = "unwinding" \/ (worker = "exited" /\ ~closed) =>
       \E c \in Calls : task[c] = "escaped"

IInv == TypeOK /\ Places /\ QueueInv /\ OrderInv /\ StackInv /\ WorkerInv

(* Places is kept by a step of a caller.                                   *)
LEMMA ApiPlaces ==
  ASSUME TypeOK, Places, NEW c \in Calls,
         ClientCalls(c) \/ WorkerCalls(c) \/ ApiStep(c)
  PROVE  Places'
<1> SUFFICES ASSUME NEW d \in Calls
             PROVE  (CallPlace(d) /\ TaskPlace(d) /\ SyncPlace(d) /\ ClosePlace(d))'
  BY DEF Places
<1> USE DEF TypeOK, Places, CallPlace, TaskPlace, SyncPlace, ClosePlace, BeforeHandler, LiveTask,
            CountedKinds, DecrementingKinds, WrappedKinds, TokenKinds,
            AfterPost, ids, result, ioc, thread, flags
<1>1. ASSUME NEW k \in Kinds, NEW b, Begin(c, k, b)
      PROVE  (CallPlace(d) /\ TaskPlace(d) /\ SyncPlace(d) /\ ClosePlace(d))'
  BY <1>1 DEF Begin, Entry, Kinds
<1>2. CASE ClientCalls(c)
  BY <1>1, <1>2, PipelineAssumption DEF ClientCalls
<1>3. CASE WorkerCalls(c)
  BY <1>1, <1>3, PipelineAssumption DEF WorkerCalls
<1>4. CASE DispatchCheck(c)
  BY <1>4 DEF DispatchCheck
<1>5. CASE PostCheck(c)
  BY <1>5 DEF PostCheck
<1>6. CASE TakeSlot(c)
  BY <1>6 DEF TakeSlot
<1>7. CASE GiveBackSlot(c)
  BY <1>7 DEF GiveBackSlot
<1>8. CASE Enqueue(c)
  BY <1>8 DEF Enqueue
<1>9. CASE TimerCheck(c)
  BY <1>9 DEF TimerCheck
<1>10. CASE Arm(c)
  BY <1>10 DEF Arm
<1>11. CASE FutureReady(c)
  BY <1>11 DEF FutureReady
<1>12. CASE CloseCheck(c)
  BY <1>12 DEF CloseCheck
<1>13. CASE ClosePost(c)
  BY <1>13 DEF ClosePost
<1>14. CASE SetClosing(c)
  BY <1>14 DEF SetClosing
<1>15. CASE WaiterFree(c)
  BY <1>15 DEF WaiterFree
<1> QED
  BY <1>2, <1>3, <1>4, <1>5, <1>6, <1>7, <1>8, <1>9, <1>10, <1>11, <1>12, <1>13, <1>14, <1>15 DEF ApiStep

(* Places is kept by a step of the worker or the expiry of a timer.        *)
LEMMA WorkerPlaces ==
  ASSUME TypeOK, Places, QueueInv, WorkerStep \/ \E c \in Calls : Expire(c)
  PROVE  Places'
<1> SUFFICES ASSUME NEW d \in Calls
             PROVE  (CallPlace(d) /\ TaskPlace(d) /\ SyncPlace(d) /\ ClosePlace(d))'
  BY DEF Places
<1> USE DEF TypeOK, Places, CallPlace, TaskPlace, SyncPlace, ClosePlace, BeforeHandler, LiveTask,
            CountedKinds, DecrementingKinds, WrappedKinds, TokenKinds,
            ids, result, ioc, thread, flags
<1>1. CASE RunLock
  BY <1>1 DEF RunLock
<1>2. CASE RunStart
  BY <1>2 DEF RunStart
<1>3. CASE RunFails
  BY <1>3 DEF RunFails
<1>4. CASE Exit
  BY <1>4 DEF Exit
<1>5. CASE Dequeue
  <2>1. Head(queue) \in Calls /\ task[Head(queue)] = "queued"
    BY <1>5 DEF Dequeue, QueueInv
  <2> QED BY <1>5, <2>1 DEF Dequeue, FirstPoint, Kinds
<1>6. ASSUME NEW c \in Calls, Expire(c)
      PROVE  (CallPlace(d) /\ TaskPlace(d) /\ SyncPlace(d) /\ ClosePlace(d))'
  BY <1>6 DEF Expire
<1>7. ASSUME NEW c \in Calls, HandlerStep(c)
      PROVE  (CallPlace(d) /\ TaskPlace(d) /\ SyncPlace(d) /\ ClosePlace(d))'
  <2> USE DEF At, EndTask, AfterPost
  <2>3. CASE Uncount(c)
    BY <2>3 DEF Uncount
  <2>4. CASE StartTask(c)
    BY <2>4 DEF StartTask
  <2>5. CASE DismissTask(c)
    BY <2>5 DEF DismissTask
  <2>6. CASE StartInner(c)
    BY <2>6 DEF StartInner
  <2>7. CASE DismissInner(c)
    BY <2>7 DEF DismissInner
  <2>8. CASE TaskReturns(c)
    BY <2>8 DEF TaskReturns
  <2>9. CASE TaskThrows(c)
    BY <2>9 DEF TaskThrows
  <2>10. CASE CompletionReturns(c)
    BY <2>10 DEF CompletionReturns
  <2>11. CASE HandlerEscapes(c)
    BY <2>11 DEF HandlerEscapes
  <2>12. CASE Shutdown(c)
    BY <2>12 DEF Shutdown
  <2> QED
    BY <1>7, <2>3, <2>4, <2>5, <2>6, <2>7, <2>8, <2>9, <2>10, <2>11, <2>12 DEF HandlerStep
<1> QED
  BY <1>1, <1>2, <1>3, <1>4, <1>5, <1>6, <1>7 DEF WorkerStep

(* A handler is added at the end of the queue.                             *)
LEMMA AppendKeepsOrder ==
  ASSUME TypeOK, QueueInv, OrderInv, NEW c \in Calls,
         task[c] \in {"none", "armed"},
         queue' = Append(queue, c),
         task' = [task EXCEPT ![c] = "queued"],
         before' = before,
         \A d \in Calls : call[d] # "idle" => call'[d] # "idle"
  PROVE  QueueInv' /\ OrderInv'
<1>2. task \in [Calls -> TaskPoints] /\ \A i \in 1 .. Len(queue) : queue[i] # c
  BY DEF QueueInv, TypeOK
<1>5. queue \in Seq(Calls) /\ Distinct(queue)
  BY DEF QueueInv, TypeOK
<1>6. IsAppend(queue', queue, c)
  BY <1>2, <1>5, AppendDistinct DEF Lacks
<1>1. /\ Len(queue') = Len(queue) + 1 /\ Len(queue) \in Nat
      /\ \A i \in 1 .. Len(queue) : queue[i] \in Calls
      /\ \A i \in 1 .. Len(queue') : /\ queue'[i] = IF i <= Len(queue) THEN queue[i] ELSE c
                                     /\ i <= Len(queue) => i \in 1 .. Len(queue)
      /\ Distinct(queue')
  BY <1>6 DEF IsAppend
<1>3. QueueInv'
  <2>1. \A i \in 1 .. Len(queue') : task'[queue'[i]] = "queued"
    BY <1>1, <1>2 DEF QueueInv
  <2>3. \A d \in Calls : task'[d] = "queued" => \E i \in 1 .. Len(queue') : queue'[i] = d
    <3> SUFFICES ASSUME NEW d \in Calls, task'[d] = "queued"
                 PROVE  \E i \in 1 .. Len(queue') : queue'[i] = d
      OBVIOUS
    <3>1. CASE d = c
      BY <3>1, <1>1
    <3>2. CASE d # c
      BY <3>2, <1>1 DEF QueueInv
    <3> QED BY <3>1, <3>2
  <2> QED BY <1>1, <2>1, <2>3 DEF QueueInv
<1>4. OrderInv'
  BY <1>1, <1>2 DEF OrderInv
<1> QED BY <1>3, <1>4

(* A step that leaves the queue and the set of queued handlers alone.      *)
LEMMA QuietKeepsOrder ==
  ASSUME TypeOK, QueueInv, OrderInv,
         queue' = queue, before' = before,
         \A d \in Calls : /\ task'[d] = "queued" <=> task[d] = "queued"
                          /\ task[d] \notin {"none", "armed"} => task'[d] \notin {"none", "armed"}
                          /\ call[d] # "idle" => call'[d] # "idle"
  PROVE  QueueInv' /\ OrderInv'
<1>1. \A i \in 1 .. Len(queue) : queue[i] \in Calls
  BY DEF TypeOK
<1> QED BY <1>1 DEF QueueInv, OrderInv

(* The queue and its order are kept by a step of a caller.                 *)
LEMMA ApiOrder ==
  ASSUME TypeOK, Places, QueueInv, OrderInv, NEW c \in Calls,
         ClientCalls(c) \/ WorkerCalls(c) \/ ApiStep(c)
  PROVE  QueueInv' /\ OrderInv'
<1> USE DEF TypeOK, ids, result, ioc, thread, flags
<1>1. ASSUME NEW k \in Kinds, NEW b, Begin(c, k, b)
      PROVE  QueueInv' /\ OrderInv'
  <2>1. Entry(k) # "idle" /\ task[c] = "none"
    BY <1>1 DEF Begin, Entry, Kinds, Places, CallPlace, BeforeHandler
  <2>2. QueueInv'
    BY <1>1 DEF Begin, QueueInv
  <2>3. OrderInv'
    BY <1>1, <2>1 DEF Begin, QueueInv, OrderInv
  <2> QED BY <2>2, <2>3
<1>2. CASE ClientCalls(c)
  BY <1>1, <1>2, PipelineAssumption DEF ClientCalls
<1>3. CASE WorkerCalls(c)
  BY <1>1, <1>3, PipelineAssumption DEF WorkerCalls
<1>4. CASE Enqueue(c) \/ ClosePost(c)
  <2>1. task[c] = "none"
    BY <1>4 DEF Enqueue, ClosePost, Places, CallPlace, BeforeHandler
  <2> QED BY <1>4, <2>1, AppendKeepsOrder DEF Enqueue, ClosePost, AfterPost
<1>5. CASE DispatchCheck(c)
  <2>1. task[c] = "none"
    BY <1>5 DEF DispatchCheck, Places, CallPlace, BeforeHandler
  <2> QED BY <1>5, <2>1, QuietKeepsOrder DEF DispatchCheck, AfterPost
<1>6. CASE Arm(c)
  <2>1. task[c] = "none"
    BY <1>6 DEF Arm, Places, CallPlace, BeforeHandler
  <2> QED BY <1>6, <2>1, QuietKeepsOrder DEF Arm
<1>7. CASE PostCheck(c) \/ TakeSlot(c) \/ GiveBackSlot(c) \/ TimerCheck(c) \/ FutureReady(c)
           \/ CloseCheck(c) \/ SetClosing(c) \/ WaiterFree(c)
  BY <1>7, QuietKeepsOrder DEF PostCheck, TakeSlot, GiveBackSlot, TimerCheck, FutureReady,
     CloseCheck, SetClosing, WaiterFree, AfterPost
<1> QED
  BY <1>2, <1>3, <1>4, <1>5, <1>6, <1>7 DEF ApiStep

(* The points of a handler the worker is executing.                        *)
HandlerPoints == {"entered", "check", "inner", "running", "completing", "shutdown"}

(* What a handler's step on the worker does, whichever step it is: it goes *)
(* on, or is done and popped, or escapes and ends the worker's loop.       *)
LEMMA HandlerFrame ==
  ASSUME TypeOK, Places, NEW c \in Calls, HandlerStep(c)
  PROVE  /\ stack # << >> /\ c = Head(stack) /\ ~WorkerInApi
         /\ task[c] \in HandlerPoints
         /\ task' = [task EXCEPT ![c] = task'[c]]
         /\ UNCHANGED <<ids, queue, waiter, closing>>
         /\ \/ task'[c] \in HandlerPoints /\ UNCHANGED <<call, stack, worker>>
            \/ /\ task'[c] = "done"
               /\ stack' = Tail(stack)
               /\ worker' = worker
               /\ call' = [call EXCEPT ![c] = IF @ = "inline" THEN AfterPost(c) ELSE @]
            \/ /\ task'[c] = "escaped"
               /\ stack' = << >>
               /\ worker' = "unwinding"
               /\ call' = call
<1> USE DEF TypeOK, At, HandlerPoints, EndTask, ids, result, ioc, thread, flags
<1>1. CASE Uncount(c)
  BY <1>1 DEF Uncount
<1>2. CASE StartTask(c)
  BY <1>2 DEF StartTask
<1>3. CASE DismissTask(c)
  BY <1>3 DEF DismissTask
<1>4. CASE StartInner(c)
  BY <1>4 DEF StartInner
<1>5. CASE DismissInner(c)
  BY <1>5 DEF DismissInner
<1>6. CASE TaskReturns(c)
  BY <1>6 DEF TaskReturns
<1>7. CASE TaskThrows(c)
  BY <1>7 DEF TaskThrows
<1>8. CASE CompletionReturns(c)
  <2>1. call[c] # "inline"
    BY <1>8 DEF CompletionReturns, Places, CallPlace
  <2> QED BY <1>8, <2>1 DEF CompletionReturns
<1>9. CASE HandlerEscapes(c)
  BY <1>9 DEF HandlerEscapes
<1>10. CASE Shutdown(c)
  <2>1. call[c] # "inline"
    BY <1>10 DEF Shutdown, Places, CallPlace
  <2> QED BY <1>10, <2>1 DEF Shutdown
<1> QED
  BY <1>1, <1>2, <1>3, <1>4, <1>5, <1>6, <1>7, <1>8, <1>9, <1>10 DEF HandlerStep

(* The queue and its order are kept by a step of the worker or a timer.    *)
LEMMA WorkerOrder ==
  ASSUME TypeOK, Places, QueueInv, OrderInv, WorkerStep \/ \E c \in Calls : Expire(c)
  PROVE  QueueInv' /\ OrderInv'
<1> USE DEF TypeOK, ids, result, ioc, thread, flags
<1>1. CASE RunLock \/ RunStart \/ RunFails \/ Exit
  BY <1>1, QuietKeepsOrder DEF RunLock, RunStart, RunFails, Exit
<1>2. CASE Dequeue
  <2> DEFINE c == Head(queue)
  <2>1. /\ c \in Calls /\ queue # << >> /\ queue' = Tail(queue) /\ before' = before /\ call' = call
        /\ task' = [task EXCEPT ![c] = FirstPoint(kind[c])]
    BY <1>2 DEF Dequeue
  <2>4. queue \in Seq(Calls) /\ Distinct(queue)
    BY DEF QueueInv
  <2>2. /\ Len(queue) \in Nat \ {0} /\ c = queue[1] /\ Len(queue') = Len(queue) - 1
        /\ \A i \in 1 .. Len(queue') : /\ i + 1 \in 1 .. Len(queue) /\ queue'[i] = queue[i + 1]
                                       /\ queue'[i] \in Calls /\ queue'[i] # c
        /\ Distinct(queue')
    <3> HIDE DEF TypeOK, c
    <3>1. IsTail(queue', queue)
      BY <2>1, <2>4, TailDistinct
    <3> QED BY <3>1 DEF IsTail, c
  <2>3. FirstPoint(kind[c]) \notin {"none", "armed", "queued"}
    BY DEF FirstPoint
  <2>7. \A d \in Calls : d # c => task'[d] = task[d]
    BY <2>1
  <2>8. task'[c] = FirstPoint(kind[c])
    BY <2>1
  <2> HIDE DEF c, TypeOK
  <2>5. QueueInv'
    <3>1. \A i \in 1 .. Len(queue') : task'[queue'[i]] = "queued"
      BY <2>2, <2>7 DEF QueueInv
    <3>3. ASSUME NEW d \in Calls, task'[d] = "queued"
          PROVE  \E i \in 1 .. Len(queue') : queue'[i] = d
      <4>1. d # c /\ task[d] = "queued"
        BY <3>3, <2>3, <2>7, <2>8
      <4>2. PICK i \in 1 .. Len(queue) : queue[i] = d
        BY <4>1 DEF QueueInv
      <4>3. i - 1 \in 1 .. Len(queue') /\ queue'[i - 1] = d
        BY <4>1, <4>2, <2>2
      <4> QED BY <4>3
    <3> QED BY <2>2, <3>1, <3>3 DEF QueueInv
  <2>6. OrderInv'
    <3>1. \A d \in Calls : task[d] \notin {"none", "armed"} => task'[d] \notin {"none", "armed"}
      BY <2>3, <2>7, <2>8
    <3>2. \A d, e \in Calls : \A i, j \in 1 .. Len(queue') :
            d \in before[e] /\ queue'[i] = d /\ queue'[j] = e => i < j
      <4> SUFFICES ASSUME NEW d \in Calls, NEW e \in Calls,
                          NEW i \in 1 .. Len(queue'), NEW j \in 1 .. Len(queue'),
                          d \in before[e], queue'[i] = d, queue'[j] = e
                   PROVE  i < j
        OBVIOUS
      <4>1. i + 1 < j + 1
        BY <2>2 DEF OrderInv
      <4> QED BY <2>2, <4>1
    <3> QED BY <2>1, <3>1, <3>2 DEF OrderInv
  <2> QED BY <2>5, <2>6
<1>3. ASSUME NEW c \in Calls, Expire(c) PROVE QueueInv' /\ OrderInv'
  BY <1>3, AppendKeepsOrder DEF Expire
<1>4. ASSUME NEW c \in Calls, HandlerStep(c) PROVE QueueInv' /\ OrderInv'
  BY <1>4, HandlerFrame, QuietKeepsOrder DEF HandlerPoints, AfterPost
<1> QED
  BY <1>1, <1>2, <1>3, <1>4 DEF WorkerStep

(* The stack is kept by a step that neither pushes nor pops.               *)
LEMMA QuietKeepsStack ==
  ASSUME TypeOK, StackInv,
         stack' = stack,
         \A d \in Calls :
           /\ task[d] \in HandlerPoints => task'[d] \in HandlerPoints
           /\ task[d] \in HandlerPoints => (call'[d] = "inline" <=> call[d] = "inline")
           /\ (by'[d] = "worker" /\ call'[d] \in ApiPoints)
                => stack # << >> \/ (by[d] = "worker" /\ call[d] \in ApiPoints)
  PROVE  StackInv'
<1>1. \A i \in 1 .. Len(stack) : stack[i] \in Calls
  BY DEF TypeOK
<1> QED BY <1>1 DEF StackInv, HandlerPoints

(* The stack is kept by a step of a caller.                                *)
LEMMA ApiStack ==
  ASSUME TypeOK, Places, StackInv, NEW c \in Calls,
         ClientCalls(c) \/ WorkerCalls(c) \/ ApiStep(c)
  PROVE  StackInv'
<1> USE DEF TypeOK, ids, result, ioc, thread, flags
<1>1. task[c] \in HandlerPoints => call[c] \notin BeforeHandler
  BY DEF Places, CallPlace, HandlerPoints
<1>2. CASE ClientCalls(c) \/ WorkerCalls(c)
  BY <1>1, <1>2, QuietKeepsStack DEF ClientCalls, WorkerCalls, InUserCode, Begin, BeforeHandler
<1>3. CASE DispatchCheck(c) /\ stack' = stack
  <2>1. /\ call' = [call EXCEPT ![c] = call'[c]] /\ call'[c] \in ApiPoints \cup {"returned"}
        /\ UNCHANGED <<task, by, stack>>
        /\ call[c] = "dispatch"
    BY <1>3 DEF DispatchCheck, AfterPost, ApiPoints
  <2>2. call[c] # "inline" /\ call'[c] # "inline" /\ call[c] \in ApiPoints
    BY <2>1 DEF ApiPoints
  <2> QED BY <2>1, <2>2, QuietKeepsStack
<1>4. CASE DispatchCheck(c) /\ stack' # stack
  <2>1. /\ stack' = <<c>> \o stack
        /\ task' = [task EXCEPT ![c] = "check"]
        /\ call' = [call EXCEPT ![c] = "inline"]
        /\ by[c] = "worker" /\ call[c] = "dispatch" /\ by' = by
    BY <1>4 DEF DispatchCheck
  <2>2. stack # << >>
    BY <2>1 DEF StackInv, ApiPoints
  <2>4. \A i \in 1 .. Len(stack) : stack[i] # c /\ stack[i] \in Calls
    <3>1. task[c] \notin HandlerPoints
      BY <1>1, <2>1 DEF BeforeHandler
    <3> QED BY <3>1 DEF StackInv, HandlerPoints
  <2>6. stack \in Seq(Calls) /\ Distinct(stack)
    BY DEF StackInv
  <2>3. /\ Len(stack) \in Nat \ {0} /\ Len(stack') = Len(stack) + 1
        /\ stack'[1] = c
        /\ \A i \in 1 .. Len(stack') : i # 1 => i - 1 \in 1 .. Len(stack) /\ stack'[i] = stack[i - 1]
        /\ Distinct(stack')
    <3> HIDE DEF TypeOK
    <3>1. Len(stack) # 0
      BY <2>2, <2>6
    <3>2. IsCons(stack', c, stack)
      BY <2>1, <2>4, <2>6, ConsDistinct DEF Lacks
    <3> QED BY <3>1, <3>2 DEF IsCons
  <2>5. \A i \in 1 .. Len(stack') : /\ task'[stack'[i]] \in HandlerPoints
                                    /\ (call'[stack'[i]] = "inline") <=> (i < Len(stack'))
    BY <2>1, <2>3, <2>4 DEF StackInv, HandlerPoints
  <2>7. stack' # << >>
    BY <2>1
  <2> QED BY <2>3, <2>5, <2>7 DEF StackInv, HandlerPoints
<1>5. CASE Enqueue(c) \/ ClosePost(c) \/ Arm(c)
  <2>1. task[c] = "none"
    BY <1>5 DEF Enqueue, ClosePost, Arm, Places, CallPlace, BeforeHandler
  <2> QED BY <1>5, <2>1, QuietKeepsStack
      DEF Enqueue, ClosePost, Arm, AfterPost, HandlerPoints, ApiPoints
<1>6. CASE PostCheck(c) \/ TakeSlot(c) \/ GiveBackSlot(c) \/ TimerCheck(c) \/ FutureReady(c)
           \/ CloseCheck(c) \/ SetClosing(c) \/ WaiterFree(c)
  BY <1>6, QuietKeepsStack DEF PostCheck, TakeSlot, GiveBackSlot, TimerCheck, FutureReady,
     CloseCheck, SetClosing, WaiterFree, AfterPost, ApiPoints
<1> QED
  BY <1>2, <1>3, <1>4, <1>5, <1>6 DEF ApiStep

(* The stack is kept by a step of the worker or the expiry of a timer.     *)
LEMMA WorkerStack ==
  ASSUME TypeOK, Places, QueueInv, StackInv, WorkerStep \/ \E c \in Calls : Expire(c)
  PROVE  StackInv'
<1> USE DEF TypeOK, ids, result, ioc, thread, flags
<1>1. CASE RunLock \/ RunStart \/ RunFails \/ Exit
  BY <1>1, QuietKeepsStack DEF RunLock, RunStart, RunFails, Exit
<1>2. CASE Dequeue
  <2> DEFINE c == Head(queue)
  <2>1. /\ c \in Calls /\ task[c] = "queued"
        /\ stack = << >> /\ stack' = <<c>>
        /\ task' = [task EXCEPT ![c] = FirstPoint(kind[c])]
        /\ UNCHANGED <<call, by>>
    BY <1>2 DEF Dequeue, QueueInv
  <2>2. FirstPoint(kind[c]) \in HandlerPoints
    BY DEF FirstPoint, HandlerPoints
  <2>3. call[c] # "inline"
    BY <2>1 DEF Places, CallPlace
  <2>4. Len(<<c>>) = 1 /\ \A i \in 1 .. 1 : <<c>>[i] = c /\ i = 1
    OBVIOUS
  <2> HIDE DEF c
  <2> QED BY <2>1, <2>2, <2>3, <2>4 DEF StackInv, HandlerPoints, Distinct
<1>3. ASSUME NEW c \in Calls, Expire(c) PROVE StackInv'
  BY <1>3, QuietKeepsStack DEF Expire, HandlerPoints
<1>4. ASSUME NEW c \in Calls, HandlerStep(c) PROVE StackInv'
  <2>1. /\ stack # << >> /\ c = Head(stack) /\ ~WorkerInApi /\ by' = by
        /\ task[c] \in HandlerPoints
        /\ task' = [task EXCEPT ![c] = task'[c]]
    BY <1>4, HandlerFrame
  <2>2. CASE task'[c] \in HandlerPoints /\ UNCHANGED <<call, stack, worker>>
    BY <2>1, <2>2, QuietKeepsStack
  <2>3. CASE /\ task'[c] = "done"
             /\ stack' = Tail(stack)
             /\ call' = [call EXCEPT ![c] = IF @ = "inline" THEN AfterPost(c) ELSE @]
    <3>2. stack \in Seq(Calls) /\ Distinct(stack)
      BY DEF StackInv
    <3>1. /\ Len(stack) \in Nat \ {0} /\ c = stack[1]
          /\ Len(stack') = Len(stack) - 1
          /\ \A i \in 1 .. Len(stack') : /\ i + 1 \in 1 .. Len(stack)
                                         /\ stack'[i] = stack[i + 1]
                                         /\ stack'[i] \in Calls /\ stack'[i] # c
          /\ Distinct(stack') /\ 1 \in 1 .. Len(stack)
      <4> HIDE DEF TypeOK
      <4>1. IsTail(stack', stack)
        BY <2>1, <2>3, <3>2, TailDistinct
      <4> QED BY <2>1, <4>1 DEF IsTail
    <3>3. \A i \in 1 .. Len(stack') : /\ task'[stack'[i]] \in HandlerPoints
                                      /\ (call'[stack'[i]] = "inline") <=> (i < Len(stack'))
      BY <2>1, <2>3, <3>1 DEF StackInv, HandlerPoints
    <3>5. ASSUME NEW d \in Calls, by'[d] = "worker", call'[d] \in ApiPoints
          PROVE  stack' # << >>
      <4>1. d = c /\ call[c] = "inline"
        BY <2>1, <2>3, <3>5 DEF WorkerInApi
      <4>2. Len(stack) # 1
        BY <3>1, <4>1 DEF StackInv
      <4> QED BY <3>1, <4>2
    <3> QED BY <3>1, <3>3, <3>5 DEF StackInv, HandlerPoints
  <2>4. CASE stack' = << >> /\ call' = call
    BY <2>1, <2>4 DEF StackInv, WorkerInApi, Distinct
  <2> QED BY <1>4, HandlerFrame, <2>2, <2>3, <2>4
<1> QED
  BY <1>1, <1>2, <1>3, <1>4 DEF WorkerStep

(* What is known of the worker is kept by a step of a caller.              *)
LEMMA ApiWorker ==
  ASSUME TypeOK, Places, StackInv, WorkerInv, NEW c \in Calls,
         ClientCalls(c) \/ WorkerCalls(c) \/ ApiStep(c)
  PROVE  WorkerInv'
<1> USE DEF TypeOK, ids, result, ioc, thread, flags
<1>1. CASE ClientCalls(c)
  <2>1. PICK k \in Kinds : Begin(c, k, "client")
    BY <1>1, PipelineAssumption DEF ClientCalls
  <2>2. Entry(k) # "returned"
    BY DEF Entry, Kinds
  <2> QED BY <1>1, <2>1, <2>2 DEF ClientCalls, Begin, WorkerInv
<1>2. CASE WorkerCalls(c)
  <2>1. PICK k \in Kinds : Begin(c, k, "worker")
    BY <1>2, PipelineAssumption DEF WorkerCalls
  <2>2. Entry(k) # "returned"
    BY DEF Entry, Kinds
  <2> QED BY <1>2, <2>1, <2>2 DEF WorkerCalls, InUserCode, Begin, WorkerInv
<1>3. CASE DispatchCheck(c)
  <2>1. kind[c] # "Wait" /\ call[c] # "idle" /\ task[c] # "escaped"
    BY <1>3 DEF DispatchCheck, Places, CallPlace, BeforeHandler
  <2>2. stack' # stack => stack # << >>
    BY <1>3 DEF DispatchCheck, StackInv, ApiPoints
  <2> QED BY <1>3, <2>1, <2>2 DEF DispatchCheck, WorkerInv
<1>4. CASE Enqueue(c) \/ ClosePost(c) \/ Arm(c)
  <2>1. kind[c] # "Wait" /\ call[c] # "idle" /\ task[c] # "escaped"
    BY <1>4 DEF Enqueue, ClosePost, Arm, Places, CallPlace, BeforeHandler, DecrementingKinds, CountedKinds
  <2> QED BY <1>4, <2>1 DEF Enqueue, ClosePost, Arm, WorkerInv
<1>5. CASE PostCheck(c) \/ TakeSlot(c) \/ GiveBackSlot(c) \/ TimerCheck(c) \/ FutureReady(c)
           \/ CloseCheck(c) \/ SetClosing(c)
  <2>1. kind[c] # "Wait" /\ call[c] # "idle"
    BY <1>5 DEF PostCheck, TakeSlot, GiveBackSlot, TimerCheck, FutureReady, CloseCheck,
       SetClosing, Places, CallPlace, CountedKinds
  <2>2. /\ call' = [call EXCEPT ![c] = call'[c]]
        /\ UNCHANGED <<task, kind, stack, worker, waiter, stopped, guard, closed>>
    BY <1>5 DEF PostCheck, TakeSlot, GiveBackSlot, TimerCheck, FutureReady, CloseCheck, SetClosing
  <2> QED BY <2>1, <2>2 DEF WorkerInv
<1>6. CASE WaiterFree(c)
  BY <1>6 DEF WaiterFree, WorkerInv
<1> QED
  BY <1>1, <1>2, <1>3, <1>4, <1>5, <1>6 DEF ApiStep

(* What is known of the worker is kept by its own steps and by timers.     *)
LEMMA WorkerWorker ==
  ASSUME TypeOK, Places, QueueInv, StackInv, WorkerInv,
         WorkerStep \/ \E c \in Calls : Expire(c)
  PROVE  WorkerInv'
<1> USE DEF TypeOK, ids, result, ioc, thread, flags
<1>1. CASE RunLock
  BY <1>1 DEF RunLock, WorkerInv
<1>2. CASE RunStart
  BY <1>2 DEF RunStart, WorkerInv
<1>3. CASE RunFails
  BY <1>3 DEF RunFails, WorkerInv
<1>4. CASE Exit
  BY <1>4 DEF Exit, OutOfWork, WorkerInv
<1>5. CASE Dequeue
  <2>1. Head(queue) \in Calls /\ task[Head(queue)] = "queued"
    BY <1>5 DEF Dequeue, QueueInv
  <2>2. \A d \in Calls : task[d] = "escaped" => task'[d] = "escaped"
    BY <1>5, <2>1 DEF Dequeue
  <2> QED BY <1>5, <2>2 DEF Dequeue, WorkerInv
<1>6. ASSUME NEW c \in Calls, Expire(c) PROVE WorkerInv'
  BY <1>6 DEF Expire, WorkerInv
<1>7. ASSUME NEW c \in Calls, HandlerStep(c), ~Shutdown(c) PROVE WorkerInv'
  <2>1. UNCHANGED <<stopped, guard, closed>>
    BY <1>7 DEF HandlerStep, Uncount, StartTask, DismissTask, StartInner, DismissInner,
       TaskReturns, TaskThrows, CompletionReturns, HandlerEscapes, EndTask
  <2>2. /\ stack # << >> /\ UNCHANGED <<kind, waiter>>
        /\ task[c] \in HandlerPoints
        /\ task' = [task EXCEPT ![c] = task'[c]]
        /\ \/ UNCHANGED <<call, stack, worker>>
           \/ /\ worker' = worker
              /\ call' = [call EXCEPT ![c] = IF @ = "inline" THEN AfterPost(c) ELSE @]
           \/ task'[c] = "escaped" /\ stack' = << >> /\ worker' = "unwinding" /\ call' = call
    BY <1>7, HandlerFrame DEF ids
  <2>3. \A d \in Calls : task[d] = "escaped" => task'[d] = "escaped"
    BY <2>2 DEF HandlerPoints
  <2>4. worker = "looping" /\ waiter /\ ~closed /\ ~stopped
    BY <2>2 DEF WorkerInv
  <2>5. call[c] = "inline" => kind[c] # "Wait"
    BY DEF Places, CallPlace
  <2> QED BY <2>1, <2>2, <2>3, <2>4, <2>5 DEF WorkerInv
<1>8. ASSUME NEW c \in Calls, Shutdown(c) PROVE WorkerInv'
  <2>1. stack # << >> /\ c = stack[1] /\ task[c] = "shutdown"
    BY <1>8 DEF Shutdown, At
  <2>2. call[c] # "inline"
    BY <2>1 DEF Places, CallPlace
  <2>3. Len(stack) = 1
    <3>1. Len(stack) \in Nat /\ Len(stack) >= 1
      BY <2>1
    <3>2. call[stack[1]] = "inline" <=> 1 < Len(stack)
      BY <3>1 DEF StackInv
    <3>3. ~(1 < Len(stack))
      BY <2>1, <2>2, <3>2
    <3>4. \A n \in Nat : n >= 1 /\ ~(1 < n) => n = 1
      OBVIOUS
    <3> QED BY <3>1, <3>3, <3>4, Zenon
  <2>4. stack' = << >>
    BY <1>8, <2>3 DEF Shutdown
  <2>5. worker = "looping" /\ ~closed
    BY <2>1 DEF WorkerInv
  <2>6. closed' /\ stopped' /\ UNCHANGED <<call, kind, worker, waiter>>
    BY <1>8, <2>5 DEF Shutdown
  <2> QED BY <2>4, <2>5, <2>6 DEF WorkerInv
<1> QED
  BY <1>1, <1>2, <1>3, <1>4, <1>5, <1>6, <1>7, <1>8 DEF WorkerStep

(* The inductive invariant.                                                *)
THEOREM Invariant == Spec => []IInv
<1>1. Init => IInv
  <2> SUFFICES ASSUME Init PROVE IInv
    OBVIOUS
  <2>1. TypeOK
    BY InitTyping
  <2>2. Places /\ QueueInv /\ OrderInv /\ StackInv
    BY DEF Init, Places, CallPlace, TaskPlace, SyncPlace, ClosePlace, LiveTask, Distinct,
       QueueInv, OrderInv, StackInv, ApiPoints
  <2>3. WorkerInv
    BY DEF Init, WorkerInv
  <2> QED BY <2>1, <2>2, <2>3 DEF IInv
<1>2. IInv /\ [Next]_vars => IInv'
  <2> SUFFICES ASSUME IInv, [Next]_vars PROVE IInv'
    OBVIOUS
  <2> USE DEF IInv
  <2>1. ASSUME NEW c \in Calls, ClientCalls(c) \/ WorkerCalls(c) \/ ApiStep(c)
        PROVE  IInv'
    BY <2>1, ApiTyping, ApiPlaces, ApiOrder, ApiStack, ApiWorker
  <2>2. CASE WorkerStep \/ \E c \in Calls : Expire(c)
    BY <2>2, WorkerTyping, WorkerPlaces, WorkerOrder, WorkerStack, WorkerWorker
  <2>3. CASE UNCHANGED vars
    BY <2>3 DEF vars, TypeOK, Places, CallPlace, TaskPlace, SyncPlace, ClosePlace,
       QueueInv, OrderInv, StackInv, WorkerInv
  <2> QED BY <2>1, <2>2, <2>3 DEF Next
<1> QED BY <1>1, <1>2, PTL DEF Spec

-----------------------------------------------------------------------------
(* count_ and the bound of the queue.                                      *)

(* A set of calls is finite, no larger than MaxCount, and no smaller than  *)
(* its subsets.                                                            *)
LEMMA CallSets ==
  ASSUME NEW S \in SUBSET Calls, NEW T \in SUBSET S
  PROVE  /\ IsFiniteSet(S) /\ Cardinality(S) \in 0 .. MaxCount
         /\ IsFiniteSet(T) /\ Cardinality(T) \in Nat /\ Cardinality(T) <= Cardinality(S)
<1>1. Cardinality(Calls) \in Nat /\ MaxCount \in Nat /\ Cardinality(Calls) <= MaxCount
  BY FS_CardinalityType, PipelineAssumption
<1>2. IsFiniteSet(S) /\ Cardinality(S) \in Nat /\ Cardinality(S) <= Cardinality(Calls)
  BY FS_Subset, FS_CardinalityType, PipelineAssumption
<1>3. IsFiniteSet(T) /\ Cardinality(T) \in Nat /\ Cardinality(T) <= Cardinality(S)
  BY <1>2, FS_Subset, FS_CardinalityType
<1> QED BY <1>1, <1>2, <1>3

(* The three steps that move the sum, and the rest that leave it alone.    *)
CountQuiet == count' = count /\ Held' = Held /\ Overdrawn' = Overdrawn /\ Accepted' = Accepted

CountTaken(c) ==
  /\ c \notin Held /\ Held' = Held \cup {c} /\ Overdrawn' = Overdrawn
  /\ count' = Inc(count)
  /\ Accepted' = Accepted \/ count' <= Capacity

CountGivenBack(c) ==
  /\ c \in Held /\ Held' = Held \ {c} /\ Overdrawn' = Overdrawn
  /\ count' = Dec(count)
  /\ Accepted' \subseteq Accepted

CountOverdrawn(c) ==
  /\ c \notin Overdrawn /\ Held' = Held /\ Overdrawn' = Overdrawn \cup {c}
  /\ count' = Dec(count)
  /\ Accepted' = Accepted

(* Each of the four kinds of step keeps the accounting and the bound.      *)
LEMMA CountStep ==
  ASSUME TypeOK, TypeOK', CountAccounting, QueueBound, NEW c,
         CountQuiet \/ CountTaken(c) \/ CountGivenBack(c) \/ CountOverdrawn(c)
  PROVE  CountAccounting' /\ QueueBound'
<1> DEFINE h == Cardinality(Held)
           l == Cardinality(Overdrawn)
           a == Cardinality(Accepted)
<1>1. /\ h \in 0 .. MaxCount /\ l \in 0 .. MaxCount /\ a \in Nat
      /\ h' \in 0 .. MaxCount /\ l' \in 0 .. MaxCount /\ a' \in Nat
      /\ a <= h /\ a' <= h'
      /\ MaxCount \in Nat /\ Capacity \in Nat
      /\ count \in 0 .. MaxCount /\ count' \in 0 .. MaxCount
  <2>1. /\ Held \subseteq Calls /\ Overdrawn \subseteq Calls /\ Accepted \subseteq Held
        /\ Held' \subseteq Calls /\ Overdrawn' \subseteq Calls /\ Accepted' \subseteq Held'
    BY DEF Held, Overdrawn, Accepted
  <2> QED BY <2>1, CallSets, PipelineAssumption DEF TypeOK
<1>2. /\ count + l = IF l <= h THEN h ELSE h + MaxCount + 1
      /\ a <= Capacity + l
  BY DEF CountAccounting, QueueBound
<1>3. /\ Held \subseteq Calls /\ Overdrawn \subseteq Calls /\ Accepted \subseteq Calls
  BY DEF Held, Overdrawn, Accepted
<1>4. SUFFICES /\ count' + l' = IF l' <= h' THEN h' ELSE h' + MaxCount + 1
               /\ a' <= Capacity + l'
  BY DEF CountAccounting, QueueBound
<1>5. CASE CountQuiet
  <2>1. count' = count /\ h' = h /\ l' = l /\ a' = a
    BY <1>5 DEF CountQuiet
  <2> QED BY <1>2, <2>1
<1>6. CASE CountTaken(c)
  <2>1. h' = h + 1 /\ l' = l
    BY <1>3, <1>6, CallSets, FS_AddElement DEF CountTaken
  <2>2. count' = Inc(count) /\ (a' = a \/ count' <= Capacity)
    BY <1>6 DEF CountTaken
  <2> HIDE DEF h, l, a
  <2> QED BY <1>1, <1>2, <2>1, <2>2 DEF Inc
<1>7. CASE CountGivenBack(c)
  <2>1. h' = h - 1 /\ l' = l
    BY <1>3, <1>7, CallSets, FS_RemoveElement DEF CountGivenBack
  <2>2. count' = Dec(count) /\ a' <= a
    BY <1>3, <1>7, CallSets, FS_Subset DEF CountGivenBack
  <2> HIDE DEF h, l, a
  <2> QED BY <1>1, <1>2, <2>1, <2>2 DEF Dec
<1>8. CASE CountOverdrawn(c)
  <2>1. l' = l + 1 /\ h' = h
    BY <1>3, <1>8, CallSets, FS_AddElement DEF CountOverdrawn
  <2>2. count' = Dec(count) /\ a' = a
    BY <1>8 DEF CountOverdrawn
  <2> HIDE DEF h, l, a
  <2> QED BY <1>1, <1>2, <2>1, <2>2 DEF Dec
<1> QED BY <1>5, <1>6, <1>7, <1>8

(* A step of a caller takes a slot, gives one back, or neither.            *)
LEMMA ApiCount ==
  ASSUME TypeOK, Places, NEW c \in Calls,
         ClientCalls(c) \/ WorkerCalls(c) \/ ApiStep(c)
  PROVE  CountQuiet \/ CountTaken(c) \/ CountGivenBack(c)
<1> USE DEF TypeOK, Held, Accepted, Overdrawn, ids, result, ioc, thread, flags
<1>1. call[c] \in BeforeHandler => task[c] = "none"
  BY DEF Places, CallPlace
<1>2. ASSUME NEW k \in Kinds, NEW b, Begin(c, k, b) PROVE CountQuiet
  <2>1. Entry(k) \notin {"over", "posting"} \/ k \in {"Token", "Raw"}
    BY DEF Entry, Kinds
  <2> QED BY <1>1, <1>2, <2>1 DEF Begin, BeforeHandler, CountedKinds, CountQuiet
<1>3. CASE ClientCalls(c) \/ WorkerCalls(c)
  BY <1>2, <1>3, PipelineAssumption DEF ClientCalls, WorkerCalls
<1>4. CASE DispatchCheck(c)
  BY <1>1, <1>4 DEF DispatchCheck, Places, CallPlace, BeforeHandler, CountQuiet, AfterPost
<1>5. CASE PostCheck(c)
  BY <1>1, <1>5 DEF PostCheck, BeforeHandler, CountQuiet, AfterPost
<1>6. CASE TakeSlot(c)
  <2>1. /\ kind[c] \in CountedKinds /\ task[c] = "none" /\ call[c] = "adding"
        /\ call'[c] \in {"over", "posting"}
    BY <1>1, <1>6 DEF TakeSlot, Places, CallPlace, BeforeHandler
  <2>2. c \notin Held /\ Held' = Held \cup {c} /\ Overdrawn' = Overdrawn /\ count' = Inc(count)
    BY <1>6, <2>1 DEF TakeSlot
  <2>3. CASE Inc(count) > Capacity
    <3>1. Accepted' = Accepted
      BY <1>6, <2>1, <2>3 DEF TakeSlot
    <3> QED BY <2>2, <3>1 DEF CountTaken
  <2>4. CASE ~(Inc(count) > Capacity)
    <3>1. Inc(count) <= Capacity
      BY <2>4, IncDecType, PipelineAssumption
    <3> QED BY <2>2, <3>1 DEF CountTaken
  <2> QED BY <2>3, <2>4
<1>7. CASE GiveBackSlot(c)
  BY <1>1, <1>7 DEF GiveBackSlot, Places, CallPlace, BeforeHandler, CountGivenBack
<1>8. CASE Enqueue(c)
  BY <1>1, <1>8 DEF Enqueue, BeforeHandler, CountQuiet, AfterPost
<1>9. CASE ClosePost(c)
  <2>1. kind[c] = "Close"
    BY <1>9 DEF ClosePost, Places, CallPlace
  <2> QED BY <1>1, <1>9, <2>1 DEF ClosePost, BeforeHandler, CountedKinds, CountQuiet
<1>10. CASE Arm(c)
  BY <1>1, <1>10 DEF Arm, BeforeHandler, CountQuiet
<1>11. CASE TimerCheck(c) \/ FutureReady(c) \/ CloseCheck(c) \/ SetClosing(c) \/ WaiterFree(c)
  BY <1>11 DEF TimerCheck, FutureReady, CloseCheck, SetClosing, WaiterFree, CountQuiet
<1> QED
  BY <1>3, <1>4, <1>5, <1>6, <1>7, <1>8, <1>9, <1>10, <1>11 DEF ApiStep

(* ExecTask_'s decrement gives a slot back or overdraws; no other step of  *)
(* the worker touches count_ or the sets it counts.                        *)
LEMMA WorkerCount ==
  ASSUME TypeOK, Places, QueueInv, WorkerStep \/ \E c \in Calls : Expire(c)
  PROVE  CountQuiet \/ \E c \in Calls : CountGivenBack(c) \/ CountOverdrawn(c)
<1> USE DEF TypeOK, Held, Accepted, Overdrawn, ids, result, ioc, thread, flags
<1>1. CASE RunLock \/ RunStart \/ RunFails \/ Exit
  BY <1>1 DEF RunLock, RunStart, RunFails, Exit, CountQuiet
<1>2. CASE Dequeue
  <2>1. Head(queue) \in Calls /\ task[Head(queue)] = "queued"
    BY <1>2 DEF Dequeue, QueueInv
  <2>2. /\ kind[Head(queue)] \in DecrementingKinds => FirstPoint(kind[Head(queue)]) = "entered"
        /\ FirstPoint(kind[Head(queue)]) = "entered" => kind[Head(queue)] \in DecrementingKinds
        /\ FirstPoint(kind[Head(queue)]) # "queued"
    BY <2>1 DEF FirstPoint, DecrementingKinds, CountedKinds, Kinds
  <2> QED BY <1>2, <2>1, <2>2 DEF Dequeue, DecrementingKinds, CountedKinds, CountQuiet
<1>3. ASSUME NEW c \in Calls, Expire(c) PROVE CountQuiet
  BY <1>3 DEF Expire, Places, TaskPlace, CountedKinds, CountQuiet
<1>4. ASSUME NEW c \in Calls, Uncount(c) PROVE CountGivenBack(c) \/ CountOverdrawn(c)
  <2>1. kind[c] \in CountedKinds \/ kind[c] = "Token"
    BY <1>4 DEF Uncount, At, Places, TaskPlace, DecrementingKinds
  <2>2. call[c] \notin {"over", "posting"}
    BY <1>4 DEF Uncount, At, Places, CallPlace, BeforeHandler
  <2> QED BY <1>4, <2>1, <2>2 DEF Uncount, At, CountedKinds, CountGivenBack, CountOverdrawn
<1>5. ASSUME NEW c \in Calls, HandlerStep(c), ~Uncount(c) PROVE CountQuiet
  <2> DEFINE Step == /\ count' = count
                     /\ task[c] \in {"check", "inner", "running", "completing", "shutdown"}
                     /\ task'[c] \in {"inner", "running", "completing", "done", "escaped"}
                     /\ task'[c] = "inner" => kind[c] \in WrappedKinds
  <2>5. Step
    <3>1. ASSUME NEW o, NEW p, EndTask(c, o, p) PROVE task'[c] \in {"completing", "done"} /\ count' = count
      BY <3>1 DEF EndTask
    <3>2. CASE StartTask(c)
      BY <3>2 DEF StartTask, At
    <3>3. CASE DismissTask(c) \/ DismissInner(c) \/ TaskReturns(c) \/ TaskThrows(c)
      BY <3>1, <3>3 DEF DismissTask, DismissInner, TaskReturns, TaskThrows, At
    <3>4. CASE StartInner(c)
      BY <3>4 DEF StartInner, At
    <3>5. CASE CompletionReturns(c)
      BY <3>5 DEF CompletionReturns, At
    <3>6. CASE HandlerEscapes(c)
      BY <3>6 DEF HandlerEscapes, At
    <3>7. CASE Shutdown(c)
      BY <3>7 DEF Shutdown, At
    <3> QED BY <1>5, <3>2, <3>3, <3>4, <3>5, <3>6, <3>7 DEF HandlerStep
  <2>1. kind' = kind /\ task' = [task EXCEPT ![c] = task'[c]]
    BY <1>5, HandlerFrame
  <2>2. \A d \in Calls : call[d] \in {"over", "posting"} <=> call'[d] \in {"over", "posting"}
    <3>1. \/ call' = call
          \/ call' = [call EXCEPT ![c] = IF @ = "inline" THEN AfterPost(c) ELSE @]
      BY <1>5, HandlerFrame
    <3> QED BY <3>1 DEF AfterPost, TypeOK
  <2>3. \A d \in Calls : call[d] = "over" <=> call'[d] = "over"
    <3>1. \/ call' = call
          \/ call' = [call EXCEPT ![c] = IF @ = "inline" THEN AfterPost(c) ELSE @]
      BY <1>5, HandlerFrame
    <3> QED BY <3>1 DEF AfterPost, TypeOK
  <2>4. kind[c] = "Token" => task[c] # "inner" /\ task[c] # "shutdown"
    BY DEF Places, TaskPlace, WrappedKinds
  <2> QED BY <2>1, <2>2, <2>3, <2>4, <2>5 DEF WrappedKinds, CountQuiet
<1> QED
  BY <1>1, <1>2, <1>3, <1>4, <1>5 DEF WorkerStep, HandlerStep

(* What is in count_, and what AddingTask makes of it: the bound needs the *)
(* accounting.                                                             *)
LEMMA Accounting == Spec => [](CountAccounting /\ QueueBound)
<1>1. Init => CountAccounting /\ QueueBound
  <2> SUFFICES ASSUME Init PROVE CountAccounting /\ QueueBound
    OBVIOUS
  <2>1. Held = {} /\ Overdrawn = {} /\ Accepted = {}
    BY DEF Init, Held, Overdrawn, Accepted
  <2>2. Cardinality({}) = 0
    BY FS_EmptySet
  <2> QED BY <2>1, <2>2, PipelineAssumption DEF Init, CountAccounting, QueueBound
<1>2. /\ CountAccounting /\ QueueBound
      /\ IInv /\ IInv' /\ [Next]_vars
      => CountAccounting' /\ QueueBound'
  <2> SUFFICES ASSUME CountAccounting, QueueBound, IInv, IInv', [Next]_vars
               PROVE  CountAccounting' /\ QueueBound'
    OBVIOUS
  <2> USE DEF IInv
  <2>1. CASE \E c \in Calls : ClientCalls(c) \/ WorkerCalls(c) \/ ApiStep(c)
    BY <2>1, ApiCount, CountStep
  <2>2. CASE WorkerStep \/ \E c \in Calls : Expire(c)
    BY <2>2, WorkerCount, CountStep
  <2>3. CASE UNCHANGED vars
    <3>1. CountQuiet
      BY <2>3 DEF vars, CountQuiet, Held, Overdrawn, Accepted
    <3> QED BY <3>1, CountStep
  <2> QED BY <2>1, <2>2, <2>3 DEF Next
<1> QED BY <1>1, <1>2, Invariant, PTL DEF Spec

(* count_ is the number of counted handlers outstanding, less the Token    *)
(* posts that ran, modulo 2^w.                                             *)
THEOREM CountCorrect == Spec => []CountAccounting
BY Accounting, PTL

(* AddingTask lets in no more posts than the capacity and what Token posts *)
(* have taken off count_.                                                  *)
THEOREM BoundCorrect == Spec => []QueueBound
BY Accounting, PTL

(* AddingTask's increment is the one step that turns a call down.          *)
LEMMA TurnedDown ==
  ASSUME IInv, [Next]_vars, NEW c \in Calls, call[c] # "over", call'[c] = "over"
  PROVE  TakeSlot(c)
<1> USE DEF IInv, TypeOK, ids, result, ioc, thread, flags
<1>1. ASSUME NEW d \in Calls, ClientCalls(d) \/ WorkerCalls(d) PROVE FALSE
  <2>1. PICK k \in Kinds : call' = [call EXCEPT ![d] = Entry(k)]
    BY <1>1, PipelineAssumption DEF ClientCalls, WorkerCalls, Begin
  <2>2. Entry(k) # "over"
    BY DEF Entry, Kinds
  <2> QED BY <2>1, <2>2
<1>2. ASSUME NEW d \in Calls, ApiStep(d), ~TakeSlot(d) PROVE FALSE
  BY <1>2 DEF ApiStep, DispatchCheck, PostCheck, GiveBackSlot, Enqueue, TimerCheck, Arm,
     FutureReady, CloseCheck, ClosePost, SetClosing, WaiterFree, AfterPost
<1>3. ASSUME NEW d \in Calls, HandlerStep(d) PROVE FALSE
  BY <1>3, HandlerFrame DEF AfterPost
<1>4. CASE WorkerStep \/ (\E d \in Calls : Expire(d)) \/ UNCHANGED vars
  BY <1>3, <1>4 DEF WorkerStep, RunLock, RunStart, RunFails, Dequeue, Exit, Expire, vars
<1>5. ASSUME NEW d \in Calls, TakeSlot(d), d # c PROVE FALSE
  BY <1>5 DEF TakeSlot
<1> QED BY <1>1, <1>2, <1>4, <1>5 DEF Next

(* As long as no Token post ran, a call is turned down only if the queue   *)
(* is full or another call is being turned down: count_ is then the number *)
(* of calls that hold an increment, and each of them is one or the other.  *)
THEOREM RefusalCorrect == Spec => RefusedWhenFull
<1>1. IInv /\ CountAccounting /\ [Next]_vars => [Overdrawn = {} => JustRefusals]_vars
  <2> SUFFICES ASSUME IInv, CountAccounting, [Next]_vars, Overdrawn = {},
                      NEW c \in Calls, call[c] # "over", call'[c] = "over",
                      \A d \in Calls : call[d] # "over"
               PROVE  Cardinality(Accepted) >= Capacity
    BY DEF JustRefusals
  <2>1. Accepted = Held
    BY DEF Accepted, Held
  <2>2. Cardinality(Held) \in 0 .. MaxCount /\ Cardinality(Overdrawn) = 0
    <3>1. Held \subseteq Calls
      BY DEF Held
    <3> QED BY <3>1, CallSets, FS_EmptySet
  <2>3. count = Cardinality(Held)
    <3>1. PICK held \in Nat, less \in Nat : /\ held = Cardinality(Held) /\ less = Cardinality(Overdrawn)
                                          /\ less = 0
      BY <2>2, PipelineAssumption
    <3>2. count + less = IF less <= held THEN held ELSE held + MaxCount + 1
      BY <3>1 DEF CountAccounting
    <3>3. count \in Nat
      BY PipelineAssumption DEF IInv, TypeOK
    <3> QED BY <3>1, <3>2, <3>3
  <2>4. Inc(count) > Capacity
    <3>1. TakeSlot(c)
      BY TurnedDown
    <3> QED BY <3>1 DEF TakeSlot, IInv, TypeOK
  <2> QED BY <2>1, <2>2, <2>3, <2>4, PipelineAssumption DEF Inc
<1> QED BY <1>1, Invariant, Accounting, PTL DEF Spec, RefusedWhenFull

-----------------------------------------------------------------------------
(* Order of the queue.                                                     *)

(* No step lets a handler out of the queue ahead of an earlier one.        *)
LEMMA FifoStep ==
  ASSUME IInv, Fifo, [Next]_vars
  PROVE  Fifo'
<1> USE DEF IInv, TypeOK, ids, result, ioc, thread, flags
<1>1. SUFFICES ASSUME NEW x \in Calls, NEW y \in Calls,
                      y \in before'[x], task'[x] \notin {"none", "armed", "queued"},
                      ~(kind'[x] \in {"Dispatch", "Sync"} /\ by'[x] = "worker")
               PROVE  task'[y] # "queued"
  BY DEF Fifo
<1>2. ASSUME y \in before[x], kind'[x] = kind[x], by'[x] = by[x],
             task[x] \notin {"none", "armed", "queued"},
             task'[y] = "queued" => task[y] \in {"none", "armed", "queued"}
      PROVE  task'[y] # "queued"
  BY <1>1, <1>2 DEF Fifo, OrderInv
<1>3. ASSUME NEW c \in Calls, ClientCalls(c) \/ WorkerCalls(c) PROVE task'[y] # "queued"
  <2>1. x # c
    BY <1>1, <1>3 DEF ClientCalls, WorkerCalls, Begin, Places, CallPlace, BeforeHandler
  <2> QED BY <1>1, <1>2, <1>3, <2>1 DEF ClientCalls, WorkerCalls, Begin
<1>4. ASSUME NEW c \in Calls, DispatchCheck(c) PROVE task'[y] # "queued"
  <2>1. kind[c] \in {"Dispatch", "Sync"}
    BY <1>4 DEF DispatchCheck, Places, CallPlace
  <2>2. x # c \/ task' = task
    BY <1>1, <1>4, <2>1 DEF DispatchCheck
  <2> QED BY <1>1, <1>2, <1>4, <2>2 DEF DispatchCheck
<1>5. ASSUME NEW c \in Calls, Enqueue(c) \/ ClosePost(c) \/ Arm(c) \/ Expire(c)
      PROVE  task'[y] # "queued"
  <2>1. task[c] \in {"none", "armed"}
    BY <1>5 DEF Enqueue, ClosePost, Arm, Expire, Places, CallPlace, BeforeHandler
  <2>2. x # c
    BY <1>1, <1>5 DEF Enqueue, ClosePost, Arm, Expire
  <2> QED BY <1>1, <1>2, <1>5, <2>1, <2>2 DEF Enqueue, ClosePost, Arm, Expire
<1>6. ASSUME NEW c \in Calls,
             PostCheck(c) \/ TakeSlot(c) \/ GiveBackSlot(c) \/ TimerCheck(c) \/ FutureReady(c)
             \/ CloseCheck(c) \/ SetClosing(c) \/ WaiterFree(c)
      PROVE  task'[y] # "queued"
  BY <1>1, <1>2, <1>6 DEF PostCheck, TakeSlot, GiveBackSlot, TimerCheck, FutureReady,
     CloseCheck, SetClosing, WaiterFree
<1>7. CASE RunLock \/ RunStart \/ RunFails \/ Exit \/ UNCHANGED vars
  BY <1>1, <1>2, <1>7 DEF RunLock, RunStart, RunFails, Exit, vars
<1>8. CASE Dequeue
  <2> DEFINE c == Head(queue)
  <2>1. /\ c \in Calls /\ task[c] = "queued" /\ UNCHANGED <<kind, by, before>>
        /\ task' = [task EXCEPT ![c] = FirstPoint(kind[c])]
        /\ queue # << >>
    BY <1>8 DEF Dequeue, QueueInv
  <2>5. Len(queue) \in Nat \ {0} /\ queue[1] = c
    BY <2>1
  <2>2. FirstPoint(kind[c]) # "queued"
    BY DEF FirstPoint
  <2> HIDE DEF c
  <2>3. CASE x = c
    <3>1. SUFFICES ASSUME task'[y] = "queued" PROVE FALSE
      OBVIOUS
    <3>2. y # c /\ task[y] = "queued" /\ y \in before[c]
      BY <1>1, <2>1, <2>2, <2>3, <3>1
    <3>3. PICK i \in 1 .. Len(queue) : queue[i] = y
      BY <3>2 DEF QueueInv
    <3>4. i < 1
      BY <2>1, <2>5, <3>2, <3>3 DEF OrderInv
    <3> QED BY <3>3, <3>4
  <2>4. CASE x # c
    BY <1>1, <1>2, <2>1, <2>2, <2>4
  <2> QED BY <2>3, <2>4
<1>9. ASSUME NEW c \in Calls, HandlerStep(c) PROVE task'[y] # "queued"
  <2>1. /\ task[c] \in HandlerPoints /\ UNCHANGED <<kind, by, before>>
        /\ task' = [task EXCEPT ![c] = task'[c]]
        /\ task'[c] # "queued"
    BY <1>9, HandlerFrame DEF HandlerPoints
  <2> QED BY <1>1, <1>2, <2>1 DEF HandlerPoints
<1> QED
  BY <1>3, <1>4, <1>5, <1>6, <1>7, <1>8, <1>9 DEF Next, ApiStep, WorkerStep

(* Handlers leave the queue in the order of their calls.                   *)
THEOREM FifoCorrect == Spec => []Fifo
<1>1. Init => Fifo
  BY DEF Init, Fifo
<1>2. Fifo /\ IInv /\ [Next]_vars => Fifo'
  BY FifoStep
<1> QED BY <1>1, <1>2, Invariant, PTL DEF Spec

-----------------------------------------------------------------------------
(* What follows from the inductive invariant.                              *)

(* The promise of PostSynchronously outlives every use of it.              *)
THEOREM PromiseSafe == Spec => []PromiseAlive
<1>1. IInv => PromiseAlive
  BY DEF IInv, Places, SyncPlace, PromiseAlive, LiveTask
<1> QED BY <1>1, Invariant, PTL

(* A caller of PostSynchronously is told the truth while the pipeline is   *)
(* not closing.                                                            *)
THEOREM SyncReportCorrect == Spec => []SyncReport
<1>1. IInv => SyncReport
  BY DEF IInv, TypeOK, Places, SyncPlace, SyncReport
<1> QED BY <1>1, Invariant, PTL

(* A task's exception never ends the worker.                               *)
THEOREM ThrowsContained == Spec => []ThrowContained
<1>1. IInv => ThrowContained
  BY DEF IInv, Places, TaskPlace, WorkerInv, ThrowContained
<1> QED BY <1>1, Invariant, PTL

(* WaitUntilClosed returns after the worker is done.                       *)
THEOREM WaitCorrect == Spec => []WaitReturnsAfterExit
<1>1. IInv => WaitReturnsAfterExit
  BY DEF IInv, WorkerInv, WaitReturnsAfterExit
<1> QED BY <1>1, Invariant, PTL

(* Once closed_ is set the stack is empty and stays so: nothing starts.    *)
THEOREM NoStartCorrect == Spec => NoStartAfterClosed
<1>1. IInv /\ [Next]_vars =>
        [closed => \A c \in Calls : task'[c] = "running" => task[c] = "running"]_vars
  <2> SUFFICES ASSUME IInv, Next, closed, NEW c \in Calls, task'[c] = "running"
               PROVE  task[c] = "running"
    OBVIOUS
  <2> USE DEF IInv, TypeOK, ids, result, ioc, thread, flags
  <2>1. stack = << >> /\ stopped
    BY DEF WorkerInv
  <2>2. ~Dequeue /\ \A d \in Calls : ~HandlerStep(d) /\ ~Expire(d)
    BY <2>1, HandlerFrame DEF Dequeue, Expire
  <2>3. ASSUME NEW d \in Calls, ClientCalls(d) \/ WorkerCalls(d) \/ ApiStep(d)
        PROVE  task[c] = "running"
    <3>1. c = d => task'[c] = task[c] \/ task'[c] \in {"check", "queued", "armed"}
      <4>1. CASE ClientCalls(d) \/ WorkerCalls(d)
        BY <4>1 DEF ClientCalls, WorkerCalls, Begin
      <4>2. CASE Enqueue(d) \/ ClosePost(d) \/ Arm(d)
        <5>1. task' = [task EXCEPT ![d] = "queued"] \/ task' = [task EXCEPT ![d] = "armed"]
          BY <4>2, Zenon DEF Enqueue, ClosePost, Arm
        <5>2. task \in [Calls -> TaskPoints]
          OBVIOUS
        <5> HIDE DEF IInv, TypeOK
        <5>3. c = d => task'[c] \in {"queued", "armed"}
          BY <5>1, <5>2
        <5> QED BY <5>3
      <4>3. CASE DispatchCheck(d)
        BY <4>3 DEF DispatchCheck
      <4>4. CASE \/ PostCheck(d) \/ TakeSlot(d) \/ GiveBackSlot(d) \/ TimerCheck(d)
                 \/ FutureReady(d) \/ CloseCheck(d) \/ SetClosing(d) \/ WaiterFree(d)
        BY <4>4, Zenon DEF PostCheck, TakeSlot, GiveBackSlot, TimerCheck, FutureReady,
           CloseCheck, SetClosing, WaiterFree
      <4> QED BY <2>3, <4>1, <4>2, <4>3, <4>4 DEF ApiStep
    <3>2. c # d => task'[c] = task[c]
      <4>1. CASE ClientCalls(d) \/ WorkerCalls(d)
        BY <4>1 DEF ClientCalls, WorkerCalls, Begin
      <4>2. CASE Enqueue(d) \/ ClosePost(d) \/ Arm(d)
        BY <4>2 DEF Enqueue, ClosePost, Arm
      <4>3. CASE DispatchCheck(d)
        BY <4>3 DEF DispatchCheck
      <4>4. CASE \/ PostCheck(d) \/ TakeSlot(d) \/ GiveBackSlot(d) \/ TimerCheck(d)
                 \/ FutureReady(d) \/ CloseCheck(d) \/ SetClosing(d) \/ WaiterFree(d)
        BY <4>4, Zenon DEF PostCheck, TakeSlot, GiveBackSlot, TimerCheck, FutureReady,
           CloseCheck, SetClosing, WaiterFree
      <4> QED BY <2>3, <4>1, <4>2, <4>3, <4>4 DEF ApiStep
    <3> QED BY <3>1, <3>2
  <2>4. CASE RunLock \/ RunStart \/ RunFails \/ Exit
    BY <2>4 DEF RunLock, RunStart, RunFails, Exit
  <2> QED BY <2>2, <2>3, <2>4 DEF Next, WorkerStep
<1> QED BY <1>1, Invariant, PTL DEF Spec, NoStartAfterClosed

(* A handler that is done stays done.                                      *)
LEMMA DoneStays ==
  ASSUME IInv, [Next]_vars, NEW x \in Calls, task[x] = "done"
  PROVE  task'[x] = "done" /\ kind'[x] = kind[x]
<1> USE DEF IInv, TypeOK, ids, result, ioc, thread, flags
<1>1. call[x] \notin BeforeHandler
  BY DEF Places, CallPlace, BeforeHandler
<1>2. ASSUME NEW c \in Calls, ClientCalls(c) \/ WorkerCalls(c) \/ DispatchCheck(c)
             \/ Enqueue(c) \/ ClosePost(c) \/ Arm(c) \/ Expire(c)
      PROVE  task'[x] = "done" /\ kind'[x] = kind[x]
  BY <1>1, <1>2 DEF ClientCalls, WorkerCalls, Begin, DispatchCheck, Enqueue, ClosePost, Arm,
     Expire, BeforeHandler
<1>3. ASSUME NEW c \in Calls,
             PostCheck(c) \/ TakeSlot(c) \/ GiveBackSlot(c) \/ TimerCheck(c) \/ FutureReady(c)
             \/ CloseCheck(c) \/ SetClosing(c) \/ WaiterFree(c)
      PROVE  task'[x] = "done" /\ kind'[x] = kind[x]
  BY <1>3 DEF PostCheck, TakeSlot, GiveBackSlot, TimerCheck, FutureReady, CloseCheck,
     SetClosing, WaiterFree
<1>4. CASE RunLock \/ RunStart \/ RunFails \/ Exit \/ UNCHANGED vars
  BY <1>4 DEF RunLock, RunStart, RunFails, Exit, vars
<1>5. CASE Dequeue
  <2>1. Head(queue) \in Calls /\ task[Head(queue)] = "queued"
    BY <1>5 DEF Dequeue, QueueInv
  <2> QED BY <1>5, <2>1 DEF Dequeue
<1>6. ASSUME NEW c \in Calls, HandlerStep(c)
      PROVE  task'[x] = "done" /\ kind'[x] = kind[x]
  BY <1>6, HandlerFrame DEF HandlerPoints
<1> QED
  BY <1>2, <1>3, <1>4, <1>5, <1>6 DEF Next, ApiStep, WorkerStep

(* closed_ was set by the handler of a Close() call.                       *)
CloseRan == closed => \E c \in Calls : kind[c] = "Close" /\ task[c] = "done"

(* closed_ is set before closing_ only while a Close() call is between its *)
(* post and its store.                                                     *)
THEOREM CloseOrder == Spec => []ClosedBeforeClosing
<1>1. Init => CloseRan
  BY DEF Init, CloseRan
<1>2. CloseRan /\ IInv /\ [Next]_vars => CloseRan'
  <2> SUFFICES ASSUME CloseRan, IInv, [Next]_vars PROVE CloseRan'
    OBVIOUS
  <2>1. CASE closed' = closed
    BY <2>1, DoneStays DEF CloseRan
  <2>2. CASE closed' # closed
    <3>1. PICK c \in Calls : Shutdown(c)
      BY <2>2 DEF Next, vars, ClientCalls, WorkerCalls, Begin, ApiStep, DispatchCheck, PostCheck,
         TakeSlot, GiveBackSlot, Enqueue, TimerCheck, Arm, FutureReady, CloseCheck, ClosePost,
         SetClosing, WaiterFree, Expire, WorkerStep, RunLock, RunStart, RunFails, Dequeue, Exit,
         HandlerStep, Uncount, StartTask, DismissTask, StartInner, DismissInner, TaskReturns,
         TaskThrows, CompletionReturns, HandlerEscapes, EndTask, ids, result, ioc, thread, flags
    <3>2. task'[c] = "done" /\ kind'[c] = "Close"
      BY <3>1 DEF Shutdown, At, IInv, TypeOK, Places, TaskPlace, ids
    <3> QED BY <3>2 DEF CloseRan
  <2> QED BY <2>1, <2>2
<1>3. IInv /\ CloseRan => ClosedBeforeClosing
  BY DEF IInv, Places, ClosePlace, CloseRan, ClosedBeforeClosing
<1> QED BY <1>1, <1>2, <1>3, Invariant, PTL DEF Spec

-----------------------------------------------------------------------------
(* A pipeline implements the task sequencer, for any number of calls.      *)

(* A handler no one has queued or run is new to the sequencer.             *)
LEMMA NewIsFresh ==
  ASSUME IInv, NEW c \in Calls, task[c] \in {"none", "armed"}
  PROVE  Sequencer!Fresh(c)
<1>1. \A i \in 1 .. Len(queue) : queue[i] # c
  BY DEF IInv, QueueInv
<1>2. \A i \in 1 .. Len(stack) : stack[i] # c
  BY DEF IInv, StackInv
<1> QED BY <1>1, <1>2 DEF Sequencer!Fresh, Over

(* Steps the sequencer does not see.                                       *)
LEMMA QuietStep ==
  ASSUME queue' = queue, stack' = stack, closed' = closed, Gone' = Gone,
         \A c \in Calls : task[c] \in {"done", "escaped"} <=> task'[c] \in {"done", "escaped"}
  PROVE  UNCHANGED Sequencer!sequencer
BY DEF Sequencer!sequencer, Over

(* A step of a caller adds a handler to the line, calls one inline, or is  *)
(* not seen.                                                               *)
LEMMA ApiRefines ==
  ASSUME IInv, NEW c \in Calls,
         ClientCalls(c) \/ WorkerCalls(c) \/ ApiStep(c)
  PROVE  [Sequencer!SequencerNext]_(Sequencer!sequencer)
<1> USE DEF ids, result, ioc, thread, flags
<1>1. CASE ClientCalls(c) \/ WorkerCalls(c)
  BY <1>1, QuietStep DEF ClientCalls, WorkerCalls, Begin, Gone
<1>2. CASE Enqueue(c) \/ ClosePost(c)
  <2>1. task[c] = "none"
    BY <1>2 DEF Enqueue, ClosePost, IInv, Places, CallPlace, BeforeHandler
  <2>2. /\ queue' = Append(queue, c) /\ stack' = stack /\ closed' = closed /\ worker' = worker
        /\ task' = [task EXCEPT ![c] = "queued"]
    BY <1>2 DEF Enqueue, ClosePost
  <2>3. Over' = Over
    BY <2>1, <2>2 DEF Over, IInv, TypeOK
  <2>4. Sequencer!Accept(c)
    BY <2>1, <2>2, <2>3, NewIsFresh DEF Sequencer!Accept, Gone
  <2> QED BY <2>4 DEF Sequencer!SequencerNext
<1>3. CASE DispatchCheck(c)
  <2>1. task[c] = "none" /\ call[c] \in ApiPoints
    BY <1>3 DEF DispatchCheck, IInv, Places, CallPlace, BeforeHandler, ApiPoints
  <2>2. CASE stack' = stack
    <3>1. UNCHANGED <<task, queue, closed, worker>>
      <4>1. stack \in Seq(Calls) /\ <<c>> \o stack # stack
        <5>1. stack \in Seq(Calls)
          BY DEF IInv, TypeOK
        <5>2. Len(<<c>> \o stack) # Len(stack)
          BY <5>1
        <5> QED BY <5>1, <5>2
      <4> QED BY <1>3, <2>2, <4>1 DEF DispatchCheck
    <3> QED BY <2>2, <3>1, QuietStep DEF Gone
  <2>3. CASE stack' # stack
    <3>1. /\ stack' = <<c>> \o stack /\ task' = [task EXCEPT ![c] = "check"]
          /\ by[c] = "worker"
          /\ UNCHANGED <<queue, closed, worker>>
      BY <1>3, <2>3 DEF DispatchCheck
    <3>2. stack # << >>
      BY <2>1, <3>1 DEF IInv, StackInv
    <3>3. Over' = Over
      BY <2>1, <3>1 DEF Over, IInv, TypeOK
    <3>4. Sequencer!CallInline(c)
      BY <2>1, <3>1, <3>2, <3>3, NewIsFresh DEF Sequencer!CallInline, Gone
    <3> QED BY <3>4 DEF Sequencer!SequencerNext
  <2> QED BY <2>2, <2>3
<1>4. CASE Arm(c)
  <2>1. task[c] = "none"
    BY <1>4 DEF Arm, IInv, Places, CallPlace, BeforeHandler
  <2> QED BY <1>4, <2>1, QuietStep DEF Arm, Gone, IInv, TypeOK
<1>5. CASE PostCheck(c) \/ TakeSlot(c) \/ GiveBackSlot(c) \/ TimerCheck(c) \/ FutureReady(c)
           \/ CloseCheck(c) \/ SetClosing(c) \/ WaiterFree(c)
  BY <1>5, QuietStep DEF PostCheck, TakeSlot, GiveBackSlot, TimerCheck, FutureReady,
     CloseCheck, SetClosing, WaiterFree, Gone
<1> QED
  BY <1>1, <1>2, <1>3, <1>4, <1>5 DEF ApiStep

(* A step of a handler finishes it, shuts or breaks the sequencer, or is   *)
(* not seen.                                                               *)
LEMMA HandlerRefines ==
  ASSUME IInv, NEW c \in Calls, HandlerStep(c)
  PROVE  [Sequencer!SequencerNext]_(Sequencer!sequencer)
<1> USE DEF ids, result, ioc, thread, flags
<1>1. /\ stack # << >> /\ c = Head(stack) /\ task[c] \in HandlerPoints
      /\ task' = [task EXCEPT ![c] = task'[c]]
      /\ queue' = queue
      /\ \/ task'[c] \in HandlerPoints /\ UNCHANGED <<call, stack, worker>>
         \/ task'[c] = "done" /\ stack' = Tail(stack) /\ worker' = worker
         \/ task'[c] = "escaped" /\ stack' = << >> /\ worker' = "unwinding"
  BY HandlerFrame DEF IInv
<1>2. task \in [Calls -> TaskPoints] /\ stack \in Seq(Calls)
  BY DEF IInv, TypeOK
<1>3. c \notin Over /\ worker = "looping" /\ ~closed
  BY <1>1 DEF Over, HandlerPoints, IInv, WorkerInv
<1>4. task'[c] \in {"done", "escaped"} => Over' = Over \cup {c}
  BY <1>1, <1>2 DEF Over
<1>5. call[c] # "inline" => Len(stack) = 1 /\ c = stack[1]
  <2>1. Len(stack) \in Nat \ {0} /\ Head(stack) = stack[1] /\ 1 \in 1 .. Len(stack)
    BY <1>1, <1>2
  <2>2. call[stack[1]] # "inline" => ~(1 < Len(stack))
    BY <2>1 DEF IInv, StackInv
  <2>3. \A n \in Nat \ {0} : ~(1 < n) => n = 1
    OBVIOUS
  <2>4. c = stack[1]
    BY <1>1, <2>1
  <2> QED BY <2>1, <2>2, <2>3, <2>4, Zenon
<1>6. CASE Shutdown(c)
  <2>1. call[c] # "inline"
    BY <1>6 DEF Shutdown, At, IInv, Places, CallPlace
  <2>2. closed' = TRUE /\ task'[c] = "done" /\ stack' = Tail(stack) /\ worker' = worker
    BY <1>2, <1>6 DEF Shutdown
  <2>3. stack' = << >>
    <3>1. Len(stack) = 1
      BY <1>5, <2>1
    <3>2. Tail(stack) \in Seq(Calls) /\ Len(Tail(stack)) = 0
      BY <1>1, <1>2, <3>1
    <3> QED BY <2>2, <3>2
  <2>4. Sequencer!Shut
    BY <1>1, <1>3, <1>4, <1>5, <2>1, <2>2, <2>3 DEF Sequencer!Shut, Gone
  <2> QED BY <2>4 DEF Sequencer!SequencerNext
<1>7. CASE HandlerEscapes(c)
  <2>1. call[c] # "inline"
    <3>1. kind[c] \notin {"Dispatch", "Sync"}
      BY <1>7 DEF HandlerEscapes, At, IInv, Places, TaskPlace, TokenKinds
    <3> QED BY <3>1 DEF IInv, Places, CallPlace
  <2>2. closed' = closed /\ task'[c] = "escaped" /\ stack' = << >> /\ worker' = "unwinding"
    BY <1>2, <1>7 DEF HandlerEscapes
  <2>3. Sequencer!Break
    BY <1>1, <1>3, <1>4, <1>5, <2>1, <2>2 DEF Sequencer!Break, Gone
  <2> QED BY <2>3 DEF Sequencer!SequencerNext
<1>8. CASE ~Shutdown(c) /\ ~HandlerEscapes(c)
  <2>1. closed' = closed /\ worker' = worker
    BY <1>8 DEF HandlerStep, Uncount, StartTask, DismissTask, StartInner, DismissInner,
       TaskReturns, TaskThrows, CompletionReturns, EndTask
  <2>2. CASE task'[c] \in HandlerPoints
    BY <1>1, <1>2, <2>1, <2>2, QuietStep DEF HandlerPoints, Gone
  <2>3. CASE task'[c] = "done"
    <3>1. Sequencer!Finish
      BY <1>1, <1>4, <2>1, <2>3 DEF Sequencer!Finish, Gone, HandlerPoints
    <3> QED BY <3>1 DEF Sequencer!SequencerNext
  <2> QED BY <1>1, <1>3, <2>1, <2>2, <2>3
<1> QED BY <1>6, <1>7, <1>8

(* A step of the worker or of a timer is a step of the sequencer.          *)
LEMMA WorkerRefines ==
  ASSUME IInv, WorkerStep \/ \E c \in Calls : Expire(c)
  PROVE  [Sequencer!SequencerNext]_(Sequencer!sequencer)
<1> USE DEF ids, result, ioc, thread, flags
<1>1. CASE RunLock \/ RunStart \/ RunFails
  BY <1>1, QuietStep DEF RunLock, RunStart, RunFails, Gone
<1>2. CASE Exit
  <2>1. UNCHANGED <<task, queue, stack, closed>> /\ worker' = "exited"
    BY <1>2 DEF Exit
  <2>2. CASE worker = "unwinding"
    BY <2>1, <2>2, QuietStep DEF Gone
  <2>3. CASE worker # "unwinding"
    <3>1. stack = << >> /\ worker = "looping" /\ closed
      BY <1>2, <2>3 DEF Exit, OutOfWork, IInv, WorkerInv
    <3>2. Sequencer!Leave
      BY <2>1, <3>1 DEF Sequencer!Leave, Gone, Over
    <3> QED BY <3>2 DEF Sequencer!SequencerNext
  <2> QED BY <2>2, <2>3
<1>3. CASE Dequeue
  <2> DEFINE c == Head(queue)
  <2>1. /\ c \in Calls /\ task[c] = "queued"
        /\ worker = "looping" /\ ~stopped /\ stack = << >> /\ queue # << >>
        /\ task' = [task EXCEPT ![c] = FirstPoint(kind[c])]
        /\ stack' = <<c>> /\ queue' = Tail(queue)
        /\ UNCHANGED <<closed, worker>>
    BY <1>3 DEF Dequeue, IInv, QueueInv, TypeOK
  <2>2. FirstPoint(kind[c]) \notin {"done", "escaped"}
    BY DEF FirstPoint
  <2>3. Over' = Over
    BY <2>1, <2>2 DEF Over, IInv, TypeOK
  <2>4. Sequencer!Start
    BY <2>1, <2>3 DEF Sequencer!Start, Gone, IInv, WorkerInv
  <2> QED BY <2>4 DEF Sequencer!SequencerNext
<1>4. ASSUME NEW c \in Calls, Expire(c)
      PROVE  [Sequencer!SequencerNext]_(Sequencer!sequencer)
  <2>1. /\ task[c] = "armed" /\ task' = [task EXCEPT ![c] = "queued"]
        /\ queue' = Append(queue, c) /\ UNCHANGED <<stack, closed, worker>>
    BY <1>4 DEF Expire
  <2>2. Over' = Over
    BY <2>1 DEF Over, IInv, TypeOK
  <2>3. Sequencer!Accept(c)
    BY <2>1, <2>2, NewIsFresh DEF Sequencer!Accept, Gone
  <2> QED BY <2>3 DEF Sequencer!SequencerNext
<1>5. ASSUME NEW c \in Calls, HandlerStep(c)
      PROVE  [Sequencer!SequencerNext]_(Sequencer!sequencer)
  BY <1>5, HandlerRefines
<1> QED BY <1>1, <1>2, <1>3, <1>4, <1>5 DEF WorkerStep

(* Every behaviour of a pipeline is one of a task sequencer: one handler   *)
(* at a time, each at most once, in the order of the queue, none after     *)
(* closed_ is set.                                                         *)
THEOREM PipelineIsSequencer == Spec => ImplementsSequencer
<1>1. Init => Sequencer!SequencerInit
  BY DEF Init, Sequencer!SequencerInit, Over, Gone
<1>2. IInv /\ [Next]_vars => [Sequencer!SequencerNext]_(Sequencer!sequencer)
  <2> SUFFICES ASSUME IInv, [Next]_vars
               PROVE  [Sequencer!SequencerNext]_(Sequencer!sequencer)
    OBVIOUS
  <2>1. CASE \E c \in Calls : ClientCalls(c) \/ WorkerCalls(c) \/ ApiStep(c)
    BY <2>1, ApiRefines
  <2>2. CASE WorkerStep \/ \E c \in Calls : Expire(c)
    BY <2>2, WorkerRefines
  <2>3. CASE UNCHANGED vars
    BY <2>3 DEF vars, Sequencer!sequencer, Over, Gone
  <2> QED BY <2>1, <2>2, <2>3 DEF Next
<1> QED BY <1>1, <1>2, Invariant, PTL DEF Spec, ImplementsSequencer, Sequencer!SequencerSpec
=============================================================================
