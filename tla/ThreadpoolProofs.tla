-------------------------- MODULE ThreadpoolProofs --------------------------
(* Theorems about Threadpool, for any number of calls and of pipelines.    *)
EXTENDS Threadpool, TLAPS, FiniteSetTheorems, Quotients

-----------------------------------------------------------------------------
(* The invariant.                                                          *)

(* The loop of the constructor ends with its last pipeline.                *)
TypeInv == TypeOK /\ (pool = "building" => built < capacity)

(* The function a call is in, and what it has done there.                  *)
CallInv(c) ==
  /\ pc[c] = "idle" => kind[c] = "none"
  /\ pc[c] = "pick" => kind[c] \in {"Post", "PostWithTimer", "GetAnyPipeline"}
  /\ pc[c] \in {"post", "adding"} => IsTask(c)
  /\ pc[c] \in {"close", "closing", "marking"} => kind[c] \in {"Close", "Destroy"}
  /\ pc[c] \in {"lock", "joining"} => kind[c] \in {"WaitUntilClosed", "Destroy"}
  /\ pc[c] = "marking" => at[c] < capacity
  /\ pc[c] \in {"idle", "close", "lock"} => at[c] = 0
  /\ pc[c] \in {"idle", "pick"} => target[c] = Nobody
  /\ pc[c] \in {"post", "adding"} \/ job[c] # "none" => target[c] \in Pipelines
  /\ job[c] # "none" => IsTask(c) /\ pc[c] \in {"returned", "threw"}

CallsInv == \A c \in Calls : CallInv(c)

(* A close that has posted its shutdown handler to pipeline p, if it had   *)
(* to: it is past p in its loop, or past the loop.                         *)
PastClose(c, p) ==
  /\ kind[c] \in {"Close", "Destroy"}
  /\ \/ pc[c] = "marking" /\ p <= at[c]
     \/ pc[c] = "closing" /\ p < at[c]
     \/ pc[c] \in {"lock", "joining", "returned"}

(* A handler of pipeline p: a task whose fate is one of these, or the      *)
(* shutdown handler of a close.                                            *)
HandlerOf(c, p, fates) ==
  IF IsTask(c) THEN target[c] = p /\ job[c] \in fates ELSE PastClose(c, p)

(* Each handler of p is in one place: waiting, being executed or over.     *)
LineInv(p) ==
  /\ \A i \in 1 .. Len(line[p]) :
       /\ HandlerOf(line[p][i], p, {"queued"})
       /\ line[p][i] \notin over[p]
  /\ \A i, j \in 1 .. Len(line[p]) : line[p][i] = line[p][j] => i = j

NestInv(p) ==
  nest[p] # << >> =>
    /\ nest[p] = <<Head(nest[p])>>
    /\ HandlerOf(Head(nest[p]), p, {"started", "running"})
    /\ Head(nest[p]) \notin over[p]
    /\ \A i \in 1 .. Len(line[p]) : line[p][i] # Head(nest[p])
    /\ ~shut[p] /\ ~left[p]

OverInv(p) == \A c \in over[p] : HandlerOf(c, p, {"ran", "dismissed"})

HandlersInv == \A p \in Pipelines : LineInv(p) /\ NestInv(p) /\ OverInv(p)

(* A task that is in a function of the pool is being executed.             *)
WorkersInv ==
  \A c \in Calls : by[c] # Nobody /\ pc[c] \in ApiPoints =>
    nest[by[c]] # << >> /\ job[Head(nest[by[c]])] = "running"

(* Close leaves no pipeline behind it open, whoever closed it.             *)
CloseInv ==
  /\ \A c \in Calls : pc[c] \in {"closing", "marking"} =>
       \A p \in Pipelines : p < at[c] => closing[p]
  /\ CloseIsComplete

(* JoinAll leaves no worker behind it.                                     *)
Back(c) == kind[c] \in {"WaitUntilClosed", "Destroy"} /\ pc[c] = "returned"

JoinInv ==
  /\ \A c \in Calls : pc[c] = "joining" => \A p \in Pipelines : p < at[c] => left[p]
  /\ finished \/ (\E c \in Calls : Back(c)) => \A p \in Pipelines : left[p]

(* A late post is on its way to the test of closing_, or was turned away.  *)
LateInv ==
  \A c \in Calls : late[c] =>
    /\ closed /\ IsTask(c)
    /\ pc[c] \in {"pick", "post", "returned"}
    /\ job[c] \in {"none", "dropped"}
    /\ pc[c] = "returned" => job[c] = "dropped"

SafetyInv == TypeInv /\ CallsInv /\ HandlersInv /\ WorkersInv /\ CloseInv /\ JoinInv /\ LateInv

(* The turn: the pipelines that have had one more in this round than those *)
(* after them, and than pipeline 0, which begins it.                       *)
Ahead(p) == IF 1 <= p /\ p <= next % capacity THEN 1 ELSE 0

Chosen(p) == {c \in Calls : target[c] = p}
AllChosen == {c \in Calls : target[c] # Nobody}

(* After w wraps of the counter, rounds begun w times in the middle.       *)
TurnInv ==
  /\ IsFiniteSet(AllChosen)
  /\ \E w \in Nat :
       /\ Picked = w * (UintMax + 1) + next
       /\ \A p, q \in Pipelines : Given(p) + Ahead(q) <= Given(q) + Ahead(p) + w
-----------------------------------------------------------------------------
(* Types.                                                                  *)

(* There is a pipeline, and the counter can reach each of them.            *)
LEMMA Capacity ==
  capacity \in Nat /\ UintMax \in Nat /\ 1 <= capacity /\ capacity <= UintMax
<1>1. UintMax \in Nat /\ UintMax >= 2 /\ NumThreads \in 0 .. UintMax /\ Cores \in Nat
  BY ThreadpoolAssumption
<1>2. (Cores + UintMax) % (UintMax + 1) \in 0 .. UintMax
  BY <1>1
<1>3. DefaultThreads \in 2 .. UintMax
  BY <1>1, <1>2 DEF DefaultThreads
<1> QED BY <1>1, <1>3 DEF capacity

LEMMA Constants ==
  /\ Nobody \notin Calls /\ Nobody \notin Pipelines
  /\ \A p \in Pipelines : p \in Nat /\ p < capacity
  /\ \A c \in Calls : ClientKinds[c] \subseteq Kinds
  /\ WorkerKinds \subseteq Kinds \ {"Destroy"}
BY ThreadpoolAssumption, Capacity DEF Pipelines

LEMMA InitSafe == Init => SafetyInv
<1> SUFFICES ASSUME Init PROVE SafetyInv
  OBVIOUS
<1>1. /\ built \in 0 .. capacity /\ built < capacity
      /\ at \in [Calls -> 0 .. capacity] /\ next \in 0 .. UintMax
  BY Capacity DEF Init
<1>2. /\ line \in [Pipelines -> Seq(Calls)] /\ nest \in [Pipelines -> Seq(Calls)]
      /\ over \in [Pipelines -> SUBSET Calls]
      /\ {closing, shut, left} \subseteq [Pipelines -> BOOLEAN]
  BY DEF Init
<1>3. TypeInv
  BY <1>1, <1>2 DEF Init, TypeInv, TypeOK
<1>4. CallsInv
  BY DEF Init, CallsInv, CallInv
<1>5. HandlersInv
  BY DEF Init, HandlersInv, LineInv, NestInv, OverInv
<1>6. WorkersInv /\ JoinInv /\ LateInv /\ CloseInv
  BY DEF Init, WorkersInv, JoinInv, Back, LateInv, CloseInv, CloseIsComplete, ApiPoints
<1> QED BY <1>3, <1>4, <1>5, <1>6 DEF SafetyInv

(* What a call does with the counter.                                      *)
LEMMA TurnTyping ==
  ASSUME next \in 0 .. UintMax
  PROVE  Inc(next) \in 0 .. UintMax /\ Inc(next) % capacity \in Pipelines
<1>1. UintMax \in Nat /\ Inc(next) \in 0 .. UintMax
  BY ThreadpoolAssumption DEF Inc
<1>2. Inc(next) % capacity \in 0 .. capacity - 1
  BY <1>1, Capacity
<1> QED BY <1>1, <1>2 DEF Pipelines

(* A call begins.                                                          *)
LEMMA BeginTyping ==
  ASSUME TypeInv, NEW c \in Calls, NEW k \in Kinds, NEW b \in Pipelines \cup {Nobody},
         Begin(c, k, b)
  PROVE  TypeInv'
<1> USE DEF TypeInv, TypeOK, Begin, object, pipeline
<1>1. Entry(k) \in ApiPoints
  BY DEF Entry, Kinds, ApiPoints
<1>2. (closed /\ k \in {"Post", "PostWithTimer"}) \in BOOLEAN
  OBVIOUS
<1>3. /\ pc' \in [Calls -> ApiPoints \cup {"idle", "returned", "threw"}]
      /\ kind' \in [Calls -> Kinds \cup {"none"}]
      /\ by' \in [Calls -> Pipelines \cup {Nobody}]
  BY <1>1
<1>4. late' \in [Calls -> BOOLEAN]
  BY <1>2
<1> QED BY <1>3, <1>4

LEMMA BuildTyping ==
  ASSUME TypeInv, BuildOne \/ BuildFails \/ BuildThrows
  PROVE  TypeInv'
<1> USE Capacity DEF TypeInv, TypeOK, ids, pipeline
<1>1. CASE BuildOne
  BY <1>1 DEF BuildOne
<1>2. CASE BuildFails
  BY <1>2 DEF BuildFails
<1>3. CASE BuildThrows
  BY <1>3 DEF BuildThrows
<1> QED BY <1>1, <1>2, <1>3

(* A function changed at a point.                                          *)
LEMMA Changed ==
  ASSUME NEW S, NEW T, NEW f \in [S -> T], NEW x \in S, NEW v \in T
  PROVE  [f EXCEPT ![x] = v] \in [S -> T]
OBVIOUS

(* The test of closing_ sends the call on, or back with its task dropped.  *)
LEMMA PostCheckTyping ==
  ASSUME TypeInv, NEW c \in Calls, PostCheck(c)
  PROVE  TypeInv'
<1>1. /\ pc' = [pc EXCEPT ![c] = "returned"] \/ pc' = [pc EXCEPT ![c] = "adding"]
      /\ job' = job \/ job' = [job EXCEPT ![c] = "dropped"]
  BY Zenon DEF PostCheck
<1> DEFINE Points == ApiPoints \cup {"idle", "returned", "threw"}
           Jobs   == {"none", "dropped", "refused", "armed", "queued",
                      "started", "running", "ran", "dismissed"}
<1>2. pc' \in [Calls -> Points] /\ job' \in [Calls -> Jobs]
  <2>1. pc \in [Calls -> Points] /\ job \in [Calls -> Jobs]
    BY DEF TypeInv, TypeOK
  <2>2. "returned" \in Points /\ "adding" \in Points /\ "dropped" \in Jobs
    BY DEF ApiPoints
  <2> HIDE DEF Points, Jobs
  <2>3. pc' \in [Calls -> Points]
    BY <1>1, <2>1, <2>2, Changed
  <2>4. job' \in [Calls -> Jobs]
    BY <1>1, <2>1, <2>2, Changed
  <2> QED BY <2>3, <2>4
<1>3. UNCHANGED <<object, ids, target, at, pipeline, next, mutex, closed, finished>>
  BY DEF PostCheck
<1> QED BY <1>2, <1>3 DEF TypeInv, TypeOK, object, ids, pipeline, Points, Jobs

LEMMA ApiTyping ==
  ASSUME TypeInv, CallsInv, NEW c \in Calls, ApiStep(c)
  PROVE  TypeInv'
<1> USE Capacity, Constants DEF TypeInv, TypeOK, object, ids, pipeline, ApiPoints
<1>1. CASE Pick(c)
  BY <1>1, TurnTyping DEF Pick, AfterPick
<1>2. CASE PostCheck(c)
  BY <1>2, PostCheckTyping
<1>3. CASE Add(c)
  <2>1. target[c] \in Pipelines
    BY <1>3 DEF Add, CallsInv, CallInv
  <2>2. Append(line[target[c]], c) \in Seq(Calls)
    BY <2>1
  <2>3. line' \in [Pipelines -> Seq(Calls)]
    <3>1. line' = line \/ line' = [line EXCEPT ![target[c]] = Append(line[target[c]], c)]
      BY <1>3, Zenon DEF Add, Append_
    <3> QED BY <2>1, <2>2, <3>1
  <2>4. /\ pc' \in [Calls -> ApiPoints \cup {"idle", "returned", "threw"}]
        /\ job' \in [Calls -> {"none", "dropped", "refused", "armed", "queued",
                             "started", "running", "ran", "dismissed"}]
    BY <1>3 DEF Add
  <2> QED BY <1>3, <2>3, <2>4 DEF Add
<1>4. CASE Arm(c)
  BY <1>4 DEF Arm
<1>5. CASE CloseCheck(c)
  BY <1>5 DEF CloseCheck, AfterClose
<1>6. CASE CloseOne(c)
  <2>1. at[c] \in Pipelines
    BY <1>6 DEF CloseOne, Pipelines
  <2>2. Append(line[at[c]], c) \in Seq(Calls)
    BY <2>1
  <2>3. line' \in [Pipelines -> Seq(Calls)]
    BY <1>6, <2>1, <2>2 DEF CloseOne, Append_
  <2>4. at[c] + 1 \in 0 .. capacity
    BY <1>6 DEF CloseOne
  <2>5. at' = at \/ at' = [at EXCEPT ![c] = @ + 1]
    BY <1>6 DEF CloseOne
  <2>6. at' \in [Calls -> 0 .. capacity]
    BY <2>4, <2>5
  <2>7. pc' = pc \/ pc' = [pc EXCEPT ![c] = "marking"]
    BY <1>6 DEF CloseOne
  <2>8. pc' \in [Calls -> ApiPoints \cup {"idle", "returned", "threw"}]
    BY <2>7
  <2> QED BY <1>6, <2>3, <2>6, <2>8 DEF CloseOne
<1>7. CASE MarkClosing(c)
  <2>1. at[c] < capacity
    BY <1>7 DEF MarkClosing, CallsInv, CallInv
  <2>2. at' \in [Calls -> 0 .. capacity]
    BY <1>7, <2>1 DEF MarkClosing
  <2>3. closing' \in [Pipelines -> BOOLEAN]
    BY <1>7 DEF MarkClosing
  <2>4. pc' \in [Calls -> ApiPoints \cup {"idle", "returned", "threw"}]
    BY <1>7 DEF MarkClosing
  <2> QED BY <1>7, <2>2, <2>3, <2>4 DEF MarkClosing
<1>8. CASE CloseDone(c)
  BY <1>8 DEF CloseDone, AfterClose
<1>9. CASE JoinLock(c)
  BY <1>9 DEF JoinLock
<1>10. CASE JoinOne(c)
  BY <1>10 DEF JoinOne
<1>11. CASE JoinDone(c)
  BY <1>11 DEF JoinDone
<1> QED
  BY <1>1, <1>2, <1>3, <1>4, <1>5, <1>6, <1>7, <1>8, <1>9, <1>10, <1>11 DEF ApiStep

(* ExecTask_ dismisses the task, or runs it.                               *)
LEMMA ExecCases ==
  ASSUME NEW p, ExecTask(p)
  PROVE  \/ /\ closing[p]
            /\ job' = [job EXCEPT ![Head(nest[p])] = "dismissed"]
            /\ over' = [over EXCEPT ![p] = @ \cup {Head(nest[p])}]
            /\ nest' = [nest EXCEPT ![p] = << >>]
         \/ /\ job' = [job EXCEPT ![Head(nest[p])] = "running"]
            /\ over' = over /\ nest' = nest
BY DEF ExecTask, Finish

LEMMA WorkerTyping ==
  ASSUME TypeInv, NEW p \in Pipelines, WorkerStep(p)
  PROVE  TypeInv'
<1> USE DEF TypeInv, TypeOK, object, ids, Finish
<1>1. CASE Start(p)
  <2>1. line[p] \in Seq(Calls) /\ line[p] # << >>
    BY <1>1 DEF Start
  <2>2. Head(line[p]) \in Calls /\ Tail(line[p]) \in Seq(Calls)
    BY <2>1
  <2>3. line' \in [Pipelines -> Seq(Calls)]
    BY <1>1, <2>2 DEF Start
  <2>4. nest' \in [Pipelines -> Seq(Calls)]
    BY <1>1, <2>2 DEF Start
  <2> QED BY <1>1, <2>2, <2>3, <2>4 DEF Start
<1>2. CASE ~Start(p)
  <2>1. CASE Leave(p)
    BY <2>1 DEF Leave
  <2>2. CASE ExecTask(p) \/ TaskOver(p) \/ Shutdown(p)
    <3>1. nest[p] \in Seq(Calls) /\ nest[p] # << >>
      BY <2>2 DEF ExecTask, TaskOver, Shutdown, Running
    <3>2. Head(nest[p]) \in Calls
      BY <3>1
    <3>3. CASE ExecTask(p)
      <4>1. nest' \in [Pipelines -> Seq(Calls)] /\ over' \in [Pipelines -> SUBSET Calls]
        <5>1. \/ nest' = nest /\ over' = over
              \/ /\ over' = [over EXCEPT ![p] = @ \cup {Head(nest[p])}]
                 /\ nest' = [nest EXCEPT ![p] = << >>]
          BY <3>3, ExecCases
        <5>2. CASE nest' = nest /\ over' = over
          BY <5>2
        <5>3. CASE /\ over' = [over EXCEPT ![p] = @ \cup {Head(nest[p])}]
                   /\ nest' = [nest EXCEPT ![p] = << >>]
          <6>1. over[p] \cup {Head(nest[p])} \in SUBSET Calls /\ << >> \in Seq(Calls)
            BY <3>2
          <6>2. nest' \in [Pipelines -> Seq(Calls)]
            BY <5>3, <6>1
          <6>3. over' \in [Pipelines -> SUBSET Calls]
            BY <5>3, <6>1
          <6> QED BY <6>2, <6>3
        <5> QED BY <5>1, <5>2, <5>3
      <4>2. job' \in [Calls -> {"none", "dropped", "refused", "armed", "queued",
                              "started", "running", "ran", "dismissed"}]
        <5>1. \/ job' = [job EXCEPT ![Head(nest[p])] = "dismissed"]
              \/ job' = [job EXCEPT ![Head(nest[p])] = "running"]
          BY <3>3, ExecCases
        <5> QED BY <5>1
      <4> QED BY <3>3, <4>1, <4>2 DEF ExecTask
    <3>4. CASE TaskOver(p)
      BY <3>4, <3>2 DEF TaskOver
    <3>5. CASE Shutdown(p)
      BY <3>5, <3>2 DEF Shutdown
    <3> QED BY <2>2, <3>3, <3>4, <3>5
  <2> QED BY <1>2, <2>1, <2>2 DEF WorkerStep
<1> QED BY <1>1, <1>2

LEMMA TypeStep ==
  ASSUME TypeInv, CallsInv, [Next]_vars
  PROVE  TypeInv'
<1>1. CASE UNCHANGED vars
  BY <1>1 DEF vars, TypeInv, TypeOK
<1>2. CASE BuildOne \/ BuildFails \/ BuildThrows
  BY <1>2, BuildTyping
<1>3. ASSUME NEW c \in Calls, ClientCalls(c)
      PROVE  TypeInv'
  BY <1>3, Constants, BeginTyping DEF ClientCalls
<1>4. ASSUME NEW c \in Calls, WorkerCalls(c)
      PROVE  TypeInv'
  BY <1>4, Constants, BeginTyping DEF WorkerCalls
<1>5. ASSUME NEW c \in Calls, ApiStep(c)
      PROVE  TypeInv'
  BY <1>5, ApiTyping
<1>6. ASSUME NEW c \in Calls, Expire(c)
      PROVE  TypeInv'
  <2> USE DEF TypeInv, TypeOK
  <2>1. target[c] \in Pipelines
    BY <1>6 DEF Expire, CallsInv, CallInv
  <2> QED BY <1>6, <2>1 DEF Expire, Append_, object, ids
<1>7. ASSUME NEW p \in Pipelines, WorkerStep(p)
      PROVE  TypeInv'
  BY <1>7, WorkerTyping
<1> QED BY <1>1, <1>2, <1>3, <1>4, <1>5, <1>6, <1>7 DEF Next

-----------------------------------------------------------------------------
(* Calls.                                                                  *)

(* The handler being executed, and the one that is next.                   *)
LEMMA HeadOfNest ==
  ASSUME TypeInv, HandlersInv, NEW p \in Pipelines, nest[p] # << >>
  PROVE  /\ Head(nest[p]) \in Calls
         /\ HandlerOf(Head(nest[p]), p, {"started", "running"})
BY DEF TypeInv, TypeOK, HandlersInv, NestInv

LEMMA HeadOfLine ==
  ASSUME TypeInv, HandlersInv, NEW p \in Pipelines, line[p] # << >>
  PROVE  /\ Head(line[p]) \in Calls /\ Tail(line[p]) \in Seq(Calls)
         /\ Head(line[p]) = line[p][1]
         /\ Len(line[p]) \in Nat /\ 1 <= Len(line[p])
         /\ HandlerOf(Head(line[p]), p, {"queued"})
<1>1. line[p] \in Seq(Calls)
  BY DEF TypeInv, TypeOK
<1>2. 1 \in 1 .. Len(line[p]) /\ Head(line[p]) = line[p][1]
  BY <1>1
<1>3. HandlerOf(line[p][1], p, {"queued"})
  BY <1>2 DEF HandlersInv, LineInv
<1> QED BY <1>1, <1>2, <1>3

(* A worker moves the task of one call, which it has started or starts.    *)
LEMMA WorkerMoves ==
  ASSUME TypeInv, CallsInv, HandlersInv, NEW p \in Pipelines, WorkerStep(p)
  PROVE  /\ UNCHANGED <<object, pc, ids, target, at, closing, next, mutex, closed, finished>>
         /\ \A d \in Calls : job'[d] # job[d] =>
              /\ IsTask(d) /\ target[d] = p
              /\ job[d] \in {"queued", "started", "running"}
              /\ job'[d] \in {"started", "running", "ran", "dismissed"}
<1> USE DEF object, ids
<1>1. job \in [Calls -> {"none", "dropped", "refused", "armed", "queued",
                        "started", "running", "ran", "dismissed"}]
  BY DEF TypeInv, TypeOK
<1>2. CASE Start(p)
  BY <1>1, <1>2, HeadOfLine DEF Start, HandlerOf
<1>3. CASE ExecTask(p)
  <2>1. nest[p] # << >> /\ job[Head(nest[p])] = "started"
    BY <1>3 DEF ExecTask
  <2>2. \/ job' = [job EXCEPT ![Head(nest[p])] = "dismissed"]
        \/ job' = [job EXCEPT ![Head(nest[p])] = "running"]
    BY <1>3, ExecCases
  <2>3. IsTask(Head(nest[p])) /\ target[Head(nest[p])] = p
    <3>1. job[Head(nest[p])] # "none" => IsTask(Head(nest[p]))
      BY <2>1, HeadOfNest DEF CallsInv, CallInv
    <3> QED BY <2>1, <3>1, HeadOfNest DEF HandlerOf
  <2> QED BY <1>1, <1>3, <2>1, <2>2, <2>3, HeadOfNest DEF ExecTask
<1>4. CASE TaskOver(p)
  <2>1. nest[p] # << >> /\ job[Head(nest[p])] = "running"
    BY <1>4 DEF TaskOver, Running
  <2>2. IsTask(Head(nest[p])) /\ target[Head(nest[p])] = p
    <3>1. job[Head(nest[p])] # "none" => IsTask(Head(nest[p]))
      BY <2>1, HeadOfNest DEF CallsInv, CallInv
    <3> QED BY <2>1, <3>1, HeadOfNest DEF HandlerOf
  <2> QED BY <1>1, <1>4, <2>1, <2>2, HeadOfNest DEF TaskOver
<1>5. CASE Shutdown(p)
  BY <1>5 DEF Shutdown
<1>6. CASE Leave(p)
  BY <1>6 DEF Leave
<1> QED BY <1>2, <1>3, <1>4, <1>5, <1>6 DEF WorkerStep

(* A step of a call changes the state of no other.                         *)
LEMMA OthersKept ==
  ASSUME TypeInv, NEW c \in Calls, NEW d \in Calls, d # c,
         ClientCalls(c) \/ WorkerCalls(c) \/ ApiStep(c) \/ Expire(c)
  PROVE  /\ pc'[d] = pc[d] /\ kind'[d] = kind[d] /\ by'[d] = by[d]
         /\ target'[d] = target[d] /\ at'[d] = at[d] /\ job'[d] = job[d]
         /\ late'[d] = late[d]
<1> USE DEF TypeInv, TypeOK, ids
<1>1. CASE ClientCalls(c) \/ WorkerCalls(c)
  BY <1>1 DEF ClientCalls, WorkerCalls, Begin
<1>2. CASE Expire(c)
  BY <1>2 DEF Expire
<1>3. CASE ApiStep(c)
  BY <1>3 DEF ApiStep, Pick, PostCheck, Add, Arm, CloseCheck, CloseOne, MarkClosing,
              CloseDone, JoinLock, JoinOne, JoinDone
<1> QED BY <1>1, <1>2, <1>3

(* A call that is in a function stays in it.                               *)
LEMMA KindKept ==
  ASSUME TypeInv, NEW c \in Calls, ApiStep(c) \/ Expire(c)
  PROVE  UNCHANGED <<kind, by, late>>
BY DEF ids, Expire, ApiStep, Pick, PostCheck, Add, Arm, CloseCheck, CloseOne, MarkClosing,
       CloseDone, JoinLock, JoinOne, JoinDone

LEMMA CallsStep ==
  ASSUME TypeInv, CallsInv, HandlersInv, [Next]_vars
  PROVE  CallsInv'
<1> SUFFICES ASSUME NEW d \in Calls PROVE CallInv(d)'
  BY DEF CallsInv
<1> CallInv(d)
  BY DEF CallsInv
<1>1. CASE UNCHANGED vars
  BY <1>1 DEF vars, CallInv, IsTask
<1>2. CASE BuildOne \/ BuildFails \/ BuildThrows
  BY <1>2 DEF BuildOne, BuildFails, BuildThrows, ids, CallInv, IsTask
<1>3. ASSUME NEW c \in Calls, c # d,
             ClientCalls(c) \/ WorkerCalls(c) \/ ApiStep(c) \/ Expire(c)
      PROVE  CallInv(d)'
  BY <1>3, OthersKept DEF CallInv, IsTask
<1>4. CASE ClientCalls(d) \/ WorkerCalls(d)
  <2>1. PICK k \in Kinds, b \in Pipelines \cup {Nobody} : Begin(d, k, b)
    BY <1>4, Constants DEF ClientCalls, WorkerCalls
  <2>2. pc'[d] = Entry(k) /\ kind'[d] = k /\ pc[d] = "idle"
        /\ UNCHANGED <<at, target, job>>
    BY <2>1 DEF Begin, TypeInv, TypeOK
  <2>3. job[d] = "none" /\ at[d] = 0 /\ target[d] = Nobody
    BY <2>2 DEF CallInv, TypeInv, TypeOK
  <2> QED BY <2>2, <2>3 DEF CallInv, Entry, Kinds, IsTask
<1>5. CASE ApiStep(d)
  <2> USE <1>5, KindKept, TurnTyping DEF TypeInv, TypeOK, CallInv, IsTask
  <2>1. CASE Pick(d)
    BY <2>1 DEF Pick, AfterPick
  <2>2. CASE PostCheck(d) \/ Add(d) \/ Arm(d)
    BY <2>2, SMTT(20) DEF PostCheck, Add, Arm
  <2>3. CASE CloseCheck(d)
    BY <2>3 DEF CloseCheck, AfterClose
  <2>4. CASE CloseOne(d) \/ MarkClosing(d)
    BY <2>4 DEF CloseOne, MarkClosing
  <2>5. CASE CloseDone(d)
    BY <2>5 DEF CloseDone, AfterClose
  <2>6. CASE JoinLock(d) \/ JoinOne(d) \/ JoinDone(d)
    BY <2>6 DEF JoinLock, JoinOne, JoinDone
  <2> QED BY <2>1, <2>2, <2>3, <2>4, <2>5, <2>6 DEF ApiStep
<1>6. CASE Expire(d)
  BY <1>6 DEF Expire, ids, TypeInv, TypeOK, CallInv, IsTask
<1>7. ASSUME NEW p \in Pipelines, WorkerStep(p)
      PROVE  CallInv(d)'
  BY <1>7, WorkerMoves DEF CallInv, IsTask, ids
<1> QED BY <1>1, <1>2, <1>3, <1>4, <1>5, <1>6, <1>7 DEF Next
-----------------------------------------------------------------------------
(* Handlers.                                                               *)

Fates == {{"queued"}, {"started", "running"}, {"ran", "dismissed"}}

(* A handler of a pipeline remains one, and but for what the worker does   *)
(* to its task, with the same fate.                                        *)
LEMMA HandlerKept ==
  ASSUME TypeInv, CallsInv, HandlersInv, [Next]_vars, NEW d \in Calls,
         NEW p \in Pipelines, NEW fates \in Fates, HandlerOf(d, p, fates)
  PROVE  /\ job'[d] = job[d] => HandlerOf(d, p, fates)'
         /\ ~IsTask(d) => HandlerOf(d, p, fates)'
<1> SUFFICES ASSUME job'[d] = job[d] \/ ~IsTask(d) PROVE HandlerOf(d, p, fates)'
  OBVIOUS
<1> USE DEF HandlerOf, PastClose, IsTask
<1>1. CASE UNCHANGED vars
  BY <1>1 DEF vars
<1>2. CASE BuildOne \/ BuildFails \/ BuildThrows
  BY <1>2 DEF BuildOne, BuildFails, BuildThrows, ids
<1>3. ASSUME NEW c \in Calls, c # d,
             ClientCalls(c) \/ WorkerCalls(c) \/ ApiStep(c) \/ Expire(c)
      PROVE  HandlerOf(d, p, fates)'
  BY <1>3, OthersKept
<1>4. CASE ClientCalls(d) \/ WorkerCalls(d)
  <2>1. pc[d] = "idle"
    BY <1>4 DEF ClientCalls, WorkerCalls, Begin
  <2>2. kind[d] = "none"
    BY <2>1 DEF CallsInv, CallInv
  <2> QED BY <2>2
<1>5. CASE ApiStep(d)
  <2>1. CASE IsTask(d)
    <3>1. job[d] # "none" /\ job'[d] = job[d] /\ pc[d] # "pick" /\ kind' = kind
      BY <2>1, <1>5, KindKept DEF Fates, CallsInv, CallInv
    <3>2. target' = target
      BY <3>1, <1>5 DEF ApiStep, Pick, PostCheck, Add, Arm, CloseCheck, CloseOne,
                        MarkClosing, CloseDone, JoinLock, JoinOne, JoinDone
    <3> QED BY <2>1, <3>1, <3>2
  <2>2. CASE ~IsTask(d)
    <3>1. PastClose(d, p) /\ kind' = kind /\ p \in Nat /\ p < capacity
          /\ at[d] \in Nat /\ capacity \in Nat
      BY <2>2, <1>5, KindKept, Constants, Capacity DEF TypeInv, TypeOK
    <3> USE <3>1 DEF TypeInv, TypeOK
    <3>2. CASE CloseOne(d) \/ MarkClosing(d) \/ CloseDone(d)
      BY <2>2, <3>2 DEF CloseOne, MarkClosing, CloseDone, AfterClose
    <3>3. CASE JoinLock(d) \/ JoinOne(d) \/ JoinDone(d)
      BY <2>2, <3>3 DEF JoinLock, JoinOne, JoinDone
    <3> QED BY <2>2, <3>2, <3>3, <1>5 DEF ApiStep, Pick, PostCheck, Add, Arm, CloseCheck
  <2> QED BY <2>1, <2>2
<1>6. CASE Expire(d)
  BY <1>6 DEF Expire, ids
<1>7. ASSUME NEW q \in Pipelines, WorkerStep(q)
      PROVE  HandlerOf(d, p, fates)'
  BY <1>7, WorkerMoves DEF ids
<1> QED BY <1>1, <1>2, <1>3, <1>4, <1>5, <1>6, <1>7 DEF Next

(* What is where stays there when a pipeline is not touched.               *)
LEMMA PipelineKept ==
  ASSUME TypeInv, NEW p \in Pipelines, LineInv(p), NestInv(p), OverInv(p),
         line'[p] = line[p], nest'[p] = nest[p], over'[p] = over[p],
         shut'[p] = shut[p], left'[p] = left[p],
         \A d \in Calls : \A fates \in Fates :
           HandlerOf(d, p, fates) => HandlerOf(d, p, fates)'
  PROVE  (LineInv(p) /\ NestInv(p) /\ OverInv(p))'
<1>1. line[p] \in Seq(Calls) /\ nest[p] \in Seq(Calls) /\ over[p] \subseteq Calls
  BY DEF TypeInv, TypeOK
<1>2. {"queued"} \in Fates /\ {"started", "running"} \in Fates /\ {"ran", "dismissed"} \in Fates
  BY DEF Fates
<1>3. LineInv(p)'
  BY <1>1, <1>2 DEF LineInv
<1>4. NestInv(p)'
  BY <1>1, <1>2 DEF NestInv
<1>5. OverInv(p)'
  BY <1>1, <1>2 DEF OverInv
<1> QED BY <1>3, <1>4, <1>5

(* A handler that is nowhere joins the line.                               *)
LEMMA Joins ==
  ASSUME TypeInv, HandlersInv, NEW c \in Calls, NEW p \in Pipelines,
         Append_(p, c), UNCHANGED <<nest, over, shut, left>>,
         \A fates \in Fates : ~HandlerOf(c, p, fates),
         HandlerOf(c, p, {"queued"})',
         \A d \in Calls : \A q \in Pipelines : \A fates \in Fates :
           HandlerOf(d, q, fates) => HandlerOf(d, q, fates)'
  PROVE  HandlersInv'
<1> SUFFICES ASSUME NEW q \in Pipelines PROVE (LineInv(q) /\ NestInv(q) /\ OverInv(q))'
  BY DEF HandlersInv
<1>1. LineInv(q) /\ NestInv(q) /\ OverInv(q)
  BY DEF HandlersInv
<1>2. line \in [Pipelines -> Seq(Calls)] /\ nest[q] \in Seq(Calls) /\ over[q] \subseteq Calls
  BY DEF TypeInv, TypeOK
<1>3. CASE q # p
  BY <1>1, <1>2, <1>3, PipelineKept DEF Append_
<1>4. CASE q = p
  <2>1. line'[p] = Append(line[p], c) /\ line[p] \in Seq(Calls)
    BY <1>2 DEF Append_
  <2>2. {"queued"} \in Fates /\ {"started", "running"} \in Fates /\ {"ran", "dismissed"} \in Fates
    BY DEF Fates
  <2>3. \A i \in 1 .. Len(line[p]) : line[p][i] \in Calls /\ line[p][i] # c
    BY <1>1, <1>4, <2>1, <2>2 DEF LineInv
  <2>4. c \notin over[p]
    BY <1>1, <1>4, <2>2 DEF OverInv
  <2>5. PICK l \in Seq(Calls) : l = line'[p]
    <3>1. Append(line[p], c) \in Seq(Calls)
      BY <2>1
    <3> QED BY <2>1, <3>1
  <2>6. PICK n \in Nat : n = Len(line[p])
    BY <2>1
  <2>7. Len(l) = n + 1 /\ l[n + 1] = c /\ \A i \in 1 .. n : l[i] = line[p][i]
    BY <2>1, <2>5, <2>6
  <2>8. LineInv(p)'
    <3>1. ASSUME NEW i \in 1 .. n + 1
          PROVE  HandlerOf(l[i], p, {"queued"})' /\ l[i] \notin over[p]
      <4>1. CASE i = n + 1
        BY <4>1, <2>4, <2>7
      <4>2. CASE i \in 1 .. n
        <5>1. HandlerOf(line[p][i], p, {"queued"}) /\ line[p][i] \notin over[p]
          BY <1>1, <1>4, <2>6, <4>2 DEF LineInv
        <5>2. l[i] \in Calls /\ l[i] = line[p][i]
          BY <2>3, <2>6, <2>7, <4>2
        <5>3. HandlerOf(l[i], p, {"queued"})
          BY <5>1, <5>2
        <5> QED BY <5>1, <5>2, <5>3, <2>2
      <4> QED BY <4>1, <4>2
    <3>2. ASSUME NEW i \in 1 .. n + 1, NEW j \in 1 .. n + 1, l[i] = l[j]
          PROVE  i = j
      <4>1. \A a, b \in 1 .. n : line[p][a] = line[p][b] => a = b
        BY <1>1, <1>4, <2>6 DEF LineInv
      <4>2. \A a \in 1 .. n : l[a] # c
        BY <2>3, <2>6, <2>7
      <4>3. CASE i = n + 1 \/ j = n + 1
        BY <3>2, <4>2, <4>3, <2>7
      <4>4. CASE i \in 1 .. n /\ j \in 1 .. n
        BY <3>2, <4>1, <4>4, <2>7
      <4> QED BY <4>3, <4>4
    <3> QED BY <3>1, <3>2, <2>5, <2>7 DEF LineInv
  <2>9. NestInv(p)'
    <3> SUFFICES ASSUME nest[p] # << >> PROVE NestInv(p)'
      BY DEF NestInv
    <3>1. Head(nest[p]) \in Calls /\ HandlerOf(Head(nest[p]), p, {"started", "running"})
      BY <1>1, <1>2, <1>4 DEF NestInv
    <3>2. Head(nest[p]) # c /\ HandlerOf(Head(nest[p]), p, {"started", "running"})'
      BY <3>1, <2>2
    <3>3. \A i \in 1 .. Len(line'[p]) : line'[p][i] # Head(nest[p])
      <4>1. \A i \in 1 .. n : line[p][i] # Head(nest[p])
        BY <1>1, <1>4, <2>6 DEF NestInv
      <4> QED BY <3>2, <4>1, <2>5, <2>7
    <3> QED BY <3>2, <3>3, <1>1, <1>4 DEF NestInv
  <2>10. OverInv(p)'
    BY <1>1, <1>2, <1>4, <2>2 DEF OverInv
  <2> QED BY <1>4, <2>8, <2>9, <2>10
<1> QED BY <1>3, <1>4

(* A step of a worker keeps the handlers of its pipeline but the one it    *)
(* moves.                                                                  *)
LEMMA OthersOfLine ==
  ASSUME TypeInv, CallsInv, HandlersInv, [Next]_vars, NEW p \in Pipelines,
         NEW h \in Calls, \A d \in Calls : d # h => job'[d] = job[d]
  PROVE  \A d \in Calls : \A fates \in Fates :
           d # h /\ HandlerOf(d, p, fates) => HandlerOf(d, p, fates)'
BY HandlerKept

LEMMA StartHandlers ==
  ASSUME TypeInv, CallsInv, HandlersInv, [Next]_vars, NEW p \in Pipelines, Start(p)
  PROVE  (LineInv(p) /\ NestInv(p) /\ OverInv(p))'
<1>1. PICK h \in Calls : h = Head(line[p])
  BY HeadOfLine DEF Start
<1>2. /\ nest[p] = << >> /\ ~shut[p] /\ ~left[p] /\ line[p] # << >>
      /\ line'[p] = Tail(line[p]) /\ nest'[p] = <<h>>
      /\ over' = over /\ shut' = shut /\ left' = left /\ kind' = kind /\ target' = target
      /\ job' = [job EXCEPT ![h] = IF IsTask(h) THEN "started" ELSE @]
  BY <1>1 DEF Start, Between, ids, TypeInv, TypeOK
<1>3. /\ line[p] \in Seq(Calls) /\ over[p] \subseteq Calls
      /\ LineInv(p) /\ OverInv(p)
  BY DEF TypeInv, TypeOK, HandlersInv
<1>4. PICK n \in Nat : n + 1 = Len(line[p])
  <2>1. Len(line[p]) \in Nat /\ 1 <= Len(line[p])
    BY <1>2, HeadOfLine
  <2>2. Len(line[p]) - 1 \in Nat /\ (Len(line[p]) - 1) + 1 = Len(line[p])
    BY <2>1
  <2> QED BY <2>2
<1>5. PICK l \in Seq(Calls) : l = line'[p]
  BY <1>2, HeadOfLine
<1>6. Len(l) = n /\ \A i \in 1 .. n : l[i] = line[p][i + 1]
  BY <1>2, <1>3, <1>4, <1>5
<1>7. /\ HandlerOf(h, p, {"queued"}) /\ h \notin over[p] /\ h = line[p][1]
      /\ \A i \in 1 .. n : l[i] # h
  <2>1. 1 \in 1 .. n + 1 /\ h = line[p][1]
    BY <1>1, <1>2, <1>3
  <2>2. \A i, j \in 1 .. n + 1 : line[p][i] = line[p][j] => i = j
    BY <1>3, <1>4 DEF LineInv
  <2>3. \A i \in 1 .. n : i + 1 \in 1 .. n + 1 /\ i + 1 # 1
    OBVIOUS
  <2>4. \A i \in 1 .. n : l[i] # h
    BY <1>6, <2>1, <2>2, <2>3
  <2> QED BY <2>1, <2>4, <1>3, <1>4 DEF LineInv
<1>8. \A d \in Calls : d # h => job'[d] = job[d]
  BY <1>2 DEF TypeInv, TypeOK
<1>9. \A d \in Calls : \A fates \in Fates :
        d # h /\ HandlerOf(d, p, fates) => HandlerOf(d, p, fates)'
  BY <1>8, OthersOfLine
<1>10. {"queued"} \in Fates /\ {"started", "running"} \in Fates /\ {"ran", "dismissed"} \in Fates
  BY DEF Fates
<1>11. LineInv(p)'
  <2>1. ASSUME NEW i \in 1 .. n
        PROVE  HandlerOf(l[i], p, {"queued"})' /\ l[i] \notin over[p]
    <3>1. i + 1 \in 1 .. n + 1 /\ l[i] = line[p][i + 1] /\ l[i] \in Calls /\ l[i] # h
      BY <1>6, <1>7, <1>5
    <3>2. HandlerOf(line[p][i + 1], p, {"queued"}) /\ line[p][i + 1] \notin over[p]
      BY <1>3, <1>4, <3>1 DEF LineInv
    <3>3. HandlerOf(l[i], p, {"queued"})
      BY <3>1, <3>2
    <3> QED BY <3>1, <3>2, <3>3, <1>9, <1>10
  <2>2. ASSUME NEW i \in 1 .. n, NEW j \in 1 .. n, l[i] = l[j]
        PROVE  i = j
    <3>1. \A a, b \in 1 .. n + 1 : line[p][a] = line[p][b] => a = b
      BY <1>3, <1>4 DEF LineInv
    <3>2. i + 1 \in 1 .. n + 1 /\ j + 1 \in 1 .. n + 1 /\ line[p][i + 1] = line[p][j + 1]
      BY <2>2, <1>6
    <3>3. i + 1 = j + 1
      BY <3>1, <3>2
    <3> QED BY <3>3
  <2> QED BY <2>1, <2>2, <1>2, <1>5, <1>6 DEF LineInv
<1>12. HandlerOf(h, p, {"started", "running"})'
  <2>1. CASE IsTask(h)
    <3>1. job'[h] = "started"
      BY <1>2, <2>1 DEF TypeInv, TypeOK
    <3> QED BY <1>2, <1>7, <2>1, <3>1 DEF HandlerOf, IsTask
  <2>2. CASE ~IsTask(h)
    <3>1. HandlerOf(h, p, {"started", "running"})
      BY <1>7, <2>2 DEF HandlerOf
    <3> QED BY <2>2, <3>1, <1>10, HandlerKept
  <2> QED BY <2>1, <2>2
<1>13. NestInv(p)'
  <2>1. Head(nest'[p]) = h /\ nest'[p] # << >>
    BY <1>2
  <2>2. \A i \in 1 .. Len(line'[p]) : line'[p][i] # h
    BY <1>5, <1>6, <1>7
  <2> QED BY <1>2, <1>7, <1>12, <2>1, <2>2 DEF NestInv
<1>14. OverInv(p)'
  <2>1. \A d \in over[p] : d \in Calls /\ d # h /\ HandlerOf(d, p, {"ran", "dismissed"})
    BY <1>3, <1>7 DEF OverInv
  <2> QED BY <1>2, <1>9, <1>10, <2>1 DEF OverInv
<1> QED BY <1>11, <1>13, <1>14

(* The handler being executed ends.                                        *)
LEMMA FinishHandlers ==
  ASSUME TypeInv, CallsInv, HandlersInv, [Next]_vars, NEW p \in Pipelines,
         nest[p] # << >>, Finish(p), line' = line,
         \A d \in Calls : d # Head(nest[p]) => job'[d] = job[d],
         IsTask(Head(nest[p])) =>
           /\ UNCHANGED <<kind, target>>
           /\ job'[Head(nest[p])] \in {"ran", "dismissed"}
  PROVE  (LineInv(p) /\ NestInv(p) /\ OverInv(p))'
<1>1. PICK h \in Calls : h = Head(nest[p])
  BY HeadOfNest
<1>2. /\ line[p] \in Seq(Calls) /\ over[p] \subseteq Calls
      /\ nest'[p] = << >> /\ over'[p] = over[p] \cup {h}
  BY <1>1 DEF TypeInv, TypeOK, Finish
<1>3. /\ LineInv(p) /\ OverInv(p)
      /\ HandlerOf(h, p, {"started", "running"})
      /\ \A i \in 1 .. Len(line[p]) : line[p][i] # h
  BY <1>1 DEF HandlersInv, NestInv
<1>4. \A d \in Calls : \A fates \in Fates :
        d # h /\ HandlerOf(d, p, fates) => HandlerOf(d, p, fates)'
  BY <1>1, OthersOfLine
<1>5. {"queued"} \in Fates /\ {"started", "running"} \in Fates /\ {"ran", "dismissed"} \in Fates
  BY DEF Fates
<1>6. HandlerOf(h, p, {"ran", "dismissed"})'
  <2>1. CASE IsTask(h)
    BY <1>1, <1>3, <2>1 DEF HandlerOf, IsTask
  <2>2. CASE ~IsTask(h)
    <3>1. HandlerOf(h, p, {"ran", "dismissed"})
      BY <1>3, <2>2 DEF HandlerOf
    <3> QED BY <2>2, <3>1, <1>5, HandlerKept
  <2> QED BY <2>1, <2>2
<1>7. LineInv(p)'
  <2>1. ASSUME NEW i \in 1 .. Len(line[p])
        PROVE  HandlerOf(line[p][i], p, {"queued"})' /\ line[p][i] \notin over'[p]
    <3>1. PICK d \in Calls : d = line[p][i]
      BY <1>2
    <3>2. HandlerOf(d, p, {"queued"}) /\ d \notin over[p] /\ d # h
      BY <1>3, <3>1 DEF LineInv
    <3>3. HandlerOf(d, p, {"queued"})'
      BY <1>4, <1>5, <3>2
    <3> QED BY <1>2, <3>1, <3>2, <3>3
  <2> QED BY <2>1, <1>3 DEF LineInv
<1>8. NestInv(p)'
  BY <1>2 DEF NestInv
<1>9. OverInv(p)'
  BY <1>2, <1>3, <1>4, <1>5, <1>6 DEF OverInv
<1> QED BY <1>7, <1>8, <1>9

LEMMA WorkerHandlers ==
  ASSUME TypeInv, CallsInv, HandlersInv, [Next]_vars, NEW p \in Pipelines, WorkerStep(p)
  PROVE  HandlersInv'
<1>1. \A q \in Pipelines : q # p =>
        /\ line'[q] = line[q] /\ nest'[q] = nest[q] /\ over'[q] = over[q]
        /\ shut'[q] = shut[q] /\ left'[q] = left[q]
  BY DEF WorkerStep, Start, ExecTask, TaskOver, Shutdown, Leave, Finish, TypeInv, TypeOK
<1>2. ASSUME NEW q \in Pipelines, q # p
      PROVE  (LineInv(q) /\ NestInv(q) /\ OverInv(q))'
  <2>1. ASSUME NEW d \in Calls, NEW fates \in Fates, HandlerOf(d, q, fates)
        PROVE  HandlerOf(d, q, fates)'
    <3>1. CASE IsTask(d)
      <4>1. target[d] = q
        BY <2>1, <3>1 DEF HandlerOf
      <4>2. job'[d] = job[d]
        BY <1>2, <4>1, WorkerMoves
      <4> QED BY <2>1, <4>2, HandlerKept
    <3>2. CASE ~IsTask(d)
      BY <2>1, <3>2, HandlerKept
    <3> QED BY <3>1, <3>2
  <2>2. LineInv(q) /\ NestInv(q) /\ OverInv(q)
    BY DEF HandlersInv
  <2> QED BY <1>1, <1>2, <2>1, <2>2, PipelineKept
<1>3. (LineInv(p) /\ NestInv(p) /\ OverInv(p))'
  <2> USE DEF ids
  <2>1. CASE Start(p)
    BY <2>1, StartHandlers
  <2>2. CASE TaskOver(p)
    <3>1. /\ nest[p] # << >> /\ Finish(p) /\ line' = line
          /\ job' = [job EXCEPT ![Head(nest[p])] = "ran"]
          /\ UNCHANGED <<kind, target>>
      BY <2>2 DEF TaskOver, Running
    <3>2. Head(nest[p]) \in Calls
      BY <3>1, HeadOfNest
    <3> QED BY <3>1, <3>2, FinishHandlers DEF TypeInv, TypeOK
  <2>3. CASE Shutdown(p)
    <3>1. /\ nest[p] # << >> /\ Finish(p) /\ line' = line /\ job' = job
          /\ ~IsTask(Head(nest[p]))
      BY <2>3 DEF Shutdown
    <3> QED BY <3>1, FinishHandlers
  <2>4. CASE ExecTask(p)
    <3>1. /\ nest[p] # << >> /\ line' = line /\ job[Head(nest[p])] = "started"
          /\ UNCHANGED <<kind, target, shut, left>>
      BY <2>4 DEF ExecTask
    <3>2. PICK h \in Calls : h = Head(nest[p])
      BY <3>1, HeadOfNest
    <3>3. CASE job' = [job EXCEPT ![h] = "dismissed"] /\ Finish(p)
      <4>1. /\ \A d \in Calls : d # h => job'[d] = job[d]
            /\ job'[h] \in {"ran", "dismissed"}
        BY <3>3 DEF TypeInv, TypeOK
      <4> QED BY <3>1, <3>2, <3>3, <4>1, FinishHandlers
    <3>4. CASE job' = [job EXCEPT ![h] = "running"] /\ over' = over /\ nest' = nest
      <4>1. /\ LineInv(p) /\ NestInv(p) /\ OverInv(p)
            /\ HandlerOf(h, p, {"started", "running"}) /\ h \notin over[p]
            /\ \A i \in 1 .. Len(line[p]) : line[p][i] # h
            /\ line[p] \in Seq(Calls) /\ over[p] \subseteq Calls
        BY <3>1, <3>2 DEF HandlersInv, NestInv, TypeInv, TypeOK
      <4>2. \A d \in Calls : \A fates \in Fates :
              d # h /\ HandlerOf(d, p, fates) => HandlerOf(d, p, fates)'
        BY <3>4, OthersOfLine DEF TypeInv, TypeOK
      <4>3. HandlerOf(h, p, {"started", "running"})'
        <5>1. job'[h] = "running"
          BY <3>4 DEF TypeInv, TypeOK
        <5>2. IsTask(h)
          BY <3>1, <3>2 DEF CallsInv, CallInv
        <5> QED BY <3>1, <4>1, <5>1, <5>2 DEF HandlerOf, IsTask
      <4>4. {"queued"} \in Fates /\ {"ran", "dismissed"} \in Fates
        BY DEF Fates
      <4>5. LineInv(p)'
        <5>1. ASSUME NEW i \in 1 .. Len(line[p])
              PROVE  HandlerOf(line[p][i], p, {"queued"})' /\ line[p][i] \notin over'[p]
          <6>1. PICK d \in Calls : d = line[p][i]
            BY <4>1
          <6>2. HandlerOf(d, p, {"queued"}) /\ d \notin over[p] /\ d # h
            BY <4>1, <6>1 DEF LineInv
          <6>3. HandlerOf(d, p, {"queued"})'
            BY <4>2, <4>4, <6>2
          <6> QED BY <3>1, <3>4, <6>1, <6>2, <6>3
        <5> QED BY <5>1, <3>1, <4>1 DEF LineInv
      <4>6. NestInv(p)'
        BY <3>1, <3>2, <3>4, <4>1, <4>3 DEF NestInv
      <4>7. OverInv(p)'
        BY <3>4, <4>1, <4>2, <4>4 DEF OverInv
      <4> QED BY <4>5, <4>6, <4>7
    <3>5. \/ job' = [job EXCEPT ![h] = "dismissed"] /\ Finish(p)
          \/ job' = [job EXCEPT ![h] = "running"] /\ over' = over /\ nest' = nest
      BY <2>4, <3>2, ExecCases DEF Finish
    <3> QED BY <3>3, <3>4, <3>5
  <2>5. CASE Leave(p)
    <3>1. LineInv(p) /\ OverInv(p) /\ nest[p] = << >> /\ nest' = nest
          /\ line' = line /\ over' = over /\ job' = job
      BY <2>5 DEF HandlersInv, Leave
    <3>2. line[p] \in Seq(Calls) /\ over[p] \subseteq Calls
      BY DEF TypeInv, TypeOK
    <3>3. \A d \in Calls : \A fates \in Fates :
            HandlerOf(d, p, fates) => HandlerOf(d, p, fates)'
      BY <3>1, HandlerKept
    <3>4. {"queued"} \in Fates /\ {"ran", "dismissed"} \in Fates
      BY DEF Fates
    <3>5. LineInv(p)'
      BY <3>1, <3>2, <3>3, <3>4 DEF LineInv
    <3>6. NestInv(p)' /\ OverInv(p)'
      BY <3>1, <3>2, <3>3, <3>4 DEF NestInv, OverInv
    <3> QED BY <3>5, <3>6
  <2> QED BY <2>1, <2>2, <2>3, <2>4, <2>5 DEF WorkerStep
<1> QED BY <1>2, <1>3 DEF HandlersInv

LEMMA HandlersStep ==
  ASSUME TypeInv, CallsInv, HandlersInv, [Next]_vars
  PROVE  HandlersInv'
(* A step that leaves the pipelines alone, and every task where it is.     *)
<1>1. ASSUME line' = line, nest' = nest, over' = over, shut' = shut, left' = left,
             \A d \in Calls : job'[d] = job[d] \/ \A p \in Pipelines : \A fates \in Fates :
               ~HandlerOf(d, p, fates)
      PROVE  HandlersInv'
  <2>1. \A d \in Calls : \A p \in Pipelines : \A fates \in Fates :
          HandlerOf(d, p, fates) => HandlerOf(d, p, fates)'
    BY <1>1, HandlerKept
  <2> QED BY <1>1, <2>1, PipelineKept DEF HandlersInv
(* A step that adds a handler to a line.                                   *)
<1>2. ASSUME NEW c \in Calls, NEW p \in Pipelines, Append_(p, c),
             nest' = nest, over' = over, shut' = shut, left' = left,
             \A d \in Calls : d # c => job'[d] = job[d],
             \A fates \in Fates : ~HandlerOf(c, p, fates),
             HandlerOf(c, p, {"queued"})',
             IsTask(c) => \A q \in Pipelines : \A fates \in Fates : ~HandlerOf(c, q, fates)
      PROVE  HandlersInv'
  <2>1. \A d \in Calls : \A q \in Pipelines : \A fates \in Fates :
          HandlerOf(d, q, fates) => HandlerOf(d, q, fates)'
    BY <1>2, HandlerKept
  <2> QED BY <1>2, <2>1, Joins
(* A task that no pipeline has yet.                                        *)
<1>3. ASSUME NEW c \in Calls, IsTask(c), job[c] \in {"none", "armed"}
      PROVE  \A q \in Pipelines : \A fates \in Fates : ~HandlerOf(c, q, fates)
  BY <1>3 DEF HandlerOf, Fates
<1>4. CASE UNCHANGED vars
  BY <1>1, <1>4 DEF vars
<1>5. CASE BuildOne \/ BuildFails \/ BuildThrows
  BY <1>1, <1>5 DEF BuildOne, BuildFails, BuildThrows, pipeline
<1>6. ASSUME NEW c \in Calls, ClientCalls(c) \/ WorkerCalls(c)
      PROVE  HandlersInv'
  BY <1>1, <1>6 DEF ClientCalls, WorkerCalls, Begin, pipeline
<1>7. ASSUME NEW c \in Calls, Pick(c) \/ CloseCheck(c) \/ MarkClosing(c) \/ CloseDone(c)
                              \/ JoinLock(c) \/ JoinOne(c) \/ JoinDone(c)
      PROVE  HandlersInv'
  BY <1>1, <1>7 DEF Pick, CloseCheck, MarkClosing, CloseDone, JoinLock, JoinOne, JoinDone,
                    pipeline
<1>8. ASSUME NEW c \in Calls, PostCheck(c) \/ Add(c) \/ Arm(c)
      PROVE  HandlersInv'
  <2>1. /\ IsTask(c) /\ job[c] = "none" /\ target[c] \in Pipelines
        /\ kind' = kind /\ target' = target
        /\ nest' = nest /\ over' = over /\ shut' = shut /\ left' = left
    BY <1>8 DEF CallsInv, CallInv, TypeInv, TypeOK, PostCheck, Add, Arm, pipeline, ids
  <2>2. \A d \in Calls : d # c => job'[d] = job[d]
    BY <1>8 DEF PostCheck, Add, Arm, TypeInv, TypeOK
  <2>3. CASE line' = line
    BY <1>1, <1>3, <2>1, <2>2, <2>3
  <2>4. CASE line' # line
    <3>1. Append_(target[c], c) /\ job' = [job EXCEPT ![c] = "queued"]
      BY <1>8, <2>4 DEF PostCheck, Add, Arm, pipeline
    <3>2. job'[c] = "queued"
      BY <3>1 DEF TypeInv, TypeOK
    <3>3. PICK p \in Pipelines : p = target[c]
      BY <2>1
    <3>4. HandlerOf(c, p, {"queued"})'
      BY <2>1, <3>2, <3>3 DEF HandlerOf, IsTask
    <3> QED BY <1>2, <1>3, <2>1, <2>2, <3>1, <3>3, <3>4
  <2> QED BY <2>3, <2>4
<1>9. ASSUME NEW c \in Calls, Expire(c)
      PROVE  HandlersInv'
  <2>1. /\ IsTask(c) /\ job[c] = "armed" /\ target[c] \in Pipelines
        /\ kind' = kind /\ target' = target
        /\ nest' = nest /\ over' = over /\ shut' = shut /\ left' = left
        /\ Append_(target[c], c) /\ job' = [job EXCEPT ![c] = "queued"]
    BY <1>9 DEF CallsInv, CallInv, Expire, ids
  <2>2. job'[c] = "queued" /\ \A d \in Calls : d # c => job'[d] = job[d]
    BY <2>1 DEF TypeInv, TypeOK
  <2>3. PICK p \in Pipelines : p = target[c]
    BY <2>1
  <2>4. HandlerOf(c, p, {"queued"})'
    BY <2>1, <2>2, <2>3 DEF HandlerOf, IsTask
  <2> QED BY <1>2, <1>3, <2>1, <2>2, <2>3, <2>4
<1>10. ASSUME NEW c \in Calls, CloseOne(c)
       PROVE  HandlersInv'
  <2>1. /\ kind[c] \in {"Close", "Destroy"} /\ pc[c] = "closing" /\ at[c] \in Nat
        /\ at[c] \in Pipelines /\ kind' = kind /\ job' = job
        /\ nest' = nest /\ over' = over /\ shut' = shut /\ left' = left
    BY <1>10, Capacity DEF CallsInv, CallInv, TypeInv, TypeOK, CloseOne, ids, Pipelines
  <2>2. CASE line' = line
    BY <1>1, <2>1, <2>2
  <2>3. CASE line' # line
    <3>1. Append_(at[c], c) /\ pc' = [pc EXCEPT ![c] = "marking"] /\ at' = at
      BY <1>10, <2>3 DEF CloseOne
    <3>2. PICK p \in Pipelines : p = at[c]
      BY <2>1
    <3>3. ~IsTask(c) /\ ~PastClose(c, p) /\ p \in Nat
      BY <2>1, <3>2, Constants DEF IsTask, PastClose
    <3>4. \A fates \in Fates : ~HandlerOf(c, p, fates)
      BY <3>3 DEF HandlerOf
    <3>5. pc'[c] = "marking"
      BY <3>1 DEF TypeInv, TypeOK
    <3>6. HandlerOf(c, p, {"queued"})'
      BY <2>1, <3>1, <3>2, <3>3, <3>5 DEF HandlerOf, IsTask, PastClose
    <3> QED BY <1>2, <2>1, <3>1, <3>2, <3>3, <3>4, <3>6
  <2> QED BY <2>2, <2>3
<1>11. ASSUME NEW p \in Pipelines, WorkerStep(p)
       PROVE  HandlersInv'
  BY <1>11, WorkerHandlers
<1> QED BY <1>4, <1>5, <1>6, <1>7, <1>8, <1>9, <1>10, <1>11 DEF Next, ApiStep
-----------------------------------------------------------------------------
(* Calls of tasks.                                                         *)

LEMMA WorkersStep ==
  ASSUME TypeInv, CallsInv, HandlersInv, WorkersInv, [Next]_vars
  PROVE  WorkersInv'
<1> SUFFICES ASSUME NEW d \in Calls, by'[d] # Nobody, pc'[d] \in ApiPoints
             PROVE  nest'[by'[d]] # << >> /\ job'[Head(nest'[by'[d]])] = "running"
  BY DEF WorkersInv
<1> USE DEF TypeInv, TypeOK
(* The call was made before, and what the worker executes is not touched.  *)
<1>1. ASSUME by'[d] = by[d], pc[d] \in ApiPoints, nest' = nest,
             \A h \in Calls : job[h] = "running" => job'[h] = "running"
      PROVE  nest'[by'[d]] # << >> /\ job'[Head(nest'[by'[d]])] = "running"
  <2>1. by[d] \in Pipelines /\ nest[by[d]] # << >> /\ job[Head(nest[by[d]])] = "running"
    BY <1>1 DEF WorkersInv
  <2>2. Head(nest[by[d]]) \in Calls
    BY <2>1, HeadOfNest
  <2> QED BY <1>1, <2>1, <2>2
<1>2. CASE UNCHANGED vars
  BY <1>1, <1>2 DEF vars
<1>3. CASE BuildOne \/ BuildFails \/ BuildThrows
  BY <1>1, <1>3 DEF BuildOne, BuildFails, BuildThrows, ids, pipeline
<1>4. ASSUME NEW c \in Calls, ClientCalls(c) \/ WorkerCalls(c) \/ ApiStep(c) \/ Expire(c)
      PROVE  nest' = nest /\ \A h \in Calls : job[h] = "running" => job'[h] = "running"
  <2>1. nest' = nest
    BY <1>4 DEF ClientCalls, WorkerCalls, Begin, Expire, ApiStep, Pick, PostCheck, Add, Arm,
                CloseCheck, CloseOne, MarkClosing, CloseDone, JoinLock, JoinOne, JoinDone,
                pipeline
  <2>2. job'[c] # job[c] => job[c] \in {"none", "armed"}
    BY <1>4 DEF CallsInv, CallInv, ClientCalls, WorkerCalls, Begin, Expire, ApiStep, Pick,
                PostCheck, Add, Arm, CloseCheck, CloseOne, MarkClosing, CloseDone,
                JoinLock, JoinOne, JoinDone
  <2>3. \A h \in Calls : h # c => job'[h] = job[h]
    BY <1>4, OthersKept
  <2> QED BY <2>1, <2>2, <2>3
<1>5. ASSUME NEW c \in Calls, c # d,
             ClientCalls(c) \/ WorkerCalls(c) \/ ApiStep(c) \/ Expire(c)
      PROVE  nest'[by'[d]] # << >> /\ job'[Head(nest'[by'[d]])] = "running"
  BY <1>1, <1>4, <1>5, OthersKept
<1>6. CASE ApiStep(d) \/ Expire(d)
  <2>1. by'[d] = by[d]
    BY <1>6, KindKept
  <2>2. pc[d] \in ApiPoints
    BY <1>6 DEF ApiPoints, Expire, ApiStep, Pick, PostCheck, Add, Arm, CloseCheck, CloseOne,
                MarkClosing, CloseDone, JoinLock, JoinOne, JoinDone
  <2> QED BY <1>1, <1>4, <1>6, <2>1, <2>2
<1>7. CASE ClientCalls(d)
  BY <1>7 DEF ClientCalls, Begin
<1>8. CASE WorkerCalls(d)
  <2>1. PICK p \in Pipelines : Running(p) /\ by'[d] = p
    BY <1>8, Constants DEF WorkerCalls, Begin
  <2>2. nest[p] # << >> /\ job[Head(nest[p])] = "running"
    BY <2>1 DEF Running
  <2>3. Head(nest[p]) \in Calls
    BY <2>2, HeadOfNest
  <2> QED BY <1>4, <1>8, <2>1, <2>2, <2>3
<1>9. ASSUME NEW p \in Pipelines, WorkerStep(p)
      PROVE  nest'[by'[d]] # << >> /\ job'[Head(nest'[by'[d]])] = "running"
  <2>1. by' = by /\ pc' = pc
    BY <1>9, WorkerMoves DEF ids
  <2>2. PICK q \in Pipelines : q = by[d]
    BY <2>1
  <2>3. nest[q] # << >> /\ job[Head(nest[q])] = "running"
    BY <2>1, <2>2 DEF WorkersInv
  <2>4. PICK h \in Calls : h = Head(nest[q])
    BY <2>3, HeadOfNest
  <2>5. WorkerInApi(q)
    BY <2>1, <2>2 DEF WorkerInApi
  <2>6. CASE q = p
    <3>1. ~Start(p) /\ ~TaskOver(p) /\ ~ExecTask(p) /\ ~Leave(p)
      BY <2>3, <2>5, <2>6 DEF Start, Between, TaskOver, Running, ExecTask, Leave
    <3>2. IsTask(h)
      BY <2>3, <2>4 DEF CallsInv, CallInv
    <3>3. ~Shutdown(p)
      BY <3>2, <2>4, <2>6 DEF Shutdown
    <3> QED BY <1>9, <3>1, <3>3 DEF WorkerStep
  <2>7. CASE q # p
    <3>1. nest'[q] = nest[q]
      BY <1>9, <2>7 DEF WorkerStep, Start, ExecTask, TaskOver, Shutdown, Leave, Finish
    <3>2. target[h] = q
      <4>1. IsTask(h)
        BY <2>3, <2>4 DEF CallsInv, CallInv
      <4>2. HandlerOf(h, q, {"started", "running"})
        BY <2>3, <2>4, HeadOfNest
      <4> QED BY <4>1, <4>2 DEF HandlerOf
    <3>3. job'[h] = job[h]
      BY <1>9, <2>7, <3>2, WorkerMoves
    <3> QED BY <2>1, <2>2, <2>3, <2>4, <3>1, <3>3
  <2> QED BY <2>6, <2>7
<1> QED BY <1>2, <1>3, <1>5, <1>6, <1>7, <1>8, <1>9 DEF Next

-----------------------------------------------------------------------------
(* Close and JoinAll.                                                      *)

LEMMA CloseStep ==
  ASSUME TypeInv, CallsInv, HandlersInv, CloseInv, [Next]_vars
  PROVE  CloseInv'
<1> USE DEF TypeInv, TypeOK
<1>1. \A p \in Pipelines : closing[p] => closing'[p]
  <2>1. CASE UNCHANGED closing
    BY <2>1
  <2>2. ASSUME NEW c \in Calls, MarkClosing(c)
        PROVE  \A p \in Pipelines : closing[p] => closing'[p]
    BY <2>2 DEF MarkClosing
  <2> QED BY <2>1, <2>2 DEF Next, vars, BuildOne, BuildFails, BuildThrows, ClientCalls,
            WorkerCalls, Begin, Expire, ApiStep, Pick, PostCheck, Add, Arm, CloseCheck,
            CloseOne, CloseDone, JoinLock, JoinOne, JoinDone, WorkerStep, Start, ExecTask,
            TaskOver, Shutdown, Leave, pipeline
<1>2. CASE closed' = closed /\ pc' = pc /\ at' = at /\ kind' = kind
  BY <1>1, <1>2 DEF CloseInv, CloseIsComplete
<1>3. ASSUME NEW c \in Calls, ClientCalls(c) \/ WorkerCalls(c) \/ ApiStep(c) \/ Expire(c)
      PROVE  CloseInv'
  <2>1. ASSUME pc'[c] \in {"closing", "marking"}
        PROVE  \A p \in Pipelines : p < at'[c] => closing'[p]
    <3> SUFFICES ASSUME NEW p \in Pipelines, p < at'[c] PROVE closing'[p]
      OBVIOUS
    <3>1. p \in Nat /\ capacity \in Nat /\ at[c] \in Nat
      BY Constants, Capacity
    <3>2. CASE ClientCalls(c) \/ WorkerCalls(c)
      <4>1. PICK k \in Kinds, b \in Pipelines \cup {Nobody} : Begin(c, k, b)
        BY <3>2, Constants DEF ClientCalls, WorkerCalls
      <4> QED BY <4>1, <2>1 DEF Begin, Entry, Kinds
    <3>3. CASE CloseCheck(c)
      <4>1. at[c] = 0 /\ at' = at
        BY <3>3 DEF CloseCheck, CallsInv, CallInv
      <4> QED BY <3>1, <4>1
    <3>4. CASE CloseOne(c)
      BY <1>1, <3>1, <3>4 DEF CloseInv, CloseOne
    <3>5. CASE MarkClosing(c)
      <4>1. at[c] < capacity /\ at'[c] = at[c] + 1 /\ at[c] \in Pipelines
        BY <3>1, <3>5 DEF MarkClosing, CallsInv, CallInv, Pipelines
      <4>2. CASE p = at[c]
        BY <3>5, <4>2 DEF MarkClosing
      <4>3. CASE p < at[c]
        BY <1>1, <3>5, <4>3 DEF MarkClosing, CloseInv
      <4> QED BY <3>1, <4>1, <4>2, <4>3
    <3>6. pc'[c] \notin {"closing", "marking"} \/ (pc'[c] = pc[c] /\ at'[c] = at[c])
            \/ ClientCalls(c) \/ WorkerCalls(c) \/ CloseCheck(c) \/ CloseOne(c) \/ MarkClosing(c)
      BY <1>3 DEF ApiStep, Pick, AfterPick, PostCheck, Add, Arm, CloseDone, AfterClose,
                  JoinLock, JoinOne, JoinDone, Expire
    <3> QED BY <1>1, <2>1, <3>2, <3>3, <3>4, <3>5, <3>6 DEF CloseInv
  <2>2. \A d \in Calls : pc'[d] \in {"closing", "marking"} =>
          \A p \in Pipelines : p < at'[d] => closing'[p]
    BY <1>1, <1>3, <2>1, OthersKept DEF CloseInv
  <2>3. closed \/ (\E d \in Calls : kind[d] = "Close" /\ pc[d] = "returned")
          => \A p \in Pipelines : closing'[p]
    BY <1>1 DEF CloseInv, CloseIsComplete
  <2>4. closed' => closed \/ CloseDone(c)
    BY <1>3 DEF ClientCalls, WorkerCalls, Begin, Expire, ApiStep, Pick, PostCheck, Add, Arm,
                CloseCheck, CloseOne, MarkClosing, JoinLock, JoinOne, JoinDone
  <2>5. kind'[c] = "Close" /\ pc'[c] = "returned" =>
          closed \/ CloseDone(c) \/ (kind[c] = "Close" /\ pc[c] = "returned")
    <3> SUFFICES ASSUME kind'[c] = "Close", pc'[c] = "returned"
                 PROVE  closed \/ CloseDone(c) \/ (kind[c] = "Close" /\ pc[c] = "returned")
      OBVIOUS
    <3>1. CASE ClientCalls(c) \/ WorkerCalls(c)
      <4>1. PICK k \in Kinds, b \in Pipelines \cup {Nobody} : Begin(c, k, b)
        BY <3>1, Constants DEF ClientCalls, WorkerCalls
      <4> QED BY <4>1 DEF Begin, Entry, Kinds
    <3>2. CASE ApiStep(c)
      <4>1. kind[c] = "Close" /\ ~IsTask(c)
        BY <3>2, KindKept DEF IsTask
      <4>2. pc[c] \notin {"pick", "post", "adding", "lock", "joining"}
        BY <4>1 DEF CallsInv, CallInv
      <4>3. CASE CloseCheck(c)
        BY <4>3 DEF CloseCheck
      <4>4. CASE CloseOne(c) \/ MarkClosing(c)
        BY <4>4 DEF CloseOne, MarkClosing
      <4>5. ~(Pick(c) \/ PostCheck(c) \/ Add(c) \/ Arm(c))
        BY <4>2 DEF Pick, PostCheck, Add, Arm
      <4>6. ~(JoinLock(c) \/ JoinOne(c) \/ JoinDone(c))
        BY <4>2 DEF JoinLock, JoinOne, JoinDone
      <4> QED BY <3>2, <4>3, <4>4, <4>5, <4>6 DEF ApiStep
    <3>3. CASE Expire(c)
      BY <3>3 DEF Expire, ids
    <3> QED BY <1>3, <3>1, <3>2, <3>3
  <2>6. CloseDone(c) => \A p \in Pipelines : closing'[p]
    BY <1>1, Constants DEF CloseDone, CloseInv
  <2>7. CloseIsComplete'
    BY <1>3, <2>3, <2>4, <2>5, <2>6, OthersKept DEF CloseIsComplete
  <2> QED BY <2>2, <2>7 DEF CloseInv
<1>4. CASE BuildOne \/ BuildFails \/ BuildThrows \/ UNCHANGED vars
  BY <1>2, <1>4 DEF BuildOne, BuildFails, BuildThrows, ids, vars
<1>5. ASSUME NEW p \in Pipelines, WorkerStep(p)
      PROVE  CloseInv'
  BY <1>2, <1>5, WorkerMoves DEF ids
<1> QED BY <1>3, <1>4, <1>5 DEF Next

LEMMA JoinStep ==
  ASSUME TypeInv, CallsInv, HandlersInv, JoinInv, [Next]_vars
  PROVE  JoinInv'
<1> USE DEF TypeInv, TypeOK
<1>1. \A p \in Pipelines : left[p] => left'[p]
  <2>1. CASE UNCHANGED left
    BY <2>1
  <2>2. ASSUME NEW q \in Pipelines, Leave(q)
        PROVE  \A p \in Pipelines : left[p] => left'[p]
    BY <2>2 DEF Leave
  <2>3. CASE BuildOne \/ BuildFails \/ BuildThrows \/ UNCHANGED vars
    BY <2>1, <2>3, Zenon DEF vars, BuildOne, BuildFails, BuildThrows, pipeline
  <2>4. ASSUME NEW c \in Calls, ClientCalls(c) \/ WorkerCalls(c) \/ ApiStep(c) \/ Expire(c)
        PROVE  UNCHANGED left
    BY <2>4, Zenon DEF ClientCalls, WorkerCalls, Begin, Expire, ApiStep, Pick, PostCheck, Add, Arm,
                CloseCheck, CloseOne, MarkClosing, CloseDone, JoinLock, JoinOne, JoinDone, pipeline
  <2>5. ASSUME NEW p \in Pipelines, WorkerStep(p), ~Leave(p)
        PROVE  UNCHANGED left
    BY <2>5, Zenon DEF WorkerStep, Start, ExecTask, TaskOver, Shutdown
  <2> QED BY <2>1, <2>2, <2>3, <2>4, <2>5 DEF Next
<1>2. CASE finished' = finished /\ pc' = pc /\ at' = at /\ kind' = kind
  BY <1>1, <1>2 DEF JoinInv, Back
<1>3. ASSUME NEW c \in Calls, ClientCalls(c) \/ WorkerCalls(c) \/ ApiStep(c) \/ Expire(c)
      PROVE  JoinInv'
  <2>1. ASSUME pc'[c] = "joining", NEW p \in Pipelines, p < at'[c]
        PROVE  left'[p]
    <3>1. p \in Nat /\ capacity \in Nat /\ at[c] \in Nat
      BY Constants, Capacity
    <3>2. CASE ClientCalls(c) \/ WorkerCalls(c)
      <4>1. PICK k \in Kinds, b \in Pipelines \cup {Nobody} : Begin(c, k, b)
        BY <3>2, Constants DEF ClientCalls, WorkerCalls
      <4> QED BY <4>1, <2>1 DEF Begin, Entry, Kinds
    <3>3. CASE JoinLock(c)
      <4>1. at[c] = 0 /\ at' = at
        BY <3>3 DEF JoinLock, CallsInv, CallInv
      <4> QED BY <2>1, <3>1, <4>1
    <3>4. CASE JoinOne(c)
      <4>1. at'[c] = at[c] + 1 /\ left[at[c]] /\ pc[c] = "joining"
        BY <3>4 DEF JoinOne
      <4>2. CASE p = at[c]
        BY <1>1, <4>1, <4>2
      <4>3. CASE p < at[c]
        BY <1>1, <4>1, <4>3 DEF JoinInv
      <4> QED BY <2>1, <3>1, <4>1, <4>2, <4>3
    <3>5. (pc'[c] = pc[c] /\ at'[c] = at[c]) \/ ClientCalls(c) \/ WorkerCalls(c)
            \/ JoinLock(c) \/ JoinOne(c)
      BY <1>3, <2>1 DEF ApiStep, Pick, AfterPick, PostCheck, Add, Arm, CloseCheck, CloseOne,
                  MarkClosing, CloseDone, AfterClose, JoinDone, Expire
    <3> QED BY <1>1, <2>1, <3>2, <3>3, <3>4, <3>5 DEF JoinInv
  <2>2. \A d \in Calls : pc'[d] = "joining" => \A p \in Pipelines : p < at'[d] => left'[p]
    BY <1>1, <1>3, <2>1, OthersKept DEF JoinInv
  <2>3. finished \/ (\E d \in Calls : Back(d)) => \A p \in Pipelines : left'[p]
    BY <1>1 DEF JoinInv
  <2>4. finished' => finished \/ JoinDone(c)
    BY <1>3 DEF ClientCalls, WorkerCalls, Begin, Expire, ApiStep, Pick, PostCheck, Add, Arm,
                CloseCheck, CloseOne, MarkClosing, CloseDone, JoinLock, JoinOne
  <2>5. Back(c)' => finished \/ JoinDone(c) \/ Back(c)
    <3> SUFFICES ASSUME kind'[c] \in {"WaitUntilClosed", "Destroy"}, pc'[c] = "returned"
                 PROVE  finished \/ JoinDone(c) \/ Back(c)
      BY DEF Back
    <3>1. CASE ClientCalls(c) \/ WorkerCalls(c)
      <4>1. PICK k \in Kinds, b \in Pipelines \cup {Nobody} : Begin(c, k, b)
        BY <3>1, Constants DEF ClientCalls, WorkerCalls
      <4> QED BY <4>1 DEF Begin, Entry, Kinds
    <3>2. CASE ApiStep(c)
      <4>1. kind' = kind
        BY <3>2, KindKept
      <4>2. CASE Pick(c) \/ PostCheck(c) \/ Add(c) \/ Arm(c)
        BY <4>1, <4>2 DEF Pick, PostCheck, Add, Arm, CallsInv, CallInv, IsTask
      <4>3. CASE CloseCheck(c) \/ CloseOne(c) \/ MarkClosing(c) \/ CloseDone(c)
        BY <4>1, <4>3 DEF CloseCheck, CloseOne, MarkClosing, CloseDone, AfterClose,
                          CallsInv, CallInv
      <4>4. CASE JoinLock(c) \/ JoinOne(c)
        BY <4>4 DEF JoinLock, JoinOne
      <4> QED BY <3>2, <4>2, <4>3, <4>4 DEF ApiStep
    <3>3. CASE Expire(c)
      BY <3>3 DEF Expire, ids, Back
    <3> QED BY <1>3, <3>1, <3>2, <3>3
  <2>6. JoinDone(c) => \A p \in Pipelines : left'[p]
    BY <1>1, Constants DEF JoinDone, JoinInv
  <2>7. \A d \in Calls : Back(d)' => finished \/ JoinDone(c) \/ \E e \in Calls : Back(e)
    BY <1>3, <2>5, OthersKept DEF Back
  <2>8. finished' \/ (\E d \in Calls : Back(d)') => \A p \in Pipelines : left'[p]
    BY <2>3, <2>4, <2>6, <2>7
  <2> QED BY <2>2, <2>8 DEF JoinInv
<1>4. CASE BuildOne \/ BuildFails \/ BuildThrows \/ UNCHANGED vars
  BY <1>2, <1>4 DEF BuildOne, BuildFails, BuildThrows, ids, vars
<1>5. ASSUME NEW p \in Pipelines, WorkerStep(p)
      PROVE  JoinInv'
  BY <1>2, <1>5, WorkerMoves DEF ids
<1> QED BY <1>3, <1>4, <1>5 DEF Next

(* A post that begins when closed_ is set meets a pipeline that is closing. *)
LEMMA LateStep ==
  ASSUME TypeInv, CallsInv, HandlersInv, CloseInv, LateInv, [Next]_vars
  PROVE  LateInv'
<1> USE DEF TypeInv, TypeOK
<1>1. closed => closed'
  <2>1. CASE BuildOne \/ BuildFails \/ BuildThrows \/ UNCHANGED vars
    BY <2>1, Zenon DEF vars, BuildOne, BuildFails, BuildThrows
  <2>2. ASSUME NEW c \in Calls, ClientCalls(c) \/ WorkerCalls(c) \/ ApiStep(c) \/ Expire(c)
        PROVE  closed => closed'
    BY <2>2, Zenon DEF ClientCalls, WorkerCalls, Begin, Expire, ApiStep, Pick, PostCheck, Add, Arm,
                CloseCheck, CloseOne, MarkClosing, CloseDone, JoinLock, JoinOne, JoinDone
  <2>3. ASSUME NEW p \in Pipelines, WorkerStep(p)
        PROVE  closed => closed'
    BY <2>3, Zenon DEF WorkerStep, Start, ExecTask, TaskOver, Shutdown, Leave
  <2> QED BY <2>1, <2>2, <2>3 DEF Next
<1> SUFFICES ASSUME NEW d \in Calls, late'[d]
             PROVE  /\ closed' /\ kind'[d] \in {"Post", "PostWithTimer"}
                    /\ pc'[d] \in {"pick", "post", "returned"}
                    /\ job'[d] \in {"none", "dropped"}
                    /\ pc'[d] = "returned" => job'[d] = "dropped"
  BY DEF LateInv, IsTask
<1>2. CASE pc'[d] = pc[d] /\ job'[d] = job[d] /\ late'[d] = late[d] /\ kind'[d] = kind[d]
  BY <1>1, <1>2 DEF LateInv, IsTask
<1>3. CASE BuildOne \/ BuildFails \/ BuildThrows \/ UNCHANGED vars
  BY <1>2, <1>3 DEF BuildOne, BuildFails, BuildThrows, ids, vars
<1>4. ASSUME NEW c \in Calls, c # d,
             ClientCalls(c) \/ WorkerCalls(c) \/ ApiStep(c) \/ Expire(c)
      PROVE  pc'[d] = pc[d] /\ job'[d] = job[d] /\ late'[d] = late[d] /\ kind'[d] = kind[d]
  BY <1>4, OthersKept
<1>5. CASE ClientCalls(d) \/ WorkerCalls(d)
  <2>1. PICK k \in Kinds, b \in Pipelines \cup {Nobody} : Begin(d, k, b)
    BY <1>5, Constants DEF ClientCalls, WorkerCalls
  <2>2. job[d] = "none"
    BY <2>1 DEF Begin, CallsInv, CallInv
  <2> QED BY <1>1, <2>1, <2>2 DEF Begin, Entry
<1>6. CASE ApiStep(d)
  <2>1. /\ late[d] /\ closed /\ IsTask(d) /\ kind' = kind /\ pc[d] \in {"pick", "post"} /\ job[d] = "none"
    BY <1>6, KindKept DEF LateInv, CallsInv, CallInv, ApiStep, Pick, PostCheck, Add, Arm,
          CloseCheck, CloseOne, MarkClosing, CloseDone, JoinLock, JoinOne, JoinDone
  <2>2. CASE Pick(d)
    BY <1>1, <2>1, <2>2 DEF Pick, AfterPick, IsTask
  <2>3. CASE PostCheck(d)
    <3>1. closing[target[d]]
      BY <2>1, <2>3 DEF PostCheck, CallsInv, CallInv, CloseInv, CloseIsComplete
    <3> QED BY <1>1, <2>1, <2>3, <3>1 DEF PostCheck, IsTask
  <2> QED BY <1>6, <2>1, <2>2, <2>3 DEF ApiStep, Add, Arm, CloseCheck, CloseOne,
            MarkClosing, CloseDone, JoinLock, JoinOne, JoinDone
<1>7. CASE Expire(d)
  BY <1>7 DEF Expire, ids, LateInv, IsTask
<1>8. ASSUME NEW p \in Pipelines, WorkerStep(p)
      PROVE  pc'[d] = pc[d] /\ job'[d] = job[d] /\ late'[d] = late[d] /\ kind'[d] = kind[d]
  BY <1>8, WorkerMoves DEF ids, LateInv, IsTask
<1> QED BY <1>2, <1>3, <1>4, <1>5, <1>6, <1>7, <1>8 DEF Next
-----------------------------------------------------------------------------
(* The round robin.                                                        *)

(* What one turn adds to the tasks given.                                  *)
LEMMA PickGives ==
  ASSUME TypeInv, CallsInv, IsFiniteSet(AllChosen), NEW c \in Calls, Pick(c)
  PROVE  /\ IsFiniteSet(AllChosen') /\ Picked \in Nat /\ Picked' = Picked + 1
         /\ \A p \in Pipelines : /\ Given(p) \in Nat
                                 /\ Given(p)' = IF p = Inc(next) % capacity
                                                THEN Given(p) + 1 ELSE Given(p)
<1>1. PICK t \in Pipelines : t = Inc(next) % capacity
  BY TurnTyping DEF TypeInv, TypeOK
<1>2. /\ target[c] = Nobody /\ target'[c] = t /\ t # Nobody
      /\ \A d \in Calls : d # c => target'[d] = target[d]
  BY <1>1, Constants DEF Pick, CallsInv, CallInv, TypeInv, TypeOK
<1>3. AllChosen' = AllChosen \cup {c} /\ c \notin AllChosen
  BY <1>2 DEF AllChosen
<1>4. /\ IsFiniteSet(AllChosen') /\ Cardinality(AllChosen) \in Nat
      /\ Cardinality(AllChosen') = Cardinality(AllChosen) + 1
  BY <1>3, FS_AddElement, FS_CardinalityType
<1>5. Picked = Cardinality(AllChosen) /\ Picked' = Cardinality(AllChosen')
  BY DEF Picked, AllChosen
<1>6. ASSUME NEW p \in Pipelines
      PROVE  /\ Given(p) \in Nat
             /\ Given(p)' = IF p = t THEN Given(p) + 1 ELSE Given(p)
  <2>1. Chosen(p) \subseteq AllChosen
    BY Constants DEF Chosen, AllChosen
  <2>2. IsFiniteSet(Chosen(p)) /\ Cardinality(Chosen(p)) \in Nat
    BY <2>1, FS_Subset, FS_CardinalityType
  <2>3. Given(p) = Cardinality(Chosen(p)) /\ Given(p)' = Cardinality(Chosen(p)')
    BY DEF Given, Chosen
  <2>4. CASE p = t
    <3>1. Chosen(p)' = Chosen(p) \cup {c} /\ c \notin Chosen(p)
      BY <1>2, <2>4, Constants DEF Chosen
    <3>2. Cardinality(Chosen(p)') = Cardinality(Chosen(p)) + 1
      BY <2>2, <3>1, FS_AddElement
    <3> QED BY <2>2, <2>3, <2>4, <3>2
  <2>5. CASE p # t
    <3>1. Chosen(p)' = Chosen(p)
      BY <1>2, <2>5, Constants DEF Chosen
    <3> QED BY <2>2, <2>3, <2>5, <3>1
  <2> QED BY <2>4, <2>5
<1> QED BY <1>1, <1>4, <1>5, <1>6

LEMMA TurnStep ==
  ASSUME TypeInv, CallsInv, HandlersInv, TurnInv, [Next]_vars
  PROVE  TurnInv'
<1>1. CASE target' = target /\ next' = next
  <2>1. AllChosen' = AllChosen /\ Picked' = Picked
    BY <1>1 DEF AllChosen, Picked
  <2>2. \A p \in Pipelines : Given(p)' = Given(p) /\ Ahead(p)' = Ahead(p)
    BY <1>1 DEF Given, Ahead
  <2> QED BY <1>1, <2>1, <2>2 DEF TurnInv
<1>2. ASSUME NEW c \in Calls, Pick(c)
      PROVE  TurnInv'
  <2>1. PICK w \in Nat :
          /\ Picked = w * (UintMax + 1) + next
          /\ \A p, q \in Pipelines : Given(p) + Ahead(q) <= Given(q) + Ahead(p) + w
    BY DEF TurnInv
  <2>2. /\ next \in Nat /\ next <= UintMax /\ UintMax \in Nat /\ capacity \in Nat
        /\ 0 < capacity
    BY Capacity DEF TypeInv, TypeOK
  <2>3. PICK s \in Nat : s = next % capacity /\ s < capacity
    BY <2>2, Division
  <2>4. PICK t \in Pipelines : t = Inc(next) % capacity
    BY TurnTyping DEF TypeInv, TypeOK
  <2>5. /\ IsFiniteSet(AllChosen') /\ Picked \in Nat /\ Picked' = Picked + 1
        /\ \A p \in Pipelines : /\ Given(p) \in Nat
                                /\ Given(p)' = IF p = t THEN Given(p) + 1 ELSE Given(p)
    BY <1>2, <2>1, <2>4, PickGives DEF TurnInv
  <2>6. next' = Inc(next) /\ t = next' % capacity
    BY <1>2, <2>4 DEF Pick
  <2>7. \A p \in Pipelines : /\ p \in Nat /\ p < capacity
                             /\ Ahead(p) = IF 1 <= p /\ p <= s THEN 1 ELSE 0
                             /\ Ahead(p)' = IF 1 <= p /\ p <= t THEN 1 ELSE 0
    BY <2>3, <2>6, Constants DEF Ahead
  (* The counter wraps: pipeline 0 is next whoever had the turn.           *)
  <2>8. CASE next = UintMax
    <3>1. next' = 0 /\ t = 0
      BY <2>2, <2>6, <2>8, NextRemainder DEF Inc
    <3>2. Picked' = (w + 1) * (UintMax + 1) + next'
      BY <2>1, <2>2, <2>5, <2>8, <3>1
    <3>3. ASSUME NEW p \in Pipelines, NEW q \in Pipelines
          PROVE  Given(p)' + Ahead(q)' <= Given(q)' + Ahead(p)' + (w + 1)
      <4>1. Given(p) + Ahead(q) <= Given(q) + Ahead(p) + w
        BY <2>1
      <4> QED BY <4>1, <2>5, <2>7, <3>1
    <3> QED BY <2>5, <3>2, <3>3 DEF TurnInv
  (* It does not: the turn passes to the next pipeline.                    *)
  <2>9. CASE next # UintMax
    <3>1. next' = next + 1
      BY <2>6, <2>9 DEF Inc
    <3>2. t = IF s + 1 = capacity THEN 0 ELSE s + 1
      BY <2>2, <2>3, <2>6, <3>1, NextRemainder
    <3>3. Picked' = w * (UintMax + 1) + next'
      BY <2>1, <2>2, <2>5, <3>1
    <3>4. ASSUME NEW p \in Pipelines, NEW q \in Pipelines
          PROVE  Given(p)' + Ahead(q)' <= Given(q)' + Ahead(p)' + w
      <4>1. Given(p) + Ahead(q) <= Given(q) + Ahead(p) + w
        BY <2>1
      <4> QED BY <4>1, <2>3, <2>5, <2>7, <3>2
    <3> QED BY <2>5, <3>3, <3>4 DEF TurnInv
  <2> QED BY <2>8, <2>9
<1>3. ASSUME NEW p \in Pipelines, WorkerStep(p)
      PROVE  target' = target /\ next' = next
  BY <1>3, WorkerMoves
<1> QED BY <1>1, <1>2, <1>3 DEF Next, vars, BuildOne, BuildFails, BuildThrows, ClientCalls,
            WorkerCalls, Begin, Expire, ApiStep, PostCheck, Add, Arm, CloseCheck,
            CloseOne, MarkClosing, CloseDone, JoinLock, JoinOne, JoinDone
-----------------------------------------------------------------------------
(* Theorems.                                                               *)

(* The inductive invariant: what is where, who made it so, and whose turn  *)
(* it is, between any two steps of the pool's calls and workers.           *)
THEOREM Invariant == Spec => [](SafetyInv /\ TurnInv)
<1>1. Init => SafetyInv /\ TurnInv
  <2> SUFFICES ASSUME Init PROVE TurnInv
    BY InitSafe
  <2>1. /\ AllChosen = {} /\ next = 0
        /\ \A p \in Pipelines : {c \in Calls : target[c] = p} = {}
    BY Constants DEF Init, AllChosen
  <2>2. IsFiniteSet({}) /\ Cardinality({}) = 0
    BY FS_EmptySet
  <2>3. Picked = 0 /\ \A p \in Pipelines : Given(p) = 0
    BY <2>1, <2>2 DEF Picked, Given, AllChosen
  <2>4. 0 % capacity = 0 /\ 0 = 0 * (UintMax + 1) + 0
    BY Capacity, NextRemainder
  <2>5. \A p \in Pipelines : Ahead(p) = 0
    BY <2>1, <2>4, Constants DEF Ahead
  <2>6. /\ Picked = 0 * (UintMax + 1) + next
        /\ \A p, q \in Pipelines : Given(p) + Ahead(q) <= Given(q) + Ahead(p) + 0
    BY <2>1, <2>3, <2>4, <2>5
  <2> QED BY <2>1, <2>2, <2>6 DEF TurnInv
<1>2. SafetyInv /\ TurnInv /\ [Next]_vars => (SafetyInv /\ TurnInv)'
  BY TypeStep, CallsStep, HandlersStep, WorkersStep, CloseStep, JoinStep, LateStep, TurnStep
  DEF SafetyInv
<1> QED BY <1>1, <1>2, PTL DEF Spec

(* Every variable has its type: no loop of Close or JoinAll leaves pool_.  *)
THEOREM TypeCorrect == Spec => []TypeOK
<1>1. SafetyInv => TypeOK
  BY DEF SafetyInv, TypeInv
<1> QED BY <1>1, Invariant, PTL

(* When one Close is back, or closed_ is set, every pipeline is closing,   *)
(* however many threads and tasks close the pool at a time.                *)
THEOREM CloseCorrect == Spec => []CloseIsComplete
<1>1. SafetyInv => CloseIsComplete
  BY DEF SafetyInv, CloseInv
<1> QED BY <1>1, Invariant, PTL

(* A post that begins after closed_ is set is never queued.                *)
THEOREM LateCorrect == Spec => []LatePostDropped
<1>1. SafetyInv => LatePostDropped
  BY DEF SafetyInv, LateInv, LatePostDropped
<1> QED BY <1>1, Invariant, PTL

(* Who is back from JoinAll finds no worker, and no task inside the pool.  *)
THEOREM JoinCorrect == Spec => []JoinedMeansLeft
<1>1. SafetyInv => JoinedMeansLeft
  <2> SUFFICES ASSUME SafetyInv,
                      \/ finished
                      \/ \E c \in Calls : kind[c] \in {"WaitUntilClosed", "Destroy"}
                                          /\ pc[c] = "returned",
                      NEW p \in Pipelines
               PROVE  left[p] /\ ~WorkerInApi(p)
    BY DEF JoinedMeansLeft
  <2>1. left[p]
    BY DEF SafetyInv, JoinInv, Back
  <2>2. nest[p] = << >>
    BY <2>1 DEF SafetyInv, HandlersInv, NestInv
  <2>3. ~WorkerInApi(p)
    BY <2>2, Constants DEF SafetyInv, WorkersInv, WorkerInApi
  <2> QED BY <2>1, <2>3
<1> QED BY <1>1, Invariant, PTL

(* No pipeline is given more than one task over any other, but for one     *)
(* more each time the counter wraps.                                       *)
THEOREM RoundRobinCorrect == Spec => []RoundRobin
<1>1. SafetyInv /\ TurnInv => RoundRobin
  <2> SUFFICES ASSUME SafetyInv, TurnInv, NEW p \in Pipelines, NEW q \in Pipelines
               PROVE  Given(p) <= Given(q) + 1 + Picked \div (UintMax + 1)
    BY DEF RoundRobin
  <2>1. PICK w \in Nat :
          /\ Picked = w * (UintMax + 1) + next
          /\ Given(p) + Ahead(q) <= Given(q) + Ahead(p) + w
    BY DEF TurnInv
  <2>2. UintMax + 1 \in Nat /\ 0 < UintMax + 1 /\ next \in Nat /\ next < UintMax + 1
    BY Capacity DEF SafetyInv, TypeInv, TypeOK
  <2>3. Picked \div (UintMax + 1) = w
    BY <2>1, <2>2, QuotientIs
  <2>4. Ahead(p) \in 0 .. 1 /\ Ahead(q) \in 0 .. 1
    BY DEF Ahead
  <2>5. \A r \in Pipelines : Given(r) \in Nat
    <3> SUFFICES ASSUME NEW r \in Pipelines PROVE Given(r) \in Nat
      OBVIOUS
    <3>1. Chosen(r) \subseteq AllChosen /\ IsFiniteSet(AllChosen)
      BY Constants DEF Chosen, AllChosen, TurnInv
    <3>2. Cardinality(Chosen(r)) \in Nat
      BY <3>1, FS_Subset, FS_CardinalityType
    <3> QED BY <3>2 DEF Given, Chosen
  <2> QED BY <2>1, <2>3, <2>4, <2>5
<1> QED BY <1>1, Invariant, PTL

-----------------------------------------------------------------------------
(* The pipelines of a pool are task sequencers.                            *)

(* Who is no handler of a pipeline is fresh to its sequencer.              *)
LEMMA StrangerIsFresh ==
  ASSUME SafetyInv, NEW p \in Pipelines, NEW c \in Calls,
         \A fates \in Fates : ~HandlerOf(c, p, fates)
  PROVE  Sequencer(p)!Fresh(c)
<1>1. {"queued"} \in Fates /\ {"started", "running"} \in Fates /\ {"ran", "dismissed"} \in Fates
  BY DEF Fates
<1>2. LineInv(p) /\ NestInv(p) /\ OverInv(p)
  BY DEF SafetyInv, HandlersInv
<1>3. c \notin over[p]
  BY <1>1, <1>2 DEF OverInv
<1>4. \A i \in 1 .. Len(line[p]) : line[p][i] # c
  BY <1>1, <1>2 DEF LineInv
<1>5. \A i \in 1 .. Len(nest[p]) : nest[p][i] # c
  <2>1. CASE nest[p] = << >>
    BY <2>1
  <2>2. CASE nest[p] # << >>
    <3>1. nest[p] = <<Head(nest[p])>> /\ Head(nest[p]) # c
      BY <1>1, <1>2, <2>2 DEF NestInv
    <3>2. PICK h : nest[p] = <<h>> /\ h # c
      BY <3>1
    <3> QED BY <3>2
  <2> QED BY <2>1, <2>2
<1> QED BY <1>3, <1>4, <1>5 DEF Sequencer!Fresh

(* A step of the pool is, for each of its pipelines, a step of a task      *)
(* sequencer or none.                                                      *)
LEMMA SequencerStep ==
  ASSUME SafetyInv, Next, NEW p \in Pipelines
  PROVE  Sequencer(p)!SequencerNext \/ UNCHANGED Sequencer(p)!sequencer
<1> USE DEF Sequencer!SequencerNext, Sequencer!sequencer
<1> TypeInv /\ CallsInv /\ HandlersInv
  BY DEF SafetyInv
<1>1. CASE UNCHANGED pipeline
  BY <1>1 DEF pipeline
<1>2. ASSUME NEW c \in Calls, NEW q \in Pipelines, Append_(q, c),
             UNCHANGED <<nest, over, shut, left>>,
             \A fates \in Fates : ~HandlerOf(c, q, fates)
      PROVE  Sequencer(p)!SequencerNext \/ UNCHANGED Sequencer(p)!sequencer
  <2>1. CASE p # q
    BY <1>2, <2>1 DEF Append_, TypeInv, TypeOK
  <2>2. CASE p = q
    <3>1. Sequencer(p)!Fresh(c)
      BY <1>2, <2>2, StrangerIsFresh
    <3>2. line'[p] = Append(line[p], c)
      BY <1>2, <2>2 DEF Append_, TypeInv, TypeOK
    <3>3. Sequencer(p)!Accept(c)
      BY <1>2, <3>1, <3>2 DEF Sequencer!Accept
    <3> QED BY <3>3
  <2> QED BY <2>1, <2>2
<1>3. ASSUME NEW c \in Calls, Add(c) \/ Expire(c)
      PROVE  Sequencer(p)!SequencerNext \/ UNCHANGED Sequencer(p)!sequencer
  <2>1. IsTask(c) /\ job[c] \in {"none", "armed"} /\ target[c] \in Pipelines
    BY <1>3 DEF Add, Expire, CallsInv, CallInv, IsTask, TypeInv, TypeOK
  <2>2. \A fates \in Fates : ~HandlerOf(c, target[c], fates)
    BY <2>1 DEF HandlerOf, Fates
  <2>3. /\ UNCHANGED <<nest, over, shut, left>>
        /\ Append_(target[c], c) \/ line' = line
    BY <1>3 DEF Add, Expire
  <2> QED BY <1>1, <1>2, <2>1, <2>2, <2>3 DEF pipeline
<1>4. ASSUME NEW c \in Calls, CloseOne(c)
      PROVE  Sequencer(p)!SequencerNext \/ UNCHANGED Sequencer(p)!sequencer
  <2>1. /\ kind[c] \in {"Close", "Destroy"} /\ pc[c] = "closing"
        /\ at[c] \in Nat /\ at[c] \in Pipelines
    BY <1>4, Capacity DEF CallsInv, CallInv, TypeInv, TypeOK, CloseOne, Pipelines
  <2>2. \A fates \in Fates : ~HandlerOf(c, at[c], fates)
    BY <2>1 DEF HandlerOf, IsTask, PastClose
  <2>3. /\ UNCHANGED <<nest, over, shut, left>>
        /\ Append_(at[c], c) \/ line' = line
    BY <1>4 DEF CloseOne
  <2> QED BY <1>1, <1>2, <2>1, <2>2, <2>3 DEF pipeline
<1>5. ASSUME NEW q \in Pipelines, WorkerStep(q), q # p
      PROVE  UNCHANGED Sequencer(p)!sequencer
  BY <1>5 DEF WorkerStep, Start, ExecTask, TaskOver, Shutdown, Leave, Finish, TypeInv, TypeOK
<1>6. CASE WorkerStep(p)
  <2> USE DEF TypeInv, TypeOK
  <2>1. CASE Start(p)
    <3>1. Sequencer(p)!Start
      BY <2>1 DEF Start, Between, Sequencer!Start
    <3> QED BY <3>1
  <2>2. nest[p] # << >> => /\ nest[p] = <<Head(nest[p])>> /\ ~shut[p] /\ ~left[p]
    BY DEF HandlersInv, NestInv
  <2>3. ASSUME nest[p] # << >>, Finish(p), UNCHANGED <<line, shut, left>>
        PROVE  Sequencer(p)!Finish
    <3>1. over'[p] = over[p] \cup {Head(nest[p])} /\ nest'[p] = << >>
      BY <2>3 DEF Finish
    <3>2. Tail(nest[p]) = << >>
      <4>1. PICK h : nest[p] = <<h>>
        BY <2>2, <2>3
      <4> QED BY <4>1
    <3> QED BY <2>3, <3>1, <3>2 DEF Sequencer!Finish
  <2>4. CASE ExecTask(p)
    <3>1. nest[p] # << >> /\ UNCHANGED <<line, shut, left>>
      BY <2>4 DEF ExecTask
    <3>2. Finish(p) \/ UNCHANGED <<nest, over>>
      BY <2>4, ExecCases DEF Finish
    <3> QED BY <1>1, <2>3, <3>1, <3>2
  <2>5. CASE TaskOver(p)
    BY <2>3, <2>5 DEF TaskOver, Running
  <2>6. CASE Shutdown(p)
    <3>1. /\ nest[p] # << >> /\ ~shut[p] /\ shut'[p] = TRUE
          /\ over'[p] = over[p] \cup {Head(nest[p])} /\ nest'[p] = << >>
          /\ UNCHANGED <<line, left>>
      BY <2>2, <2>6 DEF Shutdown, Finish
    <3>2. Len(nest[p]) = 1 /\ nest[p][1] = Head(nest[p])
      <4>1. PICK h : nest[p] = <<h>>
        BY <2>2, <3>1
      <4> QED BY <4>1
    <3>3. Sequencer(p)!Shut
      BY <3>1, <3>2 DEF Sequencer!Shut
    <3> QED BY <3>3
  <2>7. CASE Leave(p)
    <3>1. Sequencer(p)!Leave
      BY <2>7 DEF Leave, Sequencer!Leave
    <3> QED BY <3>1
  <2> QED BY <1>6, <2>1, <2>4, <2>5, <2>6, <2>7 DEF WorkerStep
<1>7. ASSUME NEW c \in Calls, ClientCalls(c) \/ WorkerCalls(c)
      PROVE  UNCHANGED pipeline
  BY <1>7 DEF ClientCalls, WorkerCalls, Begin
<1>8. ASSUME NEW c \in Calls, ApiStep(c), ~Add(c), ~CloseOne(c)
      PROVE  UNCHANGED <<line, nest, over, shut, left>>
  BY <1>8 DEF ApiStep, Pick, PostCheck, Arm, CloseCheck, MarkClosing, CloseDone, JoinLock,
              JoinOne, JoinDone, pipeline
<1>9. CASE UNCHANGED <<line, nest, over, shut, left>>
  BY <1>9
<1>10. CASE BuildOne \/ BuildFails \/ BuildThrows
  BY <1>1, <1>10 DEF BuildOne, BuildFails, BuildThrows
<1> QED BY <1>1, <1>3, <1>4, <1>5, <1>6, <1>7, <1>8, <1>9, <1>10 DEF Next

(* Whatever the calls on the pool, each pipeline executes one handler at a *)
(* time, each at most once and in order, and none after it is shut.        *)
THEOREM SequencersCorrect == Spec => PipelinesAreSequencers
<1>1. SafetyInv /\ [Next]_vars =>
        [\A p \in Pipelines :
           Sequencer(p)!SequencerNext \/ UNCHANGED Sequencer(p)!sequencer]_vars
  BY SequencerStep
<1> QED BY <1>1, Invariant, PTL DEF Spec, PipelinesAreSequencers

(* Each pipeline of the pool implements a task sequencer.                  *)
THEOREM PoolImplementsSequencers ==
  ASSUME NEW p \in Pipelines
  PROVE  Spec => Sequencer(p)!SequencerSpec
<1>1. Init => Sequencer(p)!SequencerInit
  BY DEF Init, Sequencer!SequencerInit
<1>2. SafetyInv /\ [Next]_vars =>
        [Sequencer(p)!SequencerNext]_(Sequencer(p)!sequencer)
  <2>1. CASE Next
    BY <2>1, SequencerStep
  <2>2. CASE UNCHANGED vars
    BY <2>2 DEF vars, Sequencer!sequencer
  <2> QED BY <2>1, <2>2
<1> QED BY <1>1, <1>2, Invariant, PTL DEF Spec, Sequencer!SequencerSpec
=============================================================================
