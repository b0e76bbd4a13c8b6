-------------------------- MODULE LogEngineProofs ---------------------------
(* Theorems about LogEngine, for any number of statements and handlers,    *)
(* any levels and flags and any number of engines.                         *)
EXTENDS LogEngine, TLAPS

-----------------------------------------------------------------------------
(* The invariant.                                                          *)

InPlace == {handlers[i] : i \in 1 .. Len(handlers)}
Reading == {"reading", "level", "filter"}
Looping == {"surveying", "raising"}
Updating == Looping \cup {"storing", "level", "filter"}

(* lock_ excludes, and the position belongs to the loop of who has it.     *)
LockInv ==
  /\ \A m \in Messages : pc[m] = "delivering" <=> lock = m
  /\ \A h \in Handlers : add[h] \in Updating <=> lock = h
  /\ at \in 1 .. Len(handlers) + 1
  /\ \A h \in Handlers : add[h] \in Looping => at \in 1 .. Len(handlers)
  /\ \A h \in Handlers : add[h] \in Updating \ Looping => at = 1
  /\ lock = Nobody => at = 1

(* handlers_ has the handlers added to this engine, each once.             *)
HandlersInv ==
  /\ \A h \in Handlers : h \in InPlace <=> add[h] \in Updating \cup {"pushed", "added"}
  /\ \A i, j \in 1 .. Len(handlers) : handlers[i] = handlers[j] => i = j

(* Without an engine there is no handler, no level and no filter, and no   *)
(* statement that found its filter.                                        *)
EngineInv ==
  /\ ~instance => handlers = << >> /\ current_level = 0 /\ current_filter = {}
  /\ \A m \in Messages : pc[m] \in {"level", "locking", "delivering"} => instance

(* What the loop of UpdateLevelAndFilter has found covers the handlers it  *)
(* is past, and in the end those of every AddHandler call.                 *)
LevelsInv ==
  /\ \A g \in Handlers : add[g] \in Looping =>
       \A k \in 1 .. at - 1 : handlers[k] \notin sets => handlerLevel[handlers[k]] <= top
  /\ \A g \in Handlers : add[g] = "raising" => top <= handlerLevel[handlers[at]]
  /\ \A g \in Handlers : add[g] \in {"storing", "level"} =>
       \A h \in InPlace \ sets : handlerLevel[h] <= top
  /\ \A g \in Handlers : add[g] = "filter" =>
       \A h \in InPlace \ sets : handlerLevel[h] <= current_level

(* The statics have what the last update found.                            *)
LevelsCover == \A h \in Handlers \ sets : add[h] = "added" => handlerLevel[h] <= current_level

FiltersCover ==
  /\ \A h \in Handlers : add[h] = "added" => handlerFilter[h] \subseteq current_filter
  /\ \A g \in Handlers : add[g] = "level" =>
       \A h \in InPlace : handlerFilter[h] \subseteq current_filter

CoverInv == FiltersCover /\ (~torn => LevelsInv /\ LevelsCover)

(* Nothing of this is in a handler yet but what the loop has delivered,    *)
(* which is the last there.                                                *)
OrderInv ==
  /\ \A m \in Messages : pc[m] \notin {"delivering", "done"} => \A h \in Handlers : ~Got(h, m)
  /\ \A m \in Messages : pc[m] = "delivering" => \A h \in Handlers : 
       /\ \A i \in 1 .. Len(received[h]) : received[h][i] = m => i = Len(received[h])
       /\ Got(h, m) => \E k \in 1 .. at - 1 : handlers[k] = h
  /\ SameOrder

Due(h, m) == h \in audience[m] \ sets /\ Wants(h, m)

(* The audience stays, is relevant, and has got what the loop is past.     *)
AudienceInv ==
  \A m \in Messages :
    /\ pc[m] \in Reading \cup {"locking", "delivering"} =>
         \A h \in audience[m] : add[h] = "added"
    /\ pc[m] = "irrelevant" /\ ~torn => \A h \in Handlers : ~Due(h, m)
    /\ pc[m] = "delivering" =>
         \A k \in 1 .. at - 1 : Due(handlers[k], m) => Got(handlers[k], m)
    /\ pc[m] = "done" => \A h \in Handlers : Due(h, m) => Got(h, m)

(* Some handler in place has level l.                                      *)
Reached(l) == \E h \in InPlace : l <= handlerLevel[h]

(* The statics have no more than the handlers do, and a statement that has *)
(* passed a test finds a handler.                                          *)
StaticsBacked ==
  /\ current_level = 0 \/ Reached(current_level)
  /\ current_filter # {} => InPlace # {}
  /\ \A g \in Handlers : add[g] \in Looping => top = 0 \/ Reached(top)
  /\ \A g \in Handlers : add[g] \in {"storing", "level"} => Reached(top)
  /\ (\A g \in Handlers : add[g] \notin Updating) => top = 0

TestsBacked(m) ==
  /\ pc[m] = "filter" => level[m] = 0 \/ Reached(level[m])
  /\ pc[m] = "level" => InPlace # {}
  /\ pc[m] = "locking" => Reached(level[m])

LoopBacked(m) ==
  /\ pc[m] = "delivering" =>
       \/ \E h \in Handlers : Got(h, m)
       \/ \E k \in at .. Len(handlers) : level[m] <= handlerLevel[handlers[k]]
  /\ pc[m] = "done" => \E h \in Handlers : Got(h, m)

RelevanceInv ==
  sets = {} => StaticsBacked /\ \A m \in Messages : TestsBacked(m) /\ LoopBacked(m)

(* TypeOK; that the position is within bounds follows from LockInv.        *)
TypeInv ==
  /\ instance \in BOOLEAN /\ lives \in 0 .. MaxLives
  /\ pc \in [Messages -> {"idle", "reading", "level", "filter", "locking",
                          "delivering", "done", "irrelevant"}]
  /\ level \in [Messages -> Levels] /\ filter \in [Messages -> Filters]
  /\ audience \in [Messages -> SUBSET Handlers]
  /\ add \in [Handlers -> {"new", "pushed", "surveying", "raising", "storing", "level",
                           "filter", "added", "removed"}]
  /\ handlerLevel \in [Handlers -> Levels] /\ handlerFilter \in [Handlers -> Filters]
  /\ received \in [Handlers -> Seq(Messages)]
  /\ handlers \in Seq(Handlers)
  /\ lock \in Messages \cup Handlers \cup {Nobody}
  /\ top \in Levels /\ current_level \in Levels /\ current_filter \in Filters
  /\ sets \subseteq Handlers /\ torn \in BOOLEAN

IInv == /\ TypeInv /\ LockInv /\ HandlersInv /\ EngineInv
        /\ CoverInv /\ OrderInv /\ AudienceInv /\ RelevanceInv

-----------------------------------------------------------------------------
(* handlers_.                                                              *)

(* push_back puts h behind what was there.                                 *)
LEMMA PushBackPlaces ==
  ASSUME TypeInv, NEW h \in Handlers, PushBack(h)
  PROVE  /\ handlers' \in Seq(Handlers) /\ Len(handlers') = Len(handlers) + 1
         /\ handlers'[Len(handlers) + 1] = h
         /\ \A i \in 1 .. Len(handlers) : handlers'[i] = handlers[i]
         /\ InPlace' = InPlace \cup {h}
<1>1. handlers' = Append(handlers, h) /\ handlers \in Seq(Handlers)
  BY DEF PushBack, TypeInv
<1>2. /\ handlers' \in Seq(Handlers) /\ Len(handlers') = Len(handlers) + 1
      /\ handlers'[Len(handlers) + 1] = h
      /\ \A i \in 1 .. Len(handlers) : handlers'[i] = handlers[i]
  BY <1>1
<1>3. 1 .. Len(handlers') = 1 .. Len(handlers) \cup {Len(handlers) + 1}
  BY <1>1, <1>2
<1>4. InPlace' = InPlace \cup {h}
  BY <1>2, <1>3 DEF InPlace
<1> QED BY <1>2, <1>4

(* Who updates is in place, and there is an engine.                        *)
LEMMA UpdaterInPlace ==
  ASSUME IInv, NEW h \in Handlers, add[h] \in Updating \cup {"pushed"}
  PROVE  h \in InPlace /\ handlers # << >> /\ Len(handlers) >= 1 /\ instance
         /\ (add[h] \in Updating => lock = h)
<1>1. h \in InPlace /\ (add[h] \in Updating => lock = h)
  BY DEF IInv, HandlersInv, LockInv
<1>2. Len(handlers) # 0
  BY <1>1 DEF InPlace, IInv, TypeInv
<1>3. handlers # << >> /\ Len(handlers) >= 1
  BY <1>2 DEF IInv, TypeInv
<1> QED BY <1>1, <1>3 DEF IInv, EngineInv, TypeInv

(* A round of the loop of UpdateLevelAndFilter, from position to position. *)
LEMMA RoundMoves ==
  ASSUME IInv, NEW h \in Handlers, Compare(h) \/ Raise(h)
  PROVE  /\ add[h] \in Looping /\ at \in 1 .. Len(handlers) /\ lock = h /\ lock' = h
         /\ Len(handlers) \in Nat /\ handlers[at] \in Handlers
         /\ \A g \in Handlers : g # h => add'[g] = add[g] /\ add[g] \notin Updating
         /\ \/ add'[h] = "raising" /\ at' = at /\ top' = top /\ Compare(h)
            \/ add'[h] = "surveying" /\ at' = at + 1 /\ at < Len(handlers)
            \/ add'[h] = "storing" /\ at' = 1 /\ at = Len(handlers)
         /\ UNCHANGED <<handlers, handlerLevel, handlerFilter, sets, torn, current_level,
                       current_filter>>
<1> USE DEF IInv, TypeInv, message, handler, current, engine, history
<1>1. add[h] \in Looping /\ UNCHANGED <<handlers, lock, handlerLevel, handlerFilter, sets, torn,
                                       current_level, current_filter>>
  BY DEF Compare, Raise, Looping
<1>2. lock = h /\ at \in 1 .. Len(handlers) /\ Len(handlers) \in Nat
  BY <1>1 DEF LockInv, Updating
<1>3. handlers[at] \in Handlers
  BY <1>2
<1>4. \A g \in Handlers : g # h => add'[g] = add[g] /\ add[g] \notin Updating
  BY <1>2 DEF Compare, Raise, NextRound, LockInv
<1>5. \/ add'[h] = "raising" /\ at' = at /\ top' = top /\ Compare(h)
      \/ add'[h] = "surveying" /\ at' = at + 1 /\ at < Len(handlers)
      \/ add'[h] = "storing" /\ at' = 1 /\ at = Len(handlers)
  BY <1>2 DEF Compare, Raise, NextRound
<1> QED BY <1>1, <1>2, <1>3, <1>4, <1>5

-----------------------------------------------------------------------------
(* Types.                                                                  *)
LEMMA TypeStep ==
  ASSUME IInv, [Next]_vars
  PROVE  TypeInv'
<1> USE DEF IInv, TypeInv, message, handler, current, engine, history
<1>1. CASE Construct
  <2>1. lives' \in 0 .. MaxLives
    BY <1>1, LogEngineAssumption DEF Construct
  <2> QED BY <1>1, <2>1 DEF Construct
<1>2. CASE Destruct
  <2>1. add' \in [Handlers -> {"new", "pushed", "surveying", "raising", "storing", "level",
                             "filter", "added", "removed"}]
    BY <1>2 DEF Destruct, DropHandlers
  <2>2. handlers' \in Seq(Handlers)
    BY <1>2 DEF Destruct, DropHandlers
  <2>3. current_level' \in Levels /\ current_filter' \in Filters
    BY <1>2, LogEngineAssumption DEF Destruct, Levels, Filters
  <2> QED BY <1>2, <2>1, <2>2, <2>3 DEF Destruct, DropHandlers
<1>3. ASSUME NEW m \in Messages, Begin(m) PROVE TypeInv'
  BY <1>3, LogEngineAssumption DEF Begin, Filters
<1>4. ASSUME NEW m \in Messages, CheckLevel(m) \/ CheckFilter(m) \/ Lock(m) \/ Unlock(m)
      PROVE  TypeInv'
  BY <1>4 DEF CheckLevel, CheckFilter, Lock, Unlock
<1>5. ASSUME NEW m \in Messages, Deliver(m) PROVE TypeInv'
  <2>1. received' \in [Handlers -> Seq(Messages)]
    <3>1. \A h \in Handlers : Append(received[h], m) \in Seq(Messages)
      OBVIOUS
    <3> QED BY <1>5, <3>1 DEF Deliver
  <2> QED BY <1>5, <2>1 DEF Deliver
<1>6. ASSUME NEW h \in Handlers, PushBack(h) PROVE TypeInv'
  BY <1>6, PushBackPlaces DEF PushBack
<1>7. ASSUME NEW h \in Handlers, Survey(h) \/ Compare(h) \/ Raise(h) PROVE TypeInv'
  <2>1. CASE Survey(h)
    BY <2>1 DEF Survey
  <2>2. CASE Compare(h)
    BY <2>2 DEF Compare, NextRound
  <2>3. CASE Raise(h)
    <3>1. handlers[at] \in Handlers
      BY <2>3, RoundMoves
    <3> QED BY <2>3, <3>1 DEF Raise, NextRound
  <2> QED BY <1>7, <2>1, <2>2, <2>3
<1>8. ASSUME NEW h \in Handlers, StoreLevel(h) \/ StoreFilter(h) PROVE TypeInv'
  <2>1. AddedFilters \in Filters
    BY DEF AddedFilters, Filters
  <2>2. current_level' \in Levels /\ current_filter' \in Filters
    BY <1>8, <2>1 DEF StoreLevel, StoreFilter
  <2>3. top' \in Levels
    BY <1>8, LogEngineAssumption DEF StoreLevel, StoreFilter, Stored, Levels
  <2>4. lock' \in Messages \cup Handlers \cup {Nobody}
    BY <1>8 DEF StoreLevel, StoreFilter, Stored
  <2>5. add' \in [Handlers -> {"new", "pushed", "surveying", "raising", "storing", "level",
                             "filter", "added", "removed"}]
    BY <1>8 DEF StoreLevel, StoreFilter, Stored
  <2> QED BY <1>8, <2>2, <2>3, <2>4, <2>5 DEF StoreLevel, StoreFilter
<1>9. ASSUME NEW h \in Handlers, SetLevel(h) PROVE TypeInv'
  BY <1>9 DEF SetLevel
<1>10. CASE UNCHANGED vars
  BY <1>10 DEF vars
<1> QED
  BY <1>1, <1>2, <1>3, <1>4, <1>5, <1>6, <1>7, <1>8, <1>9, <1>10 DEF Next, Log, AddHandler

-----------------------------------------------------------------------------
(* The lock.                                                               *)

(* lock_ keeps excluding.                                                  *)
LEMMA LockStep ==
  ASSUME IInv, [Next]_vars
  PROVE  LockInv'
<1> USE LogEngineAssumption DEF IInv, TypeInv, LockInv, Updating, Looping, message, handler,
                                current, engine, history
<1>1. CASE Construct
  BY <1>1 DEF Construct
<1>2. CASE Destruct
  <2>1. \A m \in Messages : pc[m] # "delivering"
    BY <1>2 DEF Destruct, Quiet
  <2>2. \A h \in Handlers : add[h] \notin Updating /\ add'[h] \notin Updating
    BY <1>2 DEF Destruct, Quiet, DropHandlers
  <2>4. lock = Nobody
    BY <2>1, <2>2
  <2>3. at = 1 /\ at' = 1 /\ Len(handlers') = 0
    BY <1>2, <2>4 DEF Destruct, DropHandlers
  <2> QED BY <1>2, <2>1, <2>2, <2>3 DEF Destruct, DropHandlers
<1>3. ASSUME NEW m \in Messages, Begin(m) \/ CheckLevel(m) \/ CheckFilter(m) PROVE LockInv'
  BY <1>3 DEF Begin, CheckLevel, CheckFilter
<1>4. ASSUME NEW m \in Messages, Lock(m) PROVE LockInv'
  BY <1>4 DEF Lock
<1>5. ASSUME NEW m \in Messages, Deliver(m) PROVE LockInv'
  BY <1>5 DEF Deliver
<1>6. ASSUME NEW m \in Messages, Unlock(m) PROVE LockInv'
  BY <1>6 DEF Unlock
<1>7. ASSUME NEW h \in Handlers, PushBack(h) PROVE LockInv'
  <2>1. Len(handlers') = Len(handlers) + 1
    BY <1>7, PushBackPlaces
  <2> QED BY <1>7, <2>1 DEF PushBack
<1>8. ASSUME NEW h \in Handlers, Survey(h) PROVE LockInv'
  <2>1. Len(handlers) \in Nat /\ Len(handlers) >= 1 /\ at = 1
    BY <1>8, UpdaterInPlace DEF Survey
  <2> QED BY <1>8, <2>1 DEF Survey, Looping
<1>12. ASSUME NEW h \in Handlers, Compare(h) \/ Raise(h) PROVE LockInv'
  <2>1. /\ pc' = pc /\ handlers' = handlers /\ lock = h /\ lock' = h
        /\ add[h] \in Looping /\ at \in 1 .. Len(handlers) /\ Len(handlers) \in Nat
        /\ \A g \in Handlers : g # h => add'[g] = add[g] /\ add[g] \notin Updating
        /\ \/ add'[h] = "raising" /\ at' = at
           \/ add'[h] = "surveying" /\ at' = at + 1 /\ at < Len(handlers)
           \/ add'[h] = "storing" /\ at' = 1 /\ at = Len(handlers)
    BY <1>12, RoundMoves DEF Compare, Raise
  <2>2. \A m \in Messages : pc'[m] = "delivering" <=> lock' = m
    BY <2>1
  <2>3. add'[h] \in Updating
    BY <2>1
  <2>4. at' \in 1 .. Len(handlers') /\ (add'[h] \notin Looping => at' = 1)
    BY <2>1
  <2>5. \A g \in Handlers : add'[g] \in Updating <=> lock' = g
    BY <2>1, <2>3
  <2>6. lock' # Nobody
    BY <2>1
  <2> QED BY <2>1, <2>2, <2>4, <2>5, <2>6
<1>9. ASSUME NEW h \in Handlers, StoreLevel(h) \/ StoreFilter(h) PROVE LockInv'
  <2>1. add[h] \in {"storing", "level", "filter"} /\ UNCHANGED <<pc, at, handlers>>
    BY <1>9, Zenon DEF StoreLevel, StoreFilter
  <2>2. \/ /\ add' = [add EXCEPT ![h] = "level"] \/ add' = [add EXCEPT ![h] = "filter"]
           /\ lock' = lock
        \/ add' = [add EXCEPT ![h] = "added"] /\ lock' = Nobody
    BY <1>9, Zenon DEF StoreLevel, StoreFilter, Stored
  <2>3. lock = h
    BY <2>1
  <2>4. CASE lock' = lock
    <3>1. add' = [add EXCEPT ![h] = "level"] \/ add' = [add EXCEPT ![h] = "filter"]
      BY <2>2, <2>3, <2>4
    <3> QED BY <2>1, <2>3, <2>4, <3>1
  <2>5. CASE add' = [add EXCEPT ![h] = "added"] /\ lock' = Nobody
    BY <2>1, <2>3, <2>5
  <2> QED BY <2>2, <2>4, <2>5
<1>10. ASSUME NEW h \in Handlers, SetLevel(h) PROVE LockInv'
  BY <1>10 DEF SetLevel
<1>11. CASE UNCHANGED vars
  BY <1>11 DEF vars
<1> QED
  BY <1>1, <1>2, <1>3, <1>4, <1>5, <1>6, <1>7, <1>8, <1>9, <1>10, <1>11, <1>12
       DEF Next, Log, AddHandler

(* handlers_ is left alone by all but these.                               *)
LEMMA PlacesKept ==
  ASSUME [Next]_vars, ~Destruct, \A h \in Handlers : ~PushBack(h)
  PROVE  handlers' = handlers /\ InPlace' = InPlace
<1> USE DEF message, handler, current, engine, history
<1>1. handlers' = handlers
  BY DEF Next, vars, Log, AddHandler, Construct, Begin, CheckLevel, CheckFilter, Lock, Deliver,
         Unlock, Survey, Compare, Raise, NextRound, StoreLevel, StoreFilter, SetLevel
<1> QED BY <1>1 DEF InPlace

(* handlers_ keeps the handlers added to this engine.                      *)
LEMMA HandlersStep ==
  ASSUME IInv, [Next]_vars
  PROVE  HandlersInv'
<1> USE DEF IInv, TypeInv, HandlersInv, Updating, Looping, message, handler, current, engine,
            history
<1>1. CASE Destruct
  <2>1. handlers' = << >> /\ InPlace' = {}
    BY <1>1 DEF Destruct, DropHandlers, InPlace
  <2>2. \A h \in Handlers : add'[h] \in {"new", "removed"}
    BY <1>1 DEF Destruct, DropHandlers, Quiet
  <2>3. \A i, j \in 1 .. Len(handlers') : handlers'[i] = handlers'[j] => i = j
    BY <2>1
  <2> QED BY <2>1, <2>2, <2>3
<1>2. ASSUME NEW h \in Handlers, PushBack(h) PROVE HandlersInv'
  <2>1. /\ Len(handlers) \in Nat /\ Len(handlers') = Len(handlers) + 1
        /\ handlers'[Len(handlers) + 1] = h
        /\ \A i \in 1 .. Len(handlers) : handlers'[i] = handlers[i]
        /\ InPlace' = InPlace \cup {h}
    BY <1>2, PushBackPlaces
  <2>2. add' = [add EXCEPT ![h] = "pushed"] /\ h \notin InPlace
    BY <1>2 DEF PushBack
  <2>3. \A i \in 1 .. Len(handlers) : handlers[i] # h
    BY <2>2 DEF InPlace
  <2>4. \A i \in 1 .. Len(handlers') : i \in 1 .. Len(handlers) \/ i = Len(handlers) + 1
    BY <2>1
  <2>5. ASSUME NEW i \in 1 .. Len(handlers'), NEW j \in 1 .. Len(handlers'),
               handlers'[i] = handlers'[j]
        PROVE  i = j
    <3>1. CASE i \in 1 .. Len(handlers) /\ j \in 1 .. Len(handlers)
      BY <2>1, <2>5, <3>1
    <3>2. CASE i = Len(handlers) + 1 /\ j \in 1 .. Len(handlers)
      BY <2>1, <2>3, <2>5, <3>2
    <3>3. CASE i \in 1 .. Len(handlers) /\ j = Len(handlers) + 1
      BY <2>1, <2>3, <2>5, <3>3
    <3> QED BY <2>4, <3>1, <3>2, <3>3
  <2> QED BY <2>1, <2>2, <2>5
<1>3. CASE ~Destruct /\ \A h \in Handlers : ~PushBack(h)
  <2>1. handlers' = handlers /\ InPlace' = InPlace
    BY <1>3, PlacesKept
  <2>2. \A h \in Handlers : add'[h] \in Updating \cup {"pushed", "added"}
                            <=> add[h] \in Updating \cup {"pushed", "added"}
    BY <1>3 DEF Next, vars, Log, AddHandler, Construct, Begin, CheckLevel, CheckFilter, Lock,
                Deliver, Unlock, Survey, Compare, Raise, NextRound, StoreLevel, StoreFilter,
                Stored, SetLevel
  <2> QED BY <2>1, <2>2
<1> QED BY <1>1, <1>2, <1>3

-----------------------------------------------------------------------------
(* The engine and its statics.                                             *)

(* Without an engine nothing gets past the statics.                        *)
LEMMA EngineStep ==
  ASSUME IInv, [Next]_vars
  PROVE  EngineInv'
<1> USE DEF IInv, TypeInv, EngineInv, message, handler, current, engine, history
<1>1. CASE Construct
  BY <1>1 DEF Construct
<1>2. CASE Destruct
  BY <1>2 DEF Destruct, Quiet, DropHandlers
<1>3. ASSUME NEW m \in Messages, Log(m) PROVE EngineInv'
  <2>1. ASSUME CheckFilter(m) PROVE EngineInv'
    BY <2>1 DEF CheckFilter
  <2>2. ASSUME CheckLevel(m) PROVE EngineInv'
    BY <2>2 DEF CheckLevel
  <2> QED BY <1>3, <2>1, <2>2 DEF Log, Begin, Lock, Deliver, Unlock
<1>4. ASSUME NEW h \in Handlers, PushBack(h) PROVE EngineInv'
  BY <1>4 DEF PushBack
<1>5. ASSUME NEW h \in Handlers, Survey(h) \/ Compare(h) \/ Raise(h) PROVE EngineInv'
  BY <1>5 DEF Survey, Compare, Raise
<1>6. ASSUME NEW h \in Handlers, StoreLevel(h) \/ StoreFilter(h) PROVE EngineInv'
  <2>1. instance
    BY <1>6, UpdaterInPlace DEF StoreLevel, StoreFilter, Updating
  <2> QED BY <1>6, <2>1 DEF StoreLevel, StoreFilter, Stored
<1>7. ASSUME NEW h \in Handlers, SetLevel(h) PROVE EngineInv'
  BY <1>7 DEF SetLevel
<1>8. CASE UNCHANGED vars
  BY <1>8 DEF vars
<1> QED BY <1>1, <1>2, <1>3, <1>4, <1>5, <1>6, <1>7, <1>8 DEF Next, AddHandler

(* Once torn is set it stays.                                              *)
LEMMA TornStays ==
  ASSUME [Next]_vars, torn' = FALSE, torn \in BOOLEAN
  PROVE  torn = FALSE
BY DEF Next, vars, Log, AddHandler, Construct, Destruct, Begin, CheckLevel, CheckFilter, Lock,
       Deliver, Unlock, PushBack, Survey, Compare, Raise, StoreLevel, StoreFilter, SetLevel,
       history

(* The filters the statics have go on being those of the handlers.         *)
LEMMA FiltersCoverStep ==
  ASSUME IInv, [Next]_vars
  PROVE  FiltersCover'
<1> USE DEF FiltersCover, message, handler, current, engine, history
<1>1. CASE Destruct
  <2>1. \A h \in Handlers : add'[h] \in {"new", "removed"}
    BY <1>1 DEF Destruct, DropHandlers, Quiet, IInv, TypeInv
  <2> QED BY <2>1
<1>2. ASSUME NEW h \in Handlers, PushBack(h) PROVE FiltersCover'
  <2>1. \A g \in Handlers : add[g] \notin Updating
    BY <1>2, LogEngineAssumption DEF PushBack, IInv, LockInv
  <2>2. \A g \in Handlers : add'[g] \notin Updating /\ (add'[g] = "added" => add[g] = "added")
    BY <1>2, <2>1 DEF PushBack, IInv, TypeInv, Updating, Looping
  <2> QED BY <1>2, <2>2 DEF PushBack, Updating, IInv, CoverInv
<1>3. ASSUME NEW h \in Handlers, Survey(h) \/ Compare(h) \/ Raise(h) PROVE FiltersCover'
  <2>1. \A g \in Handlers : add'[g] \in {"added", "level"} => add'[g] = add[g]
    BY <1>3 DEF Survey, Compare, Raise, NextRound, IInv, TypeInv
  <2>2. UNCHANGED <<handlers, handlerFilter, current_filter>>
    BY <1>3 DEF Survey, Compare, Raise
  <2> QED BY <2>1, <2>2 DEF InPlace, IInv, CoverInv
<1>4. ASSUME NEW h \in Handlers, StoreLevel(h) PROVE FiltersCover'
  <2>1. \A g \in Handlers : add'[g] = IF g # h THEN add[g]
                                      ELSE IF add[h] = "storing" THEN "filter" ELSE "added"
    BY <1>4 DEF StoreLevel, Stored, IInv, TypeInv
  <2>2. UNCHANGED <<handlers, handlerFilter, current_filter>> /\ add[h] \in {"storing", "level"}
    BY <1>4 DEF StoreLevel
  <2>3. h \in InPlace
    BY <2>2, UpdaterInPlace DEF Updating
  <2> QED BY <2>1, <2>2, <2>3 DEF InPlace, IInv, CoverInv
<1>5. ASSUME NEW h \in Handlers, StoreFilter(h) PROVE FiltersCover'
  <2>1. \A g \in InPlace : handlerFilter[g] \subseteq AddedFilters
    BY DEF AddedFilters, InPlace
  <2>2. \A g \in Handlers : add'[g] = IF g # h THEN add[g]
                                      ELSE IF add[h] = "storing" THEN "level" ELSE "added"
    BY <1>5 DEF StoreFilter, Stored, IInv, TypeInv
  <2>3. UNCHANGED <<handlers, handlerFilter>> /\ current_filter' = AddedFilters
    BY <1>5 DEF StoreFilter
  <2>4. h \in InPlace /\ \A g \in Handlers : add[g] = "added" => g \in InPlace
    BY <1>5, UpdaterInPlace DEF StoreFilter, Updating, IInv, HandlersInv
  <2> QED BY <2>1, <2>2, <2>3, <2>4 DEF InPlace
<1>6. ASSUME NEW h \in Handlers, SetLevel(h) PROVE FiltersCover'
  BY <1>6 DEF SetLevel, InPlace, IInv, CoverInv
<1>7. CASE UNCHANGED <<add, handlerFilter, handlers, current_filter>>
  BY <1>7 DEF InPlace, IInv, CoverInv
<1> QED
  BY <1>1, <1>2, <1>3, <1>4, <1>5, <1>6, <1>7
     DEF Next, vars, Log, AddHandler, Construct, Begin, CheckLevel, CheckFilter, Lock, Deliver,
         Unlock

(* A round leaves behind it only levels that the loop has found.           *)
LEMMA RoundCovers ==
  ASSUME IInv, torn = FALSE, NEW h \in Handlers, Compare(h) \/ Raise(h)
  PROVE  LevelsInv'
<1> DEFINE found(n) == \A k \in 1 .. n : handlers[k] \notin sets => handlerLevel[handlers[k]] <= top'
<1>1. /\ add[h] \in Looping /\ at \in 1 .. Len(handlers) /\ Len(handlers) \in Nat
      /\ \A g \in Handlers : g # h => add'[g] = add[g] /\ add[g] \notin Updating
      /\ \/ add'[h] = "raising" /\ at' = at /\ top' = top /\ Compare(h)
         \/ add'[h] = "surveying" /\ at' = at + 1 /\ at < Len(handlers)
         \/ add'[h] = "storing" /\ at' = 1 /\ at = Len(handlers)
      /\ UNCHANGED <<handlers, handlerLevel, handlerFilter, sets, torn, current_level,
                     current_filter>>
  BY RoundMoves
<1>2. LevelsInv
  BY DEF IInv, CoverInv
<1>3. \A k \in 1 .. Len(handlers) : handlers[k] \in Handlers /\ handlerLevel[handlers[k]] \in Nat
  BY DEF IInv, TypeInv, Levels
<1>4. top \in Nat
  BY DEF IInv, TypeInv, Levels
<1>5. \A k \in 1 .. at - 1 : k \in 1 .. Len(handlers)
  BY <1>1
<1>6. CASE add'[h] = "raising"
  <2>1. handlerLevel[handlers[at]] > top
    BY <1>1, <1>6 DEF Compare, NextRound, IInv, TypeInv
  <2>2. top <= handlerLevel[handlers[at]]
    BY <1>1, <1>3, <1>4, <2>1
  <2> QED BY <1>1, <1>2, <1>6, <2>2 DEF LevelsInv, Updating, Looping, InPlace
<1>7. CASE add'[h] # "raising"
  <2>1. top' \in Nat /\ top <= top' /\ handlerLevel[handlers[at]] <= top'
    <3>1. CASE Raise(h)
      <4>1. top <= handlerLevel[handlers[at]] /\ top' = handlerLevel[handlers[at]]
        BY <1>2, <3>1 DEF Raise, LevelsInv
      <4> QED BY <1>1, <1>3, <1>4, <4>1
    <3>2. CASE Compare(h)
      <4>1. ~(handlerLevel[handlers[at]] > top) /\ top' = top
        BY <1>7, <3>2 DEF Compare, IInv, TypeInv
      <4> QED BY <1>1, <1>3, <1>4, <4>1
    <3> QED BY <3>1, <3>2
  <2>2. found(at - 1)
    <3> SUFFICES ASSUME NEW k \in 1 .. at - 1, handlers[k] \notin sets
                 PROVE  handlerLevel[handlers[k]] <= top'
      OBVIOUS
    <3>1. handlerLevel[handlers[k]] <= top
      BY <1>1, <1>2 DEF LevelsInv
    <3> QED BY <1>3, <1>4, <1>5, <2>1, <3>1
  <2>3. found(at)
    <3>1. \A k \in 1 .. at : k \in 1 .. at - 1 \/ k = at
      BY <1>1
    <3> QED BY <2>1, <2>2, <3>1
  <2>4. CASE add'[h] = "surveying"
    <3>1. at' - 1 = at
      BY <1>1, <2>4
    <3> QED BY <1>1, <2>3, <2>4, <3>1 DEF LevelsInv, Updating, Looping
  <2>5. CASE add'[h] = "storing"
    <3>1. at = Len(handlers)
      BY <1>1, <2>5
    <3>2. \A g \in InPlace \ sets : handlerLevel[g] <= top'
      BY <2>3, <3>1 DEF InPlace
    <3> QED BY <1>1, <2>5, <3>2 DEF LevelsInv, Updating, Looping, InPlace
  <2> QED BY <1>1, <1>7, <2>4, <2>5
<1> QED BY <1>6, <1>7

(* So do the levels that are stored, unless one is torn.                   *)
LEMMA LevelsCoverStep ==
  ASSUME IInv, [Next]_vars, torn' = FALSE
  PROVE  LevelsInv' /\ LevelsCover'
<1> USE DEF LevelsInv, LevelsCover, message, handler, current, engine, history
<1>0. torn = FALSE /\ LevelsInv /\ LevelsCover
  BY TornStays DEF IInv, TypeInv, CoverInv
<1>1. CASE Destruct
  <2>1. \A h \in Handlers : add'[h] \in {"new", "removed"}
    BY <1>1 DEF Destruct, DropHandlers, Quiet, IInv, TypeInv
  <2> QED BY <2>1 DEF Looping
<1>2. ASSUME NEW h \in Handlers, PushBack(h) PROVE LevelsInv' /\ LevelsCover'
  <2>1. \A g \in Handlers : add[g] \notin Updating
    BY <1>2, LogEngineAssumption DEF PushBack, IInv, LockInv
  <2>2. \A g \in Handlers : add'[g] \notin Updating /\ (add'[g] = "added" => add[g] = "added")
    BY <1>2, <2>1 DEF PushBack, IInv, TypeInv, Updating, Looping
  <2> QED BY <1>0, <1>2, <2>2 DEF PushBack, Updating, Looping
<1>3. ASSUME NEW h \in Handlers, Survey(h) PROVE LevelsInv' /\ LevelsCover'
  <2>1. \A g \in Handlers : add[g] \notin Updating
    BY <1>3, LogEngineAssumption DEF Survey, IInv, LockInv
  <2>2. \A g \in Handlers : add'[g] = IF g = h THEN "surveying" ELSE add[g]
    BY <1>3 DEF Survey, IInv, TypeInv
  <2>3. at' = 1
    BY <1>3 DEF Survey, IInv, LockInv
  <2> QED BY <1>0, <1>3, <2>1, <2>2, <2>3 DEF Survey, Updating, Looping
<1>4. ASSUME NEW h \in Handlers, Compare(h) \/ Raise(h) PROVE LevelsInv' /\ LevelsCover'
  <2>1. LevelsInv'
    BY <1>0, <1>4, RoundCovers
  <2>2. \A g \in Handlers : add'[g] = "added" => add[g] = "added"
    BY <1>4 DEF Compare, Raise, NextRound, IInv, TypeInv
  <2>3. UNCHANGED <<handlerLevel, sets, current_level>>
    BY <1>4 DEF Compare, Raise
  <2> QED BY <1>0, <2>1, <2>2, <2>3
<1>5. ASSUME NEW h \in Handlers, StoreLevel(h) \/ StoreFilter(h) PROVE LevelsInv' /\ LevelsCover'
  <2>1. add[h] \in Updating /\ \A g \in Handlers : add[g] \in Updating => g = h
    BY <1>5 DEF StoreLevel, StoreFilter, IInv, LockInv, Updating
  <2>2. InPlace' = InPlace /\ h \in InPlace /\ \A g \in Handlers : add[g] = "added" => g \in InPlace
    BY <1>5, <2>1 DEF StoreLevel, StoreFilter, InPlace, IInv, HandlersInv
  <2>3. CASE StoreLevel(h)
    <3>1. add[h] \in {"storing", "level"}
      BY <2>3 DEF StoreLevel
    <3>2. \A g \in InPlace \ sets : handlerLevel[g] <= top
      BY <1>0, <3>1
    <3>3. \A g \in Handlers : add'[g] = IF g # h THEN add[g]
                                        ELSE IF add[h] = "storing" THEN "filter" ELSE "added"
      BY <2>3 DEF StoreLevel, Stored, IInv, TypeInv
    <3>4. UNCHANGED <<handlerLevel, sets>> /\ current_level' = top
      BY <2>3 DEF StoreLevel
    <3> QED BY <2>1, <2>2, <3>1, <3>2, <3>3, <3>4 DEF Updating, Looping
  <2>4. CASE StoreFilter(h)
    <3>1. add[h] \in {"storing", "filter"}
      BY <2>4 DEF StoreFilter
    <3>2. \A g \in Handlers : add'[g] = IF g # h THEN add[g]
                                        ELSE IF add[h] = "storing" THEN "level" ELSE "added"
      BY <2>4 DEF StoreFilter, Stored, IInv, TypeInv
    <3>3. UNCHANGED <<handlerLevel, current_level, sets>>
      BY <2>4 DEF StoreFilter
    <3>4. add[h] = "storing" => top' = top
      BY <2>4 DEF StoreFilter, Stored
    <3> QED BY <1>0, <2>1, <2>2, <3>1, <3>2, <3>3, <3>4 DEF Updating, Looping
  <2> QED BY <1>5, <2>3, <2>4
<1>6. ASSUME NEW h \in Handlers, SetLevel(h) PROVE LevelsInv' /\ LevelsCover'
  <2>1. PICK l \in Levels : /\ handlerLevel' = [handlerLevel EXCEPT ![h] = l]
                            /\ torn' = (torn \/ Tears(h, l))
    BY <1>6 DEF SetLevel
  <2>2. \A g \in Handlers \ sets' : g \notin sets /\ handlerLevel'[g] = handlerLevel[g]
    BY <1>6 DEF SetLevel, IInv, TypeInv
  <2>3. InPlace' = InPlace /\ InPlace \subseteq Handlers
        /\ UNCHANGED <<add, handlers, at, top, current_level>>
    BY <1>6 DEF SetLevel, InPlace, IInv, TypeInv
  <2>4. ASSUME NEW g \in Handlers, add[g] \in Looping
        PROVE  at \in 1 .. Len(handlers) /\ handlers[at] \in Handlers
               /\ \A k \in 1 .. at - 1 : handlers[k] \in Handlers
    BY <2>4 DEF IInv, LockInv, TypeInv
  <2>5. ASSUME NEW g \in Handlers, add[g] = "raising"
        PROVE  top <= handlerLevel'[handlers[at]]
    <3>1. handlers[at] \in Handlers /\ top <= handlerLevel[handlers[at]]
      BY <1>0, <2>4, <2>5 DEF Looping
    <3>2. CASE handlers[at] = h
      <4>1. ~(l < top)
        BY <2>1, <2>5, <3>2 DEF Tears
      <4>2. l \in Nat /\ top \in Nat /\ handlerLevel'[h] = l
        BY <2>1 DEF IInv, TypeInv, Levels
      <4> QED BY <3>2, <4>1, <4>2
    <3>3. CASE handlers[at] # h
      BY <2>1, <3>1, <3>3 DEF IInv, TypeInv
    <3> QED BY <3>2, <3>3
  <2>6. ASSUME NEW g \in Handlers, add[g] \in Looping, NEW k \in 1 .. at - 1,
               handlers[k] \notin sets'
        PROVE  handlerLevel'[handlers[k]] <= top
    BY <1>0, <2>2, <2>4, <2>6
  <2> QED BY <1>0, <2>2, <2>3, <2>5, <2>6
<1>7. CASE UNCHANGED <<add, handlerLevel, handlers, at, top, current_level, sets>>
  BY <1>0, <1>7 DEF InPlace
<1>8. ASSUME NEW m \in Messages, Lock(m) \/ Deliver(m) \/ Unlock(m)
      PROVE  LevelsInv' /\ LevelsCover'
  <2>1. UNCHANGED <<add, handlerLevel, handlers, top, current_level, sets>>
    BY <1>8 DEF Lock, Deliver, Unlock
  <2>2. lock = Nobody \/ lock = m
    BY <1>8 DEF Lock, Deliver, Unlock, IInv, LockInv
  <2>3. \A g \in Handlers : add[g] \notin Updating
    BY <2>2, LogEngineAssumption DEF IInv, LockInv
  <2> QED BY <1>0, <2>1, <2>3 DEF InPlace, Updating, Looping
<1> QED
  BY <1>1, <1>2, <1>3, <1>4, <1>5, <1>6, <1>7, <1>8
     DEF Next, vars, Log, AddHandler, Construct, Begin, CheckLevel, CheckFilter

(* CoverInv is kept.                                                       *)
LEMMA CoverStep ==
  ASSUME IInv, [Next]_vars
  PROVE  CoverInv'
<1>1. torn' \in BOOLEAN
  BY TypeStep DEF TypeInv
<1> QED BY <1>1, FiltersCoverStep, LevelsCoverStep DEF CoverInv

-----------------------------------------------------------------------------
(* What the handlers get.                                                  *)

(* One round of the loop gives m to the handler at that position, if it    *)
(* wants it, behind what it has, and nothing to any other.                 *)
LEMMA DeliverGives ==
  ASSUME IInv, NEW m \in Messages, Deliver(m)
  PROVE  LET h == handlers[at] IN
         /\ h \in Handlers /\ lock = m
         /\ \A g \in Handlers : g # h \/ level[m] > handlerLevel[h] => received'[g] = received[g]
         /\ level[m] <= handlerLevel[h] =>
              /\ Len(received'[h]) = Len(received[h]) + 1
              /\ received'[h][Len(received[h]) + 1] = m
              /\ \A i \in 1 .. Len(received[h]) : received'[h][i] = received[h][i]
         /\ \A g \in Handlers : received[g] \in Seq(Messages) /\ Len(received[g]) \in Nat
<1> DEFINE h == handlers[at]
<1> USE DEF IInv, TypeInv
<1>1. h \in Handlers /\ lock = m
  BY DEF Deliver, LockInv
<1>2. \A g \in Handlers : received[g] \in Seq(Messages) /\ Len(received[g]) \in Nat
  OBVIOUS
<1>3. \A g \in Handlers : g # h \/ level[m] > handlerLevel[h] => received'[g] = received[g]
  BY <1>1 DEF Deliver, Levels
<1>4. ASSUME level[m] <= handlerLevel[h]
      PROVE  received'[h] = Append(received[h], m)
  BY <1>1, <1>4 DEF Deliver
<1>5. \A q \in Seq(Messages) :
        /\ Len(Append(q, m)) = Len(q) + 1 /\ Append(q, m)[Len(q) + 1] = m
        /\ \A i \in 1 .. Len(q) : Append(q, m)[i] = q[i]
  OBVIOUS
<1>6. ASSUME level[m] <= handlerLevel[h]
      PROVE  /\ Len(received'[h]) = Len(received[h]) + 1
             /\ received'[h][Len(received[h]) + 1] = m
             /\ \A i \in 1 .. Len(received[h]) : received'[h][i] = received[h][i]
  <2> HIDE DEF h
  <2> QED BY <1>1, <1>2, <1>4, <1>5, <1>6
<1> QED BY <1>1, <1>2, <1>3, <1>6

(* So a handler has what it had, and m if it wants it.                     *)
LEMMA DeliverGot ==
  ASSUME IInv, NEW m \in Messages, Deliver(m), NEW g \in Handlers, NEW n
  PROVE  Got(g, n)' <=> Got(g, n) \/ (n = m /\ g = handlers[at] /\ level[m] <= handlerLevel[g])
<1> DEFINE h == handlers[at]
           gets == g = h /\ level[m] <= handlerLevel[h]
<1>1. CASE ~gets
  <2>1. received'[g] = received[g]
    <3>1. level[m] \in Nat /\ handlerLevel[h] \in Nat
      BY DeliverGives DEF IInv, TypeInv, Levels
    <3> QED BY <1>1, <3>1, DeliverGives
  <2> QED BY <1>1, <2>1 DEF Got
<1>2. CASE gets
  <2>1. /\ Len(received[g]) \in Nat /\ Len(received'[g]) = Len(received[g]) + 1
        /\ received'[g][Len(received[g]) + 1] = m
        /\ \A i \in 1 .. Len(received[g]) : received'[g][i] = received[g][i]
    BY <1>2, DeliverGives
  <2>2. \A i \in 1 .. Len(received'[g]) : i \in 1 .. Len(received[g]) \/ i = Len(received[g]) + 1
    BY <2>1
  <2>3. \A i \in 1 .. Len(received[g]) + 1 : i \in 1 .. Len(received'[g])
    BY <2>1
  <2>4. Got(g, m)'
    BY <2>1, <2>3 DEF Got
  <2>5. Got(g, n) => Got(g, n)'
    BY <2>1, <2>3 DEF Got
  <2>6. Got(g, n)' => Got(g, n) \/ n = m
    BY <2>1, <2>2 DEF Got
  <2> QED BY <1>2, <2>4, <2>5, <2>6
<1> QED BY <1>1, <1>2

(* What any other step does to what the handlers have.                     *)
LEMMA ReceivedKept ==
  ASSUME [Next]_vars, \A m \in Messages : ~Deliver(m)
  PROVE  received' = received /\ \A g, n : Got(g, n)' <=> Got(g, n)
<1>1. received' = received
  BY DEF Next, vars, Log, AddHandler, Construct, Destruct, Begin, CheckLevel, CheckFilter, Lock,
         Unlock, PushBack, Survey, Compare, Raise, NextRound, StoreLevel, StoreFilter, SetLevel
<1> QED BY <1>1 DEF Got

(* Before it is delivered m is at no handler the loop has yet to come to.  *)
LEMMA NotYetGot ==
  ASSUME IInv, NEW m \in Messages, Deliver(m)
  PROVE  ~Got(handlers[at], m)
<1>1. at \in 1 .. Len(handlers) /\ pc[m] = "delivering"
  BY DEF Deliver, IInv, LockInv, TypeInv
<1>2. handlers[at] \in Handlers
  BY DeliverGives
<1>3. \A k \in 1 .. at - 1 : k \in 1 .. Len(handlers) /\ k # at
  BY <1>1
<1>4. \A k \in 1 .. at - 1 : handlers[k] # handlers[at]
  BY <1>1, <1>3 DEF IInv, HandlersInv
<1> QED BY <1>1, <1>2, <1>4 DEF IInv, OrderInv

(* While a statement is in the loop, only its own rounds change what the   *)
(* loop works on.                                                          *)
LEMMA LoopKept ==
  ASSUME IInv, [Next]_vars, NEW m \in Messages, pc[m] = "delivering", pc'[m] = "delivering",
         ~Deliver(m)
  PROVE  handlers' = handlers /\ at' = at /\ received' = received
<1>1. lock = m /\ m \notin Handlers /\ m # Nobody
  BY LogEngineAssumption DEF IInv, LockInv
<1>2. \A g \in Handlers : ~PushBack(g) /\ ~Survey(g) /\ ~Compare(g) /\ ~Raise(g)
  <2>1. \A g \in Handlers : ~PushBack(g) /\ ~Survey(g)
    BY <1>1 DEF PushBack, Survey
  <2>2. \A g \in Handlers : add[g] \notin Updating
    BY <1>1 DEF IInv, LockInv
  <2> QED BY <2>1, <2>2 DEF Compare, Raise, Updating, Looping
<1>3. ~Destruct
  BY DEF Destruct, Quiet
<1>4. \A n \in Messages : ~Lock(n) /\ ~Deliver(n)
  BY <1>1 DEF Lock, Deliver, IInv, LockInv
<1>5. \A n \in Messages : ~Unlock(n)
  <2> SUFFICES ASSUME NEW n \in Messages, Unlock(n) PROVE FALSE
    OBVIOUS
  <2>1. n = m
    BY <1>1 DEF Unlock, IInv, LockInv
  <2> QED BY <2>1 DEF Unlock, IInv, TypeInv
<1> QED
  BY <1>2, <1>3, <1>4, <1>5
     DEF Next, vars, Log, AddHandler, Construct, Begin, CheckLevel, CheckFilter,
         StoreLevel, StoreFilter, SetLevel, message, handler, current, engine, history

(* After the round m is nowhere but at the end of a handler's sequence.    *)
LEMMA DeliveredLast ==
  ASSUME IInv, NEW m \in Messages, Deliver(m), NEW g \in Handlers
  PROVE  /\ Len(received'[g]) \in Nat
         /\ \A i \in 1 .. Len(received'[g]) :
              IF received'[g][i] = m THEN i = Len(received'[g])
              ELSE i \in 1 .. Len(received[g]) /\ received'[g][i] = received[g][i]
<1> DEFINE h == handlers[at]
<1>1. \A i \in 1 .. Len(received[g]) : received[g][i] = m => i = Len(received[g])
  BY DEF Deliver, IInv, OrderInv
<1>2. CASE received'[g] = received[g]
  BY <1>1, <1>2, DeliverGives
<1>3. CASE received'[g] # received[g]
  <2>1. g = h /\ level[m] <= handlerLevel[h]
    <3>1. level[m] \in Nat /\ handlerLevel[h] \in Nat
      BY DeliverGives DEF IInv, TypeInv, Levels
    <3> QED BY <1>3, <3>1, DeliverGives
  <2>2. /\ Len(received[g]) \in Nat /\ Len(received'[g]) = Len(received[g]) + 1
        /\ received'[g][Len(received[g]) + 1] = m
        /\ \A i \in 1 .. Len(received[g]) : received'[g][i] = received[g][i]
    BY <2>1, DeliverGives
  <2>3. \A i \in 1 .. Len(received[g]) : received[g][i] # m
    BY <2>1, NotYetGot DEF Got
  <2>4. \A i \in 1 .. Len(received'[g]) : i \in 1 .. Len(received[g]) \/ i = Len(received[g]) + 1
    BY <2>2
  <2> QED BY <2>2, <2>3, <2>4
<1> QED BY <1>2, <1>3

(* The handlers go on having the messages in one order.                    *)
LEMMA OrderStep ==
  ASSUME IInv, [Next]_vars
  PROVE  OrderInv'
<1>1. ASSUME NEW m \in Messages, Deliver(m) PROVE OrderInv'
  <2>1. /\ pc' = pc /\ pc[m] = "delivering" /\ handlers' = handlers /\ at' = at + 1
        /\ at \in 1 .. Len(handlers)
    BY <1>1 DEF Deliver, handler, IInv, LockInv, TypeInv
  <2>2. \A n \in Messages : pc[n] = "delivering" => n = m
    BY <2>1 DEF IInv, LockInv
  <2>3. ASSUME NEW n \in Messages, pc'[n] \notin {"delivering", "done"}, NEW g \in Handlers
        PROVE  ~Got(g, n)'
    <3>1. n # m /\ ~Got(g, n)
      BY <2>1, <2>3 DEF IInv, OrderInv
    <3> QED BY <1>1, <3>1, DeliverGot
  <2>4. ASSUME NEW g \in Handlers
        PROVE  /\ \A i \in 1 .. Len(received'[g]) : received'[g][i] = m => i = Len(received'[g])
               /\ Got(g, m)' => \E k \in 1 .. at' - 1 : handlers'[k] = g
    <3>1. at \in 1 .. at' - 1 /\ \A k \in 1 .. at - 1 : k \in 1 .. at' - 1
      BY <2>1
    <3>2. Got(g, m)' => Got(g, m) \/ g = handlers[at]
      BY <1>1, DeliverGot
    <3>3. Got(g, m) => \E k \in 1 .. at - 1 : handlers[k] = g
      BY <2>1 DEF IInv, OrderInv
    <3> QED BY <1>1, <2>1, <3>1, <3>2, <3>3, DeliveredLast
  <2>5. ASSUME NEW g \in Handlers, NEW h \in Handlers,
               NEW i \in 1 .. Len(received'[g]), NEW j \in 1 .. Len(received'[g]),
               NEW k \in 1 .. Len(received'[h]), NEW l \in 1 .. Len(received'[h]),
               i < j, received'[g][i] = received'[h][k], received'[g][j] = received'[h][l]
        PROVE  k < l
    <3>1. received'[g][i] # m
      BY <1>1, <2>5, DeliveredLast
    <3>2. CASE received'[g][j] = m
      <4>1. l = Len(received'[h]) /\ k # l
        BY <1>1, <2>5, <3>1, <3>2, DeliveredLast
      <4> QED BY <4>1
    <3>3. CASE received'[g][j] # m
      <4>1. /\ i \in 1 .. Len(received[g]) /\ received'[g][i] = received[g][i]
            /\ j \in 1 .. Len(received[g]) /\ received'[g][j] = received[g][j]
        BY <1>1, <3>1, <3>3, DeliveredLast
      <4>2. /\ k \in 1 .. Len(received[h]) /\ received'[h][k] = received[h][k]
            /\ l \in 1 .. Len(received[h]) /\ received'[h][l] = received[h][l]
        BY <1>1, <2>5, <3>1, <3>3, DeliveredLast
      <4>3. received[g][i] = received[h][k] /\ received[g][j] = received[h][l] /\ i < j
        BY <2>5, <4>1, <4>2
      <4>4. SameOrder
        BY DEF IInv, OrderInv
      <4>5. k < l
        BY <4>1, <4>2, <4>3, <4>4 DEF SameOrder
      <4> QED BY <4>5
    <3> QED BY <3>2, <3>3
  <2>6. SameOrder'
    BY <2>5 DEF SameOrder
  <2> QED BY <2>1, <2>2, <2>3, <2>4, <2>6 DEF OrderInv
<1>2. CASE \A m \in Messages : ~Deliver(m)
  <2>1. received' = received /\ \A g, n : Got(g, n)' <=> Got(g, n)
    BY <1>2, ReceivedKept
  <2>2. SameOrder'
    BY <2>1 DEF SameOrder, IInv, OrderInv
  <2>3. \A m \in Messages : pc'[m] \notin {"delivering", "done"} => \A h \in Handlers : ~Got(h, m)
    <3>1. \A m \in Messages : pc'[m] \notin {"delivering", "done"}
                                => pc[m] \notin {"delivering", "done"}
      BY <1>2 DEF Next, vars, Log, AddHandler, Construct, Destruct, Begin, CheckLevel,
                  CheckFilter, Lock, Unlock, PushBack, Survey, Compare, Raise, NextRound,
                  StoreLevel, StoreFilter, SetLevel, IInv, TypeInv
    <3> QED BY <3>1 DEF IInv, OrderInv
  <2>4. ASSUME NEW m \in Messages, pc'[m] = "delivering", NEW h \in Handlers
        PROVE  /\ \A i \in 1 .. Len(received[h]) : received[h][i] = m => i = Len(received[h])
               /\ Got(h, m) => \E k \in 1 .. at' - 1 : handlers'[k] = h
    <3>1. CASE pc[m] = "delivering"
      <4>1. handlers' = handlers /\ at' = at
        BY <1>2, <2>4, <3>1, LoopKept
      <4> QED BY <3>1, <4>1 DEF IInv, OrderInv
    <3>2. CASE pc[m] # "delivering"
      <4>1. pc[m] # "done"
        BY <1>2, <2>4, <3>2
           DEF Next, vars, Log, AddHandler, Construct, Destruct, Begin, CheckLevel, CheckFilter,
               Lock, Unlock, PushBack, Survey, Compare, Raise, NextRound, StoreLevel,
               StoreFilter, SetLevel, IInv, TypeInv
      <4>2. ~Got(h, m)
        BY <3>2, <4>1 DEF IInv, OrderInv
      <4> QED BY <4>2 DEF Got
    <3> QED BY <3>1, <3>2
  <2> QED BY <2>1, <2>2, <2>3, <2>4 DEF OrderInv
<1> QED BY <1>1, <1>2

-----------------------------------------------------------------------------
(* Who is to get a message.                                                *)

(* A handler found by no test of a statement would not want the message.   *)
LEMMA IrrelevantToAll ==
  ASSUME IInv, NEW m \in Messages, NEW h \in audience[m] \ sets, add[h] = "added",
         torn = FALSE, level[m] > current_level \/ filter[m] \cap current_filter = {}
  PROVE  ~Due(h, m)
<1>1. h \in Handlers /\ level[m] \in Nat /\ handlerLevel[h] \in Nat /\ current_level \in Nat
  BY DEF IInv, TypeInv, Levels
<1>2. handlerLevel[h] <= current_level /\ handlerFilter[h] \subseteq current_filter
  BY <1>1 DEF IInv, CoverInv, LevelsCover, FiltersCover
<1>3. CASE level[m] > current_level
  BY <1>1, <1>2, <1>3 DEF Due, Wants
<1>4. CASE filter[m] \cap current_filter = {}
  BY <1>2, <1>4 DEF Due, Wants
<1> QED BY <1>3, <1>4

(* No step makes a handler want a message that is under way.               *)
LEMMA DueKept ==
  ASSUME IInv, [Next]_vars, NEW m \in Messages, pc[m] # "idle", NEW h, Due(h, m)'
  PROVE  Due(h, m)
<1> USE DEF Due, Wants, IInv, TypeInv, message, handler, current, engine, history
<1>1. ASSUME NEW g \in Handlers, SetLevel(g) PROVE Due(h, m)
  <2>1. h \in audience[m] \ sets /\ h # g /\ h \in Handlers
    BY <1>1 DEF SetLevel
  <2>2. handlerLevel'[h] = handlerLevel[h]
    BY <1>1, <2>1 DEF SetLevel
  <2> QED BY <1>1, <2>1, <2>2 DEF SetLevel
<1>2. ASSUME NEW n \in Messages, Begin(n) PROVE Due(h, m)
  BY <1>2 DEF Begin
<1>3. CASE UNCHANGED <<level, filter, audience, handlerLevel, handlerFilter, sets>>
  BY <1>3
<1> QED
  BY <1>1, <1>2, <1>3
     DEF Next, vars, Log, AddHandler, Construct, Destruct, DropHandlers, CheckLevel,
         CheckFilter, Lock, Deliver, Unlock, PushBack, Survey, Compare, Raise, NextRound,
         StoreLevel, StoreFilter

(* The parts of AudienceInv.                                               *)
AudienceIn(m) == pc[m] \in Reading \cup {"locking", "delivering"} =>
                   \A h \in audience[m] : add[h] = "added"
AudienceOut(m) == pc[m] = "irrelevant" /\ ~torn => \A h \in Handlers : ~Due(h, m)
AudienceSoFar(m) == pc[m] = "delivering" =>
                      \A k \in 1 .. at - 1 : Due(handlers[k], m) => Got(handlers[k], m)
AudienceDone(m) == pc[m] = "done" => \A h \in Handlers : Due(h, m) => Got(h, m)

(* Handlers stay in place while a statement is in progress.                *)
LEMMA AudienceInStep ==
  ASSUME IInv, [Next]_vars, NEW m \in Messages
  PROVE  AudienceIn(m)'
<1> USE DEF AudienceIn, Reading, message, handler, current, engine, history
<1> SUFFICES ASSUME pc'[m] \in Reading \cup {"locking", "delivering"}, NEW h \in audience'[m]
             PROVE  add'[h] = "added"
  OBVIOUS
<1>1. CASE Begin(m)
  BY <1>1 DEF Begin, IInv, TypeInv
<1>2. CASE ~Begin(m)
  <2>1. audience'[m] = audience[m] /\ pc[m] \in Reading \cup {"locking", "delivering"}
    BY <1>2 DEF Next, vars, Log, AddHandler, Construct, Destruct, Begin, CheckLevel,
                CheckFilter, Lock, Deliver, Unlock, PushBack, Survey, Compare, Raise, NextRound,
                StoreLevel, StoreFilter, SetLevel, IInv, TypeInv
  <2>2. add[h] = "added" /\ h \in Handlers /\ ~Destruct
    BY <2>1 DEF IInv, TypeInv, AudienceInv, Destruct, Quiet
  <2> QED
    BY <2>2 DEF Next, vars, Log, AddHandler, Construct, Begin, CheckLevel, CheckFilter, Lock,
                Deliver, Unlock, PushBack, Survey, Compare, Raise, NextRound, StoreLevel,
                StoreFilter, Stored, SetLevel, IInv, TypeInv
<1> QED BY <1>1, <1>2

(* A statement is irrelevant only when it is due to nobody.                *)
LEMMA AudienceOutStep ==
  ASSUME IInv, [Next]_vars, NEW m \in Messages
  PROVE  AudienceOut(m)'
<1> SUFFICES ASSUME pc'[m] = "irrelevant", torn' = FALSE, NEW h \in Handlers, Due(h, m)'
             PROVE  FALSE
  BY TypeStep DEF AudienceOut, TypeInv
<1>3. torn = FALSE
  BY TornStays DEF IInv, TypeInv
<1>1. CASE pc[m] = "irrelevant"
  <2>1. Due(h, m)
    BY <1>1, DueKept
  <2> QED BY <1>1, <1>3, <2>1 DEF IInv, AudienceInv
<1>2. CASE pc[m] # "irrelevant"
  <2>1. CheckLevel(m) \/ CheckFilter(m)
    BY <1>2 DEF Next, vars, Log, AddHandler, Construct, Destruct, Begin, CheckLevel,
                CheckFilter, Lock, Deliver, Unlock, PushBack, Survey, Compare, Raise, NextRound,
                StoreLevel, StoreFilter, SetLevel, IInv, TypeInv, message, handler, current,
                engine, history
  <2>2. pc[m] \in Reading /\ (level[m] > current_level \/ filter[m] \cap current_filter = {})
    BY <1>2, <2>1 DEF CheckLevel, CheckFilter, Reading, IInv, TypeInv
  <2>3. Due(h, m)
    BY <2>2, DueKept DEF Reading
  <2>4. h \in audience[m] \ sets /\ add[h] = "added"
    BY <2>2, <2>3 DEF Due, IInv, AudienceInv
  <2> QED BY <1>3, <2>2, <2>3, <2>4, IrrelevantToAll
<1> QED BY <1>1, <1>2

(* The loop has given a message to all it has come to.                     *)
LEMMA AudienceSoFarStep ==
  ASSUME IInv, [Next]_vars, NEW m \in Messages
  PROVE  AudienceSoFar(m)'
<1> SUFFICES ASSUME pc'[m] = "delivering", NEW k \in 1 .. at' - 1, NEW h, h = handlers'[k],
                    Due(h, m)'
             PROVE  Got(h, m)'
  BY DEF AudienceSoFar, Due, Wants, Got
<1>1. CASE Deliver(m)
  <2>1. /\ pc[m] = "delivering" /\ handlers' = handlers /\ at' = at + 1
        /\ at \in 1 .. Len(handlers)
    BY <1>1 DEF Deliver, handler, IInv, LockInv, TypeInv
  <2>2. Due(h, m)
    BY <2>1, DueKept
  <2>3. k \in 1 .. Len(handlers) /\ h \in Handlers
    BY <2>1 DEF IInv, TypeInv
  <2>4. CASE k = at
    BY <1>1, <2>1, <2>2, <2>3, <2>4, DeliverGot DEF Due, Wants
  <2>5. CASE k # at
    <3>1. k \in 1 .. at - 1
      BY <2>1, <2>5
    <3>2. Got(h, m)
      BY <2>1, <2>2, <3>1 DEF IInv, AudienceInv
    <3> QED BY <1>1, <2>1, <2>3, <3>2, DeliverGot
  <2> QED BY <2>4, <2>5
<1>2. CASE pc[m] = "delivering" /\ ~Deliver(m)
  <2>1. handlers' = handlers /\ at' = at /\ received' = received
    BY <1>2, LoopKept
  <2>2. Due(h, m)
    BY <1>2, DueKept
  <2>3. Got(h, m)
    BY <1>2, <2>1, <2>2 DEF IInv, AudienceInv
  <2> QED BY <2>1, <2>3 DEF Got
<1>3. CASE pc[m] # "delivering"
  <2>1. Lock(m)
    BY <1>3 DEF Next, vars, Log, AddHandler, Construct, Destruct, Begin, CheckLevel,
                CheckFilter, Lock, Deliver, Unlock, PushBack, Survey, Compare, Raise, NextRound,
                StoreLevel, StoreFilter, SetLevel, IInv, TypeInv, message, handler, current,
                engine, history
  <2>2. at' = 1
    BY <2>1 DEF Lock
  <2> QED BY <2>2
<1> QED BY <1>1, <1>2, <1>3

(* What is done has got to all it was due to.                              *)
LEMMA AudienceDoneStep ==
  ASSUME IInv, [Next]_vars, NEW m \in Messages
  PROVE  AudienceDone(m)'
<1> SUFFICES ASSUME pc'[m] = "done", NEW h \in Handlers, Due(h, m)'
             PROVE  Got(h, m)'
  BY DEF AudienceDone
<1>1. CASE pc[m] = "done"
  <2>1. Got(h, m)
    BY <1>1, DueKept DEF IInv, AudienceInv
  <2>2. ASSUME NEW n \in Messages, Deliver(n) PROVE Got(h, m)'
    BY <2>1, <2>2, DeliverGot
  <2> QED BY <2>1, <2>2, ReceivedKept
<1>2. CASE pc[m] # "done"
  <2>1. Unlock(m)
    BY <1>2 DEF Next, vars, Log, AddHandler, Construct, Destruct, Begin, CheckLevel,
                CheckFilter, Lock, Deliver, Unlock, PushBack, Survey, Compare, Raise, NextRound,
                StoreLevel, StoreFilter, SetLevel, IInv, TypeInv, message, handler, current,
                engine, history
  <2>2. pc[m] = "delivering" /\ at > Len(handlers) /\ received' = received
    BY <2>1 DEF Unlock
  <2>3. Due(h, m)
    BY <2>2, DueKept
  <2>4. h \in InPlace
    BY <2>2, <2>3 DEF Due, IInv, AudienceInv, HandlersInv
  <2>5. PICK k \in 1 .. Len(handlers) : handlers[k] = h
    BY <2>4 DEF InPlace
  <2>6. k \in 1 .. at - 1
    BY <2>2 DEF IInv, LockInv, TypeInv
  <2>7. Got(h, m)
    BY <2>2, <2>3, <2>5, <2>6 DEF IInv, AudienceInv
  <2> QED BY <2>2, <2>7 DEF Got
<1> QED BY <1>1, <1>2

(* AudienceInv is kept.                                                    *)
LEMMA AudienceStep ==
  ASSUME IInv, [Next]_vars
  PROVE  AudienceInv'
<1>1. \A m \in Messages : (AudienceIn(m) /\ AudienceOut(m) /\ AudienceSoFar(m) /\ AudienceDone(m))'
  BY AudienceInStep, AudienceOutStep, AudienceSoFarStep, AudienceDoneStep
<1> QED BY <1>1 DEF AudienceInv, AudienceIn, AudienceOut, AudienceSoFar, AudienceDone

-----------------------------------------------------------------------------
(* Who gets a relevant message.                                            *)

(* Handlers in place stay so, with their levels, while nobody sets those.  *)
LEMMA ReachedKept ==
  ASSUME IInv, [Next]_vars, sets' = {}, ~Destruct
  PROVE  /\ sets = {} /\ InPlace \subseteq InPlace' /\ handlerLevel' = handlerLevel
         /\ \A l : Reached(l) => Reached(l)'
<1> USE DEF message, handler, current, engine, history
<1>1. sets = {} /\ handlerLevel' = handlerLevel
  BY DEF Next, vars, Log, AddHandler, Construct, Begin, CheckLevel, CheckFilter, Lock, Deliver,
         Unlock, PushBack, Survey, Compare, Raise, NextRound, StoreLevel, StoreFilter, SetLevel
<1>2. InPlace \subseteq InPlace'
  <2>1. ASSUME NEW h \in Handlers, PushBack(h) PROVE InPlace \subseteq InPlace'
    BY <2>1, PushBackPlaces DEF IInv
  <2> QED BY <2>1, PlacesKept
<1> QED BY <1>1, <1>2 DEF Reached

(* The statics have no more than the handlers.                             *)
LEMMA StaticsBackedStep ==
  ASSUME IInv, [Next]_vars, sets' = {}
  PROVE  StaticsBacked'
<1> USE DEF StaticsBacked, message, handler, current, engine, history
<1>1. CASE Destruct
  <2>1. \A g \in Handlers : add'[g] \in {"new", "removed"}
    BY <1>1 DEF Destruct, DropHandlers, Quiet, IInv, TypeInv
  <2>2. sets = {} /\ \A g \in Handlers : add[g] \notin Updating
    BY <1>1 DEF Destruct, Quiet, Updating, Looping
  <2>3. top = 0
    BY <2>2 DEF IInv, RelevanceInv
  <2> QED BY <1>1, <2>1, <2>3 DEF Destruct, Looping
<1>2. CASE ~Destruct
  <2>1. /\ sets = {} /\ InPlace \subseteq InPlace' /\ handlerLevel' = handlerLevel
        /\ \A l : Reached(l) => Reached(l)'
    BY <1>2, ReachedKept
  <2>2. StaticsBacked
    BY <2>1 DEF IInv, RelevanceInv
  <2>3. ASSUME NEW h \in Handlers, Survey(h) PROVE StaticsBacked'
    <3>1. \A g \in Handlers : add[g] \notin Updating
      BY <2>3, LogEngineAssumption DEF Survey, IInv, LockInv
    <3>2. \A g \in Handlers : add'[g] = IF g = h THEN "surveying" ELSE add[g]
      BY <2>3 DEF Survey, IInv, TypeInv
    <3>3. top' = 0 /\ current_level' = current_level /\ current_filter' = current_filter
      BY <2>2, <2>3, <3>1 DEF Survey
    <3>4. current_level' = 0 \/ Reached(current_level)'
      BY <2>1, <2>2, <3>3 DEF Reached
    <3> QED BY <2>1, <2>2, <3>1, <3>2, <3>3, <3>4 DEF Updating, Looping
  <2>7. ASSUME NEW h \in Handlers, Compare(h) \/ Raise(h) PROVE StaticsBacked'
    <3>1. /\ add[h] \in Looping /\ at \in 1 .. Len(handlers)
          /\ \A g \in Handlers : g # h => add'[g] = add[g] /\ add[g] \notin Updating
          /\ add'[h] \in {"raising", "surveying", "storing"}
          /\ current_level' = current_level /\ current_filter' = current_filter
      BY <2>7, RoundMoves
    <3>2. h \in InPlace /\ \A k \in InPlace : handlerLevel[k] \in Nat
      <4>1. h \in InPlace
        BY <3>1, UpdaterInPlace DEF Updating
      <4> QED BY <4>1 DEF InPlace, IInv, TypeInv, Levels
    <3>3. top' = 0 \/ Reached(top)'
      <4>1. CASE Raise(h)
        <5>1. top' = handlerLevel[handlers[at]] /\ handlers[at] \in InPlace
          BY <3>1, <4>1 DEF Raise, InPlace
        <5>2. top' <= handlerLevel[handlers[at]]
          BY <3>2, <5>1
        <5> QED BY <2>1, <5>1, <5>2 DEF Reached
      <4>2. CASE Compare(h)
        <5>1. top' = top
          BY <4>2 DEF Compare
        <5> QED BY <2>1, <2>2, <3>1, <5>1 DEF Reached
      <4> QED BY <2>7, <4>1, <4>2
    <3>4. Reached(top)'
      <4>1. 0 <= handlerLevel[h]
        BY <3>2
      <4> QED BY <2>1, <3>2, <3>3, <4>1 DEF Reached
    <3>5. current_level' = 0 \/ Reached(current_level)'
      BY <2>1, <2>2, <3>1 DEF Reached
    <3>6. add'[h] \in Updating
      BY <3>1 DEF Updating, Looping
    <3> QED BY <2>1, <2>2, <3>1, <3>4, <3>5, <3>6
  <2>4. ASSUME NEW h \in Handlers, StoreLevel(h) \/ StoreFilter(h) PROVE StaticsBacked'
    <3>1. h \in InPlace'
      BY <2>1, <2>4, UpdaterInPlace DEF StoreLevel, StoreFilter, Updating
    <3>2. ASSUME NEW g \in Handlers, add'[g] \in {"storing", "level"}
          PROVE  g = h /\ add[h] = "storing" /\ top' = top /\ StoreFilter(h)
      <4>1. lock = h
        BY <2>4, UpdaterInPlace DEF StoreLevel, StoreFilter, Updating
      <4>2. g = h
        <5>1. g # h => add'[g] = add[g]
          BY <2>4 DEF StoreLevel, StoreFilter, Stored, IInv, TypeInv
        <5> QED BY <3>2, <4>1, <5>1 DEF IInv, LockInv, Updating
      <4> QED BY <2>4, <3>2, <4>2 DEF StoreLevel, StoreFilter, Stored, IInv, TypeInv
    <3>3. \A g \in Handlers : add'[g] \in {"storing", "level"} => Reached(top)'
      <4> SUFFICES ASSUME NEW g \in Handlers, add'[g] \in {"storing", "level"}
                   PROVE  Reached(top)'
        OBVIOUS
      <4>1. Reached(top) /\ top' = top
        BY <2>2, <3>2
      <4> QED BY <2>1, <4>1 DEF Reached
    <3>4. current_level' = 0 \/ Reached(current_level)'
      <4>1. CASE StoreLevel(h)
        <5>1. Reached(top) /\ current_level' = top
          BY <2>2, <4>1 DEF StoreLevel
        <5> QED BY <2>1, <5>1 DEF Reached
      <4>2. CASE StoreFilter(h)
        <5>1. current_level' = current_level
          BY <4>2 DEF StoreFilter
        <5> QED BY <2>1, <2>2, <5>1 DEF Reached
      <4> QED BY <2>4, <4>1, <4>2
    <3>5. ASSUME NEW g \in Handlers, add'[g] \in Looping PROVE FALSE
      <4>1. lock = h /\ add[h] \in Updating /\ add'[h] \notin Looping
        BY <2>4, UpdaterInPlace DEF StoreLevel, StoreFilter, Stored, Updating, Looping, IInv,
                                    TypeInv
      <4>2. g # h => add'[g] = add[g]
        BY <2>4 DEF StoreLevel, StoreFilter, Stored, IInv, TypeInv
      <4> QED BY <3>5, <4>1, <4>2 DEF IInv, LockInv, Updating
    <3>6. (\A g \in Handlers : add'[g] \notin Updating) => top' = 0
      BY <2>4 DEF StoreLevel, StoreFilter, Stored, Updating, IInv, TypeInv
    <3> QED BY <3>1, <3>3, <3>4, <3>5, <3>6
  <2>5. ASSUME NEW h \in Handlers, PushBack(h) PROVE StaticsBacked'
    <3>1. \A g \in Handlers : /\ add'[g] \in Updating <=> add[g] \in Updating
                              /\ add'[g] \in Updating => add'[g] = add[g]
      BY <2>5 DEF PushBack, IInv, TypeInv, Updating, Looping
    <3>2. current_level' = current_level /\ current_filter' = current_filter /\ top' = top
      BY <2>5 DEF PushBack
    <3> QED BY <2>1, <2>2, <3>1, <3>2 DEF Reached, Updating, Looping
  <2>6. CASE UNCHANGED <<add, top, current_level, current_filter>>
    BY <2>1, <2>2, <2>6 DEF Reached
  <2> QED
    BY <1>2, <2>1, <2>3, <2>4, <2>5, <2>6, <2>7
       DEF Next, vars, Log, AddHandler, Construct, Begin, CheckLevel, CheckFilter, Lock, Deliver,
           Unlock, SetLevel
<1> QED BY <1>1, <1>2

(* A statement that passed a test found a handler that would.              *)
LEMMA TestsBackedStep ==
  ASSUME IInv, [Next]_vars, sets' = {}, NEW m \in Messages
  PROVE  TestsBacked(m)'
<1> USE DEF TestsBacked, message, handler, current, engine, history
<1> SUFFICES ASSUME pc'[m] \in {"filter", "level", "locking"}
             PROVE  TestsBacked(m)'
  OBVIOUS
<1>1. ~Destruct /\ ~Begin(m)
  BY DEF Destruct, Quiet, Begin, IInv, TypeInv
<1>2. level'[m] = level[m] /\ level[m] \in Nat /\ current_level \in Nat
  BY <1>1 DEF Next, vars, Log, AddHandler, Construct, Begin, CheckLevel, CheckFilter, Lock,
              Deliver, Unlock, PushBack, Survey, Compare, Raise, NextRound, StoreLevel,
              StoreFilter, SetLevel, IInv, TypeInv, Levels
<1>3. /\ sets = {} /\ InPlace \subseteq InPlace' /\ handlerLevel' = handlerLevel
      /\ \A l : Reached(l) => Reached(l)'
  BY <1>1, ReachedKept
<1>4. StaticsBacked /\ TestsBacked(m)
  BY <1>3 DEF IInv, RelevanceInv
<1>5. \A h \in InPlace : handlerLevel[h] \in Nat
  BY DEF InPlace, IInv, TypeInv, Levels
<1>6. CASE CheckLevel(m)
  <2>1. ~(level[m] > current_level) /\ pc[m] \in {"reading", "level"}
        /\ pc'[m] = IF pc[m] = "reading" THEN "filter" ELSE "locking"
    BY <1>6 DEF CheckLevel, IInv, TypeInv
  <2>2. level[m] = 0 \/ Reached(level[m])
    <3>1. CASE current_level = 0
      BY <1>2, <2>1, <3>1
    <3>2. CASE Reached(current_level)
      BY <1>2, <1>5, <2>1, <3>2 DEF Reached
    <3> QED BY <1>4, <3>1, <3>2 DEF StaticsBacked
  <2>3. InPlace # {} => Reached(level[m])
    BY <1>5, <2>2 DEF Reached
  <2> QED BY <1>2, <1>3, <1>4, <2>1, <2>2, <2>3 DEF Reached
<1>7. CASE CheckFilter(m)
  <2>1. filter[m] \cap current_filter # {} /\ pc[m] \in {"reading", "filter"}
        /\ pc'[m] = IF pc[m] = "reading" THEN "level" ELSE "locking"
    BY <1>7 DEF CheckFilter, IInv, TypeInv
  <2>2. InPlace # {}
    BY <1>4, <2>1 DEF StaticsBacked
  <2>3. level[m] = 0 \/ Reached(level[m]) => Reached(level[m])
    BY <1>5, <2>2 DEF Reached
  <2> QED BY <1>2, <1>3, <1>4, <2>1, <2>2, <2>3 DEF Reached
<1>8. CASE ~CheckLevel(m) /\ ~CheckFilter(m)
  <2>1. pc[m] = pc'[m]
    BY <1>1, <1>8
       DEF Next, vars, Log, AddHandler, Construct, Begin, CheckLevel, CheckFilter, Lock,
           Deliver, Unlock, PushBack, Survey, Compare, Raise, NextRound, StoreLevel,
           StoreFilter, SetLevel, IInv, TypeInv
  <2> QED BY <1>2, <1>3, <1>4, <2>1 DEF Reached
<1> QED BY <1>6, <1>7, <1>8

(* And finds it in the loop.                                               *)
LEMMA LoopBackedStep ==
  ASSUME IInv, [Next]_vars, sets' = {}, NEW m \in Messages
  PROVE  LoopBacked(m)'
<1> USE DEF message, handler, current, engine, history
<1>1. \A g \in Handlers : Got(g, m) => Got(g, m)'
  <2>1. ASSUME NEW n \in Messages, Deliver(n) PROVE \A g \in Handlers : Got(g, m) => Got(g, m)'
    BY <2>1, DeliverGot
  <2> QED BY <2>1, ReceivedKept
<1>2. CASE pc'[m] = "done"
  <2>1. \E h \in Handlers : Got(h, m)
    <3>1. sets = {}
      BY <1>2 DEF Next, vars, Log, AddHandler, Construct, Destruct, Begin, CheckLevel,
                  CheckFilter, Lock, Deliver, Unlock, PushBack, Survey, Compare, Raise,
                  NextRound, StoreLevel, StoreFilter, SetLevel
    <3>2. LoopBacked(m)
      BY <3>1 DEF IInv, RelevanceInv
    <3>3. CASE pc[m] = "done"
      BY <3>2, <3>3 DEF LoopBacked
    <3>4. CASE pc[m] # "done"
      <4>1. Unlock(m)
        BY <1>2, <3>4 DEF Next, vars, Log, AddHandler, Construct, Destruct, Begin, CheckLevel,
                          CheckFilter, Lock, Deliver, Unlock, PushBack, Survey, Compare, Raise,
                          NextRound, StoreLevel, StoreFilter, SetLevel, IInv, TypeInv
      <4>2. pc[m] = "delivering" /\ at .. Len(handlers) = {}
        BY <4>1 DEF Unlock, IInv, LockInv, TypeInv
      <4> QED BY <3>2, <4>2 DEF LoopBacked
    <3> QED BY <3>3, <3>4
  <2> QED BY <1>1, <1>2, <2>1 DEF LoopBacked
<1>3. CASE pc'[m] = "delivering"
  <2>1. ~Destruct
    BY <1>3 DEF Destruct, Quiet
  <2>2. sets = {} /\ handlerLevel' = handlerLevel
    BY <2>1, ReachedKept
  <2>3. LoopBacked(m) /\ TestsBacked(m)
    BY <2>2 DEF IInv, RelevanceInv
  <2>4. CASE Deliver(m)
    <3>1. /\ pc[m] = "delivering" /\ handlers' = handlers /\ at' = at + 1 /\ level' = level
          /\ at \in 1 .. Len(handlers) /\ handlers[at] \in Handlers
      BY <2>4 DEF Deliver, IInv, LockInv, TypeInv
    <3>2. CASE \E h \in Handlers : Got(h, m)
      BY <1>1, <1>3, <3>2 DEF LoopBacked
    <3>3. CASE \E k \in at .. Len(handlers) : level[m] <= handlerLevel[handlers[k]]
      <4>1. PICK k \in at .. Len(handlers) : level[m] <= handlerLevel[handlers[k]]
        BY <3>3
      <4>2. CASE k = at
        <5>1. PICK g \in Handlers : g = handlers[at]
          BY <3>1
        <5>2. Got(g, m)'
          BY <2>4, <4>1, <4>2, <5>1, DeliverGot
        <5> QED BY <1>3, <5>1, <5>2 DEF LoopBacked
      <4>3. CASE k # at
        <5>1. k \in at' .. Len(handlers')
          BY <3>1, <4>3
        <5> QED BY <1>3, <2>2, <3>1, <4>1, <5>1 DEF LoopBacked
      <4> QED BY <4>2, <4>3
    <3> QED BY <2>3, <3>1, <3>2, <3>3 DEF LoopBacked
  <2>5. CASE pc[m] = "delivering" /\ ~Deliver(m)
    <3>1. handlers' = handlers /\ at' = at
      BY <1>3, <2>5, LoopKept
    <3>2. level'[m] = level[m]
      BY <1>3, <2>5 DEF Next, vars, Log, AddHandler, Construct, Destruct, Begin, CheckLevel,
                        CheckFilter, Lock, Deliver, Unlock, PushBack, Survey, Compare, Raise,
                        NextRound, StoreLevel, StoreFilter, SetLevel, IInv, TypeInv
    <3> QED BY <1>1, <1>3, <2>2, <2>3, <2>5, <3>1, <3>2 DEF LoopBacked
  <2>6. CASE pc[m] # "delivering"
    <3>1. Lock(m)
      BY <1>3, <2>6 DEF Next, vars, Log, AddHandler, Construct, Destruct, Begin, CheckLevel,
                        CheckFilter, Lock, Deliver, Unlock, PushBack, Survey, Compare, Raise,
                        NextRound, StoreLevel, StoreFilter, SetLevel, IInv, TypeInv
    <3>2. pc[m] = "locking" /\ handlers' = handlers /\ at' = 1 /\ level' = level
      BY <3>1 DEF Lock
    <3>3. \E k \in 1 .. Len(handlers) : level[m] <= handlerLevel[handlers[k]]
      BY <2>3, <3>2 DEF TestsBacked, Reached, InPlace
    <3> QED BY <1>3, <2>2, <3>2, <3>3 DEF LoopBacked
  <2> QED BY <2>4, <2>5, <2>6
<1>4. CASE pc'[m] \notin {"delivering", "done"}
  BY <1>4 DEF LoopBacked
<1> QED BY <1>2, <1>3, <1>4

(* RelevanceInv is kept.                                                   *)
LEMMA RelevanceStep ==
  ASSUME IInv, [Next]_vars
  PROVE  RelevanceInv'
BY StaticsBackedStep, TestsBackedStep, LoopBackedStep DEF RelevanceInv

-----------------------------------------------------------------------------
(* Theorems.                                                               *)

(* The initial states satisfy the invariant.                               *)
LEMMA InitInv == Init => IInv
<1> SUFFICES ASSUME Init PROVE IInv
  OBVIOUS
<1> USE LogEngineAssumption DEF Init
<1>1. TypeInv
  <2>1. 0 \in Levels /\ 0 \in 0 .. MaxLives /\ {} \in Filters
    BY DEF Levels, Filters
  <2>2. << >> \in Seq(Messages) /\ << >> \in Seq(Handlers)
    OBVIOUS
  <2> QED BY <2>1, <2>2 DEF TypeInv
<1>2. LockInv /\ HandlersInv /\ EngineInv
  BY DEF LockInv, HandlersInv, EngineInv, InPlace, Updating, Looping
<1>3. CoverInv /\ OrderInv /\ AudienceInv
  BY DEF CoverInv, FiltersCover, LevelsInv, LevelsCover, Looping, OrderInv, SameOrder, Got,
         AudienceInv, Reading
<1>4. RelevanceInv
  BY DEF RelevanceInv, StaticsBacked, TestsBacked, LoopBacked, Looping
<1> QED BY <1>1, <1>2, <1>3, <1>4 DEF IInv

(* The invariant holds of every behaviour: lock_ excludes, handlers_ holds *)
(* each handler once, the loop of UpdateLevelAndFilter covers the handlers *)
(* it is past unless a level fell between its two loads of it, and what    *)
(* the statics say is backed by handlers.                                  *)
THEOREM Invariant == Spec => []IInv
<1>1. IInv /\ [Next]_vars => IInv'
  BY TypeStep, LockStep, HandlersStep, EngineStep, CoverStep, OrderStep, AudienceStep, RelevanceStep
     DEF IInv
<1> QED BY InitInv, <1>1, PTL DEF Spec

(* Every state of the engine is well typed; in particular the loops of     *)
(* DoSubmit and of UpdateLevelAndFilter never leave handlers_.             *)
THEOREM TypeCorrect == Spec => []TypeOK
<1>1. IInv => TypeOK
  BY DEF IInv, TypeInv, LockInv, TypeOK
<1> QED BY <1>1, Invariant, PTL

(* Any two handlers get the messages both get in one order, none twice.    *)
THEOREM SameOrderCorrect == Spec => []SameOrder
<1>1. IInv => SameOrder
  BY DEF IInv, OrderInv
<1> QED BY <1>1, Invariant, PTL

(* A handler whose AddHandler had returned when a statement began, and     *)
(* whose level nobody set, gets the message if level and filter are its    *)
(* own, whatever handlers are being added at the time; if IsRelevant drops *)
(* it, some other handler's level fell between two loads of the update.    *)
THEOREM NoneMissedCorrect == Spec => []NoneMissed
<1>1. IInv => NoneMissed
  BY DEF IInv, AudienceInv, NoneMissed, Due, TypeInv
<1> QED BY <1>1, Invariant, PTL

(* A statement that passed IsRelevant reaches some handler, though its two *)
(* loads may see the stores of different AddHandler calls, while no        *)
(* SetLevel was called.                                                    *)
THEOREM RelevantLoggedCorrect == Spec => []RelevantIsLogged
<1>1. IInv => RelevantIsLogged
  BY DEF IInv, RelevanceInv, LoopBacked, RelevantIsLogged
<1> QED BY <1>1, Invariant, PTL

(* The statics cover the filter of every handler whose AddHandler has      *)
(* returned, and its level if nobody set that and no other handler's level *)
(* fell between the two loads of UpdateLevelAndFilter.                     *)
THEOREM StaticsCoverCorrect == Spec => []StaticsCover
<1>1. IInv => StaticsCover
  BY DEF IInv, CoverInv, LevelsCover, FiltersCover, StaticsCover
<1> QED BY <1>1, Invariant, PTL

(* No statement goes to an engine that is not there.                       *)
THEOREM SubmitHasEngineCorrect == Spec => []SubmitHasEngine
<1>1. IInv => SubmitHasEngine
  BY DEF IInv, EngineInv, SubmitHasEngine
<1> QED BY <1>1, Invariant, PTL

=============================================================================
