------------------------------ MODULE LogEngine -----------------------------
(***************************************************************************)
(* war::log::LogEngine: log statements on any thread, the two statics      *)
(* IsRelevant reads without a lock, and the handlers, which lock_ guards.  *)
(*                                                                         *)
(* A message is one log statement; those of the library itself, AddHandler *)
(* included, are among them.  A handler is added at most once.  Statements *)
(* are executed also while there is no engine: before main() makes one and *)
(* after it is gone.  The engine is destroyed when no statement and no     *)
(* AddHandler is in progress.                                              *)
(***************************************************************************)
EXTENDS Naturals, Sequences, FiniteSets

CONSTANTS
  Messages,    (* log statements, each executed at most once               *)
  Handlers,    (* event handlers                                           *)
  MaxLevel,    (* the most detailed level; LL_FATAL is 0                   *)
  Flags,       (* the bits of a filter                                     *)
  LogFilters,  (* the filters log statements are written with              *)
  MaxSets,     (* bound: handlers SetLevel is called on                    *)
  MaxLives,    (* bound: engines, one after the other                      *)
  Nobody       (* lock_ is free                                            *)

ASSUME LogEngineAssumption ==
  /\ IsFiniteSet(Messages) /\ IsFiniteSet(Handlers)
  /\ MaxLevel \in Nat /\ MaxSets \in Nat /\ MaxLives \in Nat
  /\ LogFilters \subseteq SUBSET Flags
  /\ Nobody \notin Messages \cup Handlers
  /\ Messages \cap Handlers = {}

Levels  == 0 .. MaxLevel
Filters == SUBSET Flags

VARIABLES
  instance,        (* instance_ is not null                                *)
  lives,           (* engines made so far                                  *)
  pc,              (* control of each log statement                        *)
  level,           (* the level of each statement                          *)
  filter,          (* and its filter                                       *)
  audience,        (* history: handlers in place when the statement began  *)
  add,             (* control of AddHandler, per handler                   *)
  handlerLevel,    (* level_ of each handler                               *)
  handlerFilter,   (* filter_ of each handler                              *)
  received,        (* what each handler got, in order                      *)
  handlers,        (* handlers_                                            *)
  at,              (* the position in handlers_ of the loop under lock_    *)
  lock,            (* the statement or the AddHandler that holds lock_     *)
  top,             (* level, local to UpdateLevelAndFilter                 *)
  current_level,   (* current_level_                                       *)
  current_filter,  (* current_filter_                                      *)
  sets,            (* history: handlers SetLevel was called on             *)
  torn             (* history: a level fell between two loads of a loop    *)

message == <<level, filter, audience>>
handler == <<add, handlerLevel, handlerFilter, handlers>>
current == <<current_level, current_filter>>
engine  == <<instance, lives>>
history == <<sets, torn>>
vars    == <<instance, lives, pc, level, filter, audience, add, handlerLevel,
             handlerFilter, received, handlers, at, lock, top, current_level, current_filter, sets,
             torn>>

TypeOK ==
  /\ instance \in BOOLEAN /\ lives \in 0 .. MaxLives
  /\ pc \in [Messages -> {"idle", "reading", "level", "filter", "locking",
                          "delivering", "done", "irrelevant"}]
  /\ level \in [Messages -> Levels] /\ filter \in [Messages -> Filters]
  /\ audience \in [Messages -> SUBSET Handlers]
  /\ add \in [Handlers -> {"new", "pushed", "surveying", "raising", "storing", "level",
                           "filter", "added", "removed"}]
  /\ handlerLevel \in [Handlers -> Levels] /\ handlerFilter \in [Handlers -> Filters]
  /\ received \in [Handlers -> Seq(Messages)]
  /\ handlers \in Seq(Handlers)
  /\ at \in 1 .. Len(handlers) + 1
  /\ lock \in Messages \cup Handlers \cup {Nobody}
  /\ top \in Levels /\ current_level \in Levels /\ current_filter \in Filters
  /\ sets \subseteq Handlers /\ torn \in BOOLEAN

Init ==
  /\ instance = FALSE /\ lives = 0
  /\ pc = [m \in Messages |-> "idle"]
  /\ level = [m \in Messages |-> 0] /\ filter = [m \in Messages |-> {}]
  /\ audience = [m \in Messages |-> {}]
  /\ add = [h \in Handlers |-> "new"]
  /\ handlerLevel \in [Handlers -> Levels] /\ handlerFilter \in [Handlers -> Filters]
  /\ received = [h \in Handlers |-> << >>]
  /\ handlers = << >> /\ at = 1 /\ lock = Nobody
  /\ top = 0 /\ current_level = 0 /\ current_filter = {}
  /\ sets = {} /\ torn = FALSE

-----------------------------------------------------------------------------
(* The engine.                                                             *)

Construct ==
  /\ ~instance /\ lives < MaxLives
  /\ instance' = TRUE /\ lives' = lives + 1
  /\ UNCHANGED <<pc, message, handler, received, at, lock, top, current, history>>

Quiet == /\ \A m \in Messages : pc[m] \in {"idle", "done", "irrelevant"}
         /\ \A h \in Handlers : add[h] \in {"new", "added", "removed"}

(* The handlers go with the engine.                                        *)
DropHandlers ==
  /\ handlers' = << >>
  /\ add' = [h \in Handlers |-> IF add[h] = "added" THEN "removed" ELSE add[h]]
  /\ UNCHANGED <<handlerLevel, handlerFilter>>

(* Mutant of Destruct: only current_level_ is reset.                       *)
DestructKeepsFilter ==
  /\ instance /\ Quiet
  /\ instance' = FALSE
  /\ current_level' = 0
  /\ DropHandlers
  /\ UNCHANGED <<lives, pc, message, received, at, lock, top, current_filter, history>>

Destruct ==
  /\ instance /\ Quiet
  /\ instance' = FALSE
  /\ current_level' = 0 /\ current_filter' = {}
  /\ DropHandlers
  /\ UNCHANGED <<lives, pc, message, received, at, lock, top, history>>

-----------------------------------------------------------------------------
(* A log statement.                                                        *)

Begin(m) ==
  /\ pc[m] = "idle"
  /\ pc' = [pc EXCEPT ![m] = "reading"]
  /\ \E l \in Levels, f \in LogFilters :
       /\ level' = [level EXCEPT ![m] = l]
       /\ filter' = [filter EXCEPT ![m] = f]
  /\ audience' = [audience EXCEPT ![m] = {h \in Handlers : add[h] = "added"}]
  /\ UNCHANGED <<engine, handler, received, at, lock, top, current, history>>

(* IsRelevant is two plain loads, which the build may make in either       *)
(* order: "reading" is before both, "level" and "filter" name the one to   *)
(* come.  Here: level <= current_level_.                                   *)
CheckLevel(m) ==
  /\ pc[m] \in {"reading", "level"}
  /\ pc' = [pc EXCEPT ![m] = IF level[m] > current_level THEN "irrelevant"
                             ELSE IF @ = "reading" THEN "filter" ELSE "locking"]
  /\ UNCHANGED <<engine, message, handler, received, at, lock, top, current, history>>

(* IsRelevant: (filter & current_filter_) != 0                             *)
CheckFilter(m) ==
  /\ pc[m] \in {"reading", "filter"}
  /\ pc' = [pc EXCEPT ![m] = IF filter[m] \cap current_filter = {} THEN "irrelevant"
                             ELSE IF @ = "reading" THEN "level" ELSE "locking"]
  /\ UNCHANGED <<engine, message, handler, received, at, lock, top, current, history>>

(* Mutant of Lock: no lock.                                                *)
LockNot(m) ==
  /\ pc[m] = "locking"
  /\ at' = 1
  /\ pc' = [pc EXCEPT ![m] = "delivering"]
  /\ UNCHANGED <<engine, message, handler, received, lock, top, current, history>>

Lock(m) ==
  /\ pc[m] = "locking" /\ lock = Nobody
  /\ lock' = m /\ at' = 1
  /\ pc' = [pc EXCEPT ![m] = "delivering"]
  /\ UNCHANGED <<engine, message, handler, received, top, current, history>>

(* Mutant of Deliver: the loop ends at the first handler that wants the   *)
(* message.                                                                *)
DeliverOnce(m) ==
  /\ pc[m] = "delivering" /\ at <= Len(handlers)
  /\ LET h == handlers[at] IN
       IF level[m] <= handlerLevel[h]
       THEN received' = [received EXCEPT ![h] = Append(@, m)] /\ at' = Len(handlers) + 1
       ELSE at' = at + 1 /\ UNCHANGED received
  /\ UNCHANGED <<engine, pc, message, handler, lock, top, current, history>>

(* Mutant of Deliver: the loop ends at the first handler that does not.    *)
DeliverBreaks(m) ==
  /\ pc[m] = "delivering" /\ at <= Len(handlers)
  /\ LET h == handlers[at] IN
       IF level[m] <= handlerLevel[h]
       THEN received' = [received EXCEPT ![h] = Append(@, m)] /\ at' = at + 1
       ELSE at' = Len(handlers) + 1 /\ UNCHANGED received
  /\ UNCHANGED <<engine, pc, message, handler, lock, top, current, history>>

(* DoSubmit: one round of the loop.  Only the level is compared.           *)
Deliver(m) ==
  /\ pc[m] = "delivering" /\ at <= Len(handlers)
  /\ LET h == handlers[at] IN
       received' = IF level[m] <= handlerLevel[h]
                   THEN [received EXCEPT ![h] = Append(@, m)] ELSE received
  /\ at' = at + 1
  /\ UNCHANGED <<engine, pc, message, handler, lock, top, current, history>>

Unlock(m) ==
  /\ pc[m] = "delivering" /\ at > Len(handlers)
  /\ lock' = Nobody /\ at' = 1
  /\ pc' = [pc EXCEPT ![m] = "done"]
  /\ UNCHANGED <<engine, message, handler, received, top, current, history>>

-----------------------------------------------------------------------------
(* AddHandler and SetLevel.                                                *)

(* push_back under the lock.                                               *)
PushBack(h) ==
  /\ instance /\ add[h] = "new" /\ lock = Nobody
  /\ handlers' = Append(handlers, h)
  /\ add' = [add EXCEPT ![h] = "pushed"]
  /\ UNCHANGED <<engine, pc, message, handlerLevel, handlerFilter, received, at, lock, top,
                 current, history>>

(* UpdateLevelAndFilter: the lock, then a round of the loop per handler.   *)
Survey(h) ==
  /\ add[h] = "pushed" /\ lock = Nobody
  /\ lock' = h
  /\ add' = [add EXCEPT ![h] = "surveying"]
  /\ UNCHANGED <<engine, pc, message, handlerLevel, handlerFilter, received, handlers, at, top,
                 current, history>>

(* On to the next handler, or out of the loop.                             *)
NextRound(h) ==
  /\ at' = IF at < Len(handlers) THEN at + 1 ELSE 1
  /\ add' = [add EXCEPT ![h] = IF at < Len(handlers) THEN "surveying" ELSE "storing"]

(* level_ is loaded twice, once to compare it and, if it is the highest so *)
(* far, once more to take it; SetLevel may store it in between.            *)
Compare(h) ==
  /\ add[h] = "surveying"
  /\ IF handlerLevel[handlers[at]] > top
     THEN add' = [add EXCEPT ![h] = "raising"] /\ UNCHANGED at
     ELSE NextRound(h)
  /\ UNCHANGED <<engine, pc, message, handlerLevel, handlerFilter, received, handlers, lock, top,
                 current, history>>

Raise(h) ==
  /\ add[h] = "raising"
  /\ top' = handlerLevel[handlers[at]]
  /\ NextRound(h)
  /\ UNCHANGED <<engine, pc, message, handlerLevel, handlerFilter, received, handlers, lock,
                 current, history>>

(* No filter changes, so the loop has these, whenever it comes by.         *)
AddedFilters == UNION {handlerFilter[handlers[i]] : i \in 1 .. Len(handlers)}

(* The two stores are plain too: "level" and "filter" name the one to      *)
(* come.  The lock is released after the second.                           *)
Stored(h, other) ==
  IF add[h] = "storing"
  THEN add' = [add EXCEPT ![h] = other] /\ UNCHANGED <<lock, top>>
  ELSE add' = [add EXCEPT ![h] = "added"] /\ lock' = Nobody /\ top' = 0

(* Mutant of StoreLevel: one above the highest is stored.                  *)
StoreLevelAbove(h) ==
  /\ add[h] \in {"storing", "level"}
  /\ current_level' = top + 1
  /\ Stored(h, "filter")
  /\ UNCHANGED <<engine, pc, message, handlerLevel, handlerFilter, received, handlers, at,
                 current_filter, history>>

StoreLevel(h) ==
  /\ add[h] \in {"storing", "level"}
  /\ current_level' = top
  /\ Stored(h, "filter")
  /\ UNCHANGED <<engine, pc, message, handlerLevel, handlerFilter, received, handlers, at,
                 current_filter, history>>

(* Mutant of StoreFilter: the new handler's own filter is stored.          *)
StoreFilterOwn(h) ==
  /\ add[h] \in {"storing", "filter"}
  /\ current_filter' = handlerFilter[h]
  /\ Stored(h, "level")
  /\ UNCHANGED <<engine, pc, message, handlerLevel, handlerFilter, received, handlers, at,
                 current_level, history>>

StoreFilter(h) ==
  /\ add[h] \in {"storing", "filter"}
  /\ current_filter' = AddedFilters
  /\ Stored(h, "level")
  /\ UNCHANGED <<engine, pc, message, handlerLevel, handlerFilter, received, handlers, at,
                 current_level, history>>

(* Between the two loads of h's level the loop would take l, below what it *)
(* has of the handlers before h.                                           *)
Tears(h, l) == \E g \in Handlers : add[g] = "raising" /\ handlers[at] = h /\ l < top

(* SetLevel stores level_ without the lock, and updates nothing else.      *)
SetLevel(h) ==
  /\ Cardinality(sets) < MaxSets
  /\ \E l \in Levels \ {handlerLevel[h]} :
       /\ handlerLevel' = [handlerLevel EXCEPT ![h] = l]
       /\ torn' = (torn \/ Tears(h, l))
  /\ sets' = sets \cup {h}
  /\ UNCHANGED <<engine, pc, message, add, handlerFilter, received, handlers, at, lock, top,
                 current>>

-----------------------------------------------------------------------------
Log(m) ==
  \/ Begin(m) \/ CheckLevel(m) \/ CheckFilter(m)
  \/ Lock(m) \/ Deliver(m) \/ Unlock(m)

AddHandler(h) ==
  \/ PushBack(h) \/ Survey(h) \/ Compare(h) \/ Raise(h)
  \/ StoreLevel(h) \/ StoreFilter(h)

Next ==
  \/ Construct \/ Destruct
  \/ \E m \in Messages : Log(m)
  \/ \E h \in Handlers : AddHandler(h) \/ SetLevel(h)

Spec == Init /\ [][Next]_vars

-----------------------------------------------------------------------------
(* Safety.                                                                 *)

Got(h, m) == \E i \in 1 .. Len(received[h]) : received[h][i] = m

(* Whatever the threads, two handlers get the messages both get in the     *)
(* same order, and no message twice.                                       *)
SameOrder ==
  \A g, h \in Handlers :
    \A i, j \in 1 .. Len(received[g]) : \A k, l \in 1 .. Len(received[h]) :
      i < j /\ received[g][i] = received[h][k] /\ received[g][j] = received[h][l] => k < l

(* Wants(h, m): the message is for the handler, by its level and filter.   *)
Wants(h, m) == level[m] <= handlerLevel[h] /\ filter[m] \cap handlerFilter[h] # {}

(* A handler misses no message that is for it, however many handlers are   *)
(* being added meanwhile, provided AddHandler had returned when the        *)
(* statement began and its level stayed as it was.  Only IsRelevant fails  *)
(* it where another level fell between two loads of UpdateLevelAndFilter.  *)
NoneMissed ==
  \A m \in Messages : \A h \in audience[m] \ sets :
    (pc[m] = "done" \/ (pc[m] = "irrelevant" /\ ~torn)) /\ Wants(h, m) => Got(h, m)

(* A statement that passed IsRelevant is logged somewhere, though its two  *)
(* loads may see the stores of two different AddHandler calls; so long as  *)
(* no level is changed behind the engine's back.                           *)
RelevantIsLogged ==
  sets = {} => \A m \in Messages : pc[m] = "done" => \E h \in Handlers : Got(h, m)

(* The statics cover every handler whose AddHandler has returned: its      *)
(* filter always, and its level if it stayed as it was, though SetLevel on *)
(* the others races UpdateLevelAndFilter, unless one of theirs fell        *)
(* between two loads.                                                      *)
StaticsCover ==
  \A h \in Handlers : add[h] = "added" =>
    /\ handlerFilter[h] \subseteq current_filter
    /\ h \notin sets /\ ~torn => handlerLevel[h] <= current_level

(* A statement goes to Submit, which uses instance_, only while there is   *)
(* an engine: the statics an engine leaves behind let nothing through.     *)
SubmitHasEngine ==
  \A m \in Messages : pc[m] \in {"locking", "delivering"} => instance

-----------------------------------------------------------------------------
(* What the documentation says, and the code does not do.                  *)

(* WarLog.h:319: "The log-level and filters are adjusted to fit the most   *)
(* detailed log-level for the combined event-handlers that are added."     *)
(* Read here of the handlers whose level was never changed, when every     *)
(* AddHandler has returned.                                                *)
MostDetailed ==
  (\A h \in Handlers : add[h] \in {"new", "added"}) =>
    \A h \in Handlers \ sets : add[h] = "added" => handlerLevel[h] <= current_level
=============================================================================
