----------------------------- MODULE Unwinding ------------------------------
(***************************************************************************)
(* Transaction and WarCleanUp: objects that act when the scope that holds  *)
(* them is left.  A task with nested scopes, each with a Transaction and   *)
(* then a WarCleanUp, makes steps it can take back, commits or not, and    *)
(* leaves its scopes by return, by an exception, or because it is a        *)
(* suspended coroutine that another thread destroys.                       *)
(*                                                                         *)
(* Memory does not run out: AddUndo does not fail after its step was made. *)
(***************************************************************************)
EXTENDS Naturals, SequencesExt

CONSTANTS
  MaxSteps,  (* bound: steps the task makes; they are numbered in order     *)
  MaxDepth   (* bound: scopes one inside the other                          *)

ASSUME UnwindingAssumption == MaxSteps \in Nat /\ MaxDepth \in Nat

Steps   == 1 .. MaxSteps
Threads == {"worker", "main"}

VARIABLES
  scopes,   (* the scopes entered, outermost first                         *)
  on,       (* the thread the task's code runs on                          *)
  mode,     (* how the innermost scope is being left, if it is             *)
  next,     (* the number of the next step                                 *)
  effects,  (* steps made and not taken back                               *)
  left      (* history: the scopes left                                    *)

vars == <<scopes, on, mode, next, effects, left>>

(* A scope: undoers_ and committed_ of its Transaction, thread_id_ of its  *)
(* WarCleanUp, whether that was destroyed and its handler called, and, as  *)
(* history, the steps made in it.                                          *)
Scopes ==
  [undoers : Seq(Steps), committed : BOOLEAN, thread_id : Threads \cup {"none"},
   over : BOOLEAN, called : BOOLEAN, steps : SUBSET Steps]

TypeOK ==
  /\ scopes \in Seq(Scopes) /\ Len(scopes) <= MaxDepth
  /\ on \in Threads
  /\ mode \in {"running", "returning", "throwing", "forced", "terminated"}
  /\ next \in 1 .. MaxSteps + 1
  /\ effects \subseteq Steps
  /\ left \subseteq [steps : SUBSET Steps, committed : BOOLEAN, called : BOOLEAN,
                      on : Threads]

Init ==
  /\ scopes = << >>
  /\ on = "worker" /\ mode = "running"
  /\ next = 1 /\ effects = {} /\ left = {}

Inner   == Last(scopes)
Leaving == mode \in {"returning", "throwing", "forced"} /\ scopes # << >>

SetInner(s) == scopes' = Append(Front(scopes), s)

-----------------------------------------------------------------------------
(* The body of a scope.                                                    *)

(* The constructors.  WarCleanUp's gives thread_id_ no value: it is the    *)
(* identity of no thread.                                                  *)
Enter ==
  /\ mode = "running" /\ Len(scopes) < MaxDepth
  /\ scopes' = Append(scopes,
       [undoers |-> << >>, committed |-> FALSE, thread_id |-> "none",
        over |-> FALSE, called |-> FALSE, steps |-> {}])
  /\ UNCHANGED <<on, mode, next, effects, left>>

(* Mutant of AddUndo: push_back.                                           *)
AddUndoLast(undoers, n) == Append(undoers, n)

AddUndo(undoers, n) == <<n>> \o undoers

(* The task makes a step, and then says how to take it back.               *)
Step ==
  /\ mode = "running" /\ scopes # << >> /\ next <= MaxSteps
  /\ effects' = effects \cup {next}
  /\ SetInner([Inner EXCEPT !.undoers = AddUndo(@, next), !.steps = @ \cup {next}])
  /\ next' = next + 1
  /\ UNCHANGED <<on, mode, left>>

Commit ==
  /\ mode = "running" /\ scopes # << >>
  /\ SetInner([Inner EXCEPT !.committed = TRUE])
  /\ UNCHANGED <<on, mode, next, effects, left>>

(* The scope is left by return, or an exception is thrown in it.           *)
Exit ==
  /\ mode = "running" /\ scopes # << >>
  /\ mode' \in {"returning", "throwing"}
  /\ UNCHANGED <<scopes, on, next, effects, left>>

(* The task is a coroutine, is suspended, and is destroyed with the        *)
(* io_context, on the thread that destroys it; no scope catches this.      *)
Forced ==
  /\ mode = "running" /\ scopes # << >>
  /\ mode' = "forced" /\ on' = "main"
  /\ UNCHANGED <<scopes, next, effects, left>>

-----------------------------------------------------------------------------
(* The destructors, the last object's first.                               *)

(* ~WarCleanUp calls its handler on the thread of thread_id_ only.         *)
CleanUp ==
  /\ Leaving /\ ~Inner.over
  /\ SetInner([Inner EXCEPT !.over = TRUE, !.called = (Inner.thread_id = on)])
  /\ UNCHANGED <<on, mode, next, effects, left>>

(* Mutant of MustUndo: committed_ is not looked at.                        *)
MustUndoAlways(s) == s.over

(* ~Transaction.                                                           *)
MustUndo(s) == s.over /\ ~s.committed

Undo ==
  /\ Leaving /\ MustUndo(Inner) /\ Inner.undoers # << >>
  /\ effects' = effects \ {Head(Inner.undoers)}
  /\ SetInner([Inner EXCEPT !.undoers = Tail(@)])
  /\ UNCHANGED <<on, mode, next, left>>

(* An undo function that throws leaves a destructor.                       *)
UndoThrows ==
  /\ Leaving /\ MustUndo(Inner) /\ Inner.undoers # << >>
  /\ mode' = "terminated"
  /\ UNCHANGED <<scopes, on, next, effects, left>>

(* The scope is left; after a return the one around it goes on.            *)
Leave ==
  /\ Leaving /\ Inner.over /\ (Inner.committed \/ Inner.undoers = << >>)
  /\ scopes' = Front(scopes)
  /\ mode' = IF mode = "returning" THEN "running" ELSE mode
  /\ left' = left \cup {[steps |-> Inner.steps, committed |-> Inner.committed,
                         called |-> Inner.called, on |-> on]}
  /\ UNCHANGED <<on, next, effects>>

(* A scope that is not being destroyed yet catches the exception.          *)
Catch ==
  /\ mode = "throwing" /\ (scopes # << >> => ~Inner.over)
  /\ mode' = "running"
  /\ UNCHANGED <<scopes, on, next, effects, left>>

-----------------------------------------------------------------------------
Next ==
  \/ Enter \/ Step \/ Commit \/ Exit \/ Forced
  \/ CleanUp \/ Undo \/ UndoThrows \/ Leave \/ Catch

Spec == Init /\ [][Next]_vars

-----------------------------------------------------------------------------
(* Safety.                                                                 *)

(* When a scope is left, however that happens and on whichever thread, the *)
(* steps made in it are all in effect if it committed, and none of them if *)
(* it did not; and that is not undone by what happens around it.           *)
AllOrNothing ==
  \A s \in left : IF s.committed THEN s.steps \subseteq effects
                  ELSE s.steps \cap effects = {}

(* Steps are taken back in the reverse of the order they were made in: a   *)
(* step is still what its undo function expects when it is called.         *)
UndoneBackwards ==
  [][\A n \in effects \ effects' : \A k \in Inner.steps \cap effects : k <= n]_vars

-----------------------------------------------------------------------------
(* What a comment says, and the code does not do.                          *)

(* WarCleanUp.h:17: "We therefore must check that we are executing under   *)
(* the correct thread (the therad that created the object)": on that       *)
(* thread the handler is called.                                           *)
CleanedUpAtHome == \A s \in left : s.on = "worker" => s.called
=============================================================================
