--------------------------- MODULE UnwindingProofs ---------------------------
(* Theorems about Unwinding, for any number of steps and any depth.        *)
EXTENDS Unwinding, TLAPS, SequenceTheorems

-----------------------------------------------------------------------------
(* The invariant.                                                          *)

Depth == Len(scopes)

(* Only the innermost scope can be half destroyed, and it then is being    *)
(* left.                                                                   *)
OverInv ==
  \A i \in 1 .. Depth : scopes[i].over =>
    i = Depth /\ mode \in {"returning", "throwing", "forced", "terminated"}

(* The undo functions of a scope are those of its steps in effect, the     *)
(* latest first.                                                           *)
IsUndoer(s, n) == \E i \in 1 .. Len(s.undoers) : s.undoers[i] = n

UndoInv(s) ==
  /\ \A n \in Steps : IsUndoer(s, n) <=> n \in s.steps \cap effects
  /\ \A i, j \in 1 .. Len(s.undoers) : i < j => s.undoers[j] < s.undoers[i]

(* The steps of a scope are in effect until it is destroyed, and stay so   *)
(* if it committed.                                                        *)
EffectInv(s) == ~s.over \/ s.committed => s.steps \subseteq effects

(* No step is of two scopes, and the next one is of none.                  *)
StepsInv ==
  /\ \A i, j \in 1 .. Depth : i # j => scopes[i].steps \cap scopes[j].steps = {}
  /\ \A i \in 1 .. Depth : \A s \in left : scopes[i].steps \cap s.steps = {}
  /\ \A i \in 1 .. Depth : \A n \in scopes[i].steps : n < next
  /\ \A s \in left : \A n \in s.steps : n < next
  /\ \A n \in effects : n < next

ScopesInv == \A i \in 1 .. Depth : UndoInv(scopes[i]) /\ EffectInv(scopes[i])

IInv == TypeOK /\ OverInv /\ ScopesInv /\ StepsInv /\ AllOrNothing

-----------------------------------------------------------------------------
(* The innermost scope.                                                    *)

(* The scopes around it.                                                   *)
LEMMA FrontKeeps ==
  ASSUME NEW q \in Seq(Scopes), q # << >>
  PROVE  /\ Front(q) \in Seq(Scopes) /\ Len(Front(q)) = Len(q) - 1
         /\ \A i \in 1 .. Len(q) - 1 : Front(q)[i] = q[i]
<1>1. PICK n \in Nat : n = Len(q) - 1
  OBVIOUS
<1>2. \A i \in 1 .. n : q[i] \in Scopes
  BY <1>1
<1>3. /\ SubSeq(q, 1, n) \in Seq(Scopes)
      /\ Len(SubSeq(q, 1, n)) = IF 1 <= n THEN n - 1 + 1 ELSE 0
      /\ \A i \in 1 .. n - 1 + 1 : SubSeq(q, 1, n)[i] = q[1 + i - 1]
  BY <1>2, SubSeqProperties
<1>4. n - 1 + 1 = n /\ (n < 1 => n = 0) /\ \A i \in 1 .. n : 1 + i - 1 = i
  OBVIOUS
<1>5. Len(SubSeq(q, 1, n)) = n
  BY <1>3, <1>4
<1>6. \A i \in 1 .. n : SubSeq(q, 1, n)[i] = q[i]
  BY <1>3, <1>4
<1> QED BY <1>1, <1>3, <1>5, <1>6 DEF Front

(* SetInner replaces the innermost scope and no other.                     *)
LEMMA InnerSet ==
  ASSUME TypeOK, scopes # << >>, NEW s \in Scopes, SetInner(s)
  PROVE  /\ Depth \in Nat \ {0} /\ Inner = scopes[Depth] /\ Inner \in Scopes
         /\ scopes' \in Seq(Scopes) /\ Depth' = Depth /\ scopes'[Depth] = s
         /\ \A i \in 1 .. Depth : i # Depth => scopes'[i] = scopes[i]
<1>1. scopes \in Seq(Scopes) /\ Depth \in Nat \ {0}
  BY DEF TypeOK, Depth
<1>2. Inner = scopes[Depth] /\ Inner \in Scopes
  BY <1>1 DEF Inner, Last, Depth
<1>3. /\ Front(scopes) \in Seq(Scopes) /\ Len(Front(scopes)) = Depth - 1
      /\ \A i \in 1 .. Depth - 1 : Front(scopes)[i] = scopes[i]
  BY <1>1, FrontKeeps DEF Depth
<1>4. scopes' = Append(Front(scopes), s)
  BY DEF SetInner
<1>5. scopes' \in Seq(Scopes) /\ Len(scopes') = Depth /\ scopes'[Depth] = s
      /\ \A i \in 1 .. Depth - 1 : scopes'[i] = scopes[i]
  BY <1>1, <1>3, <1>4
<1>6. \A i \in 1 .. Depth : i # Depth => i \in 1 .. Depth - 1
  BY <1>1
<1> QED BY <1>1, <1>2, <1>5, <1>6 DEF Depth

(* Entering a scope puts it inside the others.                             *)
LEMMA Entered ==
  ASSUME TypeOK, Enter
  PROVE  /\ Depth \in Nat /\ scopes' \in Seq(Scopes) /\ Depth' = Depth + 1
         /\ scopes'[Depth + 1] = [undoers |-> << >>, committed |-> FALSE, thread_id |-> "none",
                                  over |-> FALSE, called |-> FALSE, steps |-> {}]
         /\ \A i \in 1 .. Depth : scopes'[i] = scopes[i]
<1> DEFINE s == [undoers |-> << >>, committed |-> FALSE, thread_id |-> "none",
                 over |-> FALSE, called |-> FALSE, steps |-> {}]
<1>1. scopes \in Seq(Scopes) /\ Depth \in Nat
  BY DEF TypeOK, Depth
<1>2. s \in Scopes
  <2>1. << >> \in Seq(Steps)
    OBVIOUS
  <2> QED BY <2>1 DEF Scopes
<1>3. scopes' = Append(scopes, s)
  BY DEF Enter
<1> HIDE DEF s
<1>4. /\ scopes' \in Seq(Scopes) /\ Len(scopes') = Len(scopes) + 1
      /\ scopes'[Len(scopes) + 1] = s /\ \A i \in 1 .. Len(scopes) : scopes'[i] = scopes[i]
  BY <1>1, <1>2, <1>3
<1> QED BY <1>1, <1>4 DEF Depth, s

(* Leaving one leaves the others.                                          *)
LEMMA LeftScope ==
  ASSUME TypeOK, Leave
  PROVE  /\ Depth \in Nat \ {0} /\ Inner = scopes[Depth] /\ Inner \in Scopes
         /\ scopes' \in Seq(Scopes) /\ Depth' = Depth - 1
         /\ \A i \in 1 .. Depth' : i \in 1 .. Depth /\ i # Depth /\ scopes'[i] = scopes[i]
<1>1. scopes \in Seq(Scopes) /\ Depth \in Nat \ {0}
  BY DEF TypeOK, Depth, Leave, Leaving
<1>2. Inner = scopes[Depth] /\ Inner \in Scopes
  BY <1>1 DEF Inner, Last, Depth
<1>3. /\ scopes' \in Seq(Scopes) /\ Len(scopes') = Depth - 1
      /\ \A i \in 1 .. Depth - 1 : scopes'[i] = scopes[i]
  BY <1>1, FrontKeeps DEF Depth, Leave
<1>4. \A i \in 1 .. Depth - 1 : i \in 1 .. Depth /\ i # Depth
  BY <1>1
<1> QED BY <1>1, <1>2, <1>3, <1>4 DEF Depth

(* What AddUndo does to the undo functions of a scope.                     *)
LEMMA AddUndoFirst ==
  ASSUME NEW q \in Seq(Steps), NEW n \in Steps
  PROVE  /\ AddUndo(q, n) \in Seq(Steps) /\ Len(AddUndo(q, n)) = Len(q) + 1
         /\ AddUndo(q, n)[1] = n
         /\ \A i \in 1 .. Len(q) + 1 : i # 1 => /\ i - 1 \in 1 .. Len(q)
                                              /\ AddUndo(q, n)[i] = q[i - 1]
BY DEF AddUndo

(* And what ~Transaction leaves of them.                                   *)
LEMMA UndoersTail ==
  ASSUME NEW q \in Seq(Steps), q # << >>
  PROVE  /\ Tail(q) \in Seq(Steps) /\ Len(q) \in Nat \ {0} /\ Len(Tail(q)) = Len(q) - 1
         /\ Head(q) = q[1] /\ q[1] \in Steps
         /\ \A i \in 1 .. Len(q) - 1 : i + 1 \in 1 .. Len(q) /\ Tail(q)[i] = q[i + 1]
OBVIOUS

-----------------------------------------------------------------------------
(* The steps keep the invariant.                                           *)

(* Types.                                                                  *)
LEMMA TypeStep ==
  ASSUME TypeOK, [Next]_vars
  PROVE  TypeOK'
<1> USE UnwindingAssumption
<1>1. CASE Enter
  <2>1. Len(scopes) < MaxDepth /\ UNCHANGED <<on, mode, next, effects, left>>
    BY <1>1 DEF Enter
  <2>2. scopes' \in Seq(Scopes) /\ Len(scopes') <= MaxDepth
    BY <1>1, <2>1, Entered DEF Depth
  <2> QED BY <2>1, <2>2 DEF TypeOK
<1>2. ASSUME scopes # << >>, NEW s \in Scopes, SetInner(s)
      PROVE  scopes' \in Seq(Scopes) /\ Len(scopes') <= MaxDepth
  <2>1. scopes' \in Seq(Scopes) /\ Len(scopes') = Len(scopes)
    BY <1>2, InnerSet DEF Depth
  <2> QED BY <2>1 DEF TypeOK
<1>3. scopes # << >> => Inner \in Scopes
  BY DEF TypeOK, Inner, Last
<1>4. CASE Step
  <2>1. scopes # << >> /\ next \in Steps /\ SetInner([Inner EXCEPT !.undoers = AddUndo(@, next),
                                                                   !.steps = @ \cup {next}])
        /\ effects' = effects \cup {next} /\ next' = next + 1 /\ UNCHANGED <<on, mode, left>>
    BY <1>4 DEF Step, TypeOK, Steps
  <2>2. Inner.undoers \in Seq(Steps)
    BY <1>3, <2>1 DEF Scopes
  <2>3. AddUndo(Inner.undoers, next) \in Seq(Steps)
    BY <2>1, <2>2, AddUndoFirst
  <2>4. [Inner EXCEPT !.undoers = AddUndo(@, next), !.steps = @ \cup {next}] \in Scopes
    BY <1>3, <2>1, <2>3 DEF Scopes
  <2>5. next' \in 1 .. MaxSteps + 1
    BY <2>1 DEF Steps
  <2> QED BY <1>2, <2>1, <2>4, <2>5 DEF TypeOK
<1>5. CASE Commit
  <2>1. [Inner EXCEPT !.committed = TRUE] \in Scopes
    BY <1>3, <1>5 DEF Commit, Scopes
  <2> QED BY <1>2, <1>5, <2>1 DEF Commit, TypeOK
<1>6. CASE Exit \/ Forced \/ UndoThrows \/ Catch
  BY <1>6 DEF Exit, Forced, UndoThrows, Catch, TypeOK, Threads
<1>7. CASE CleanUp
  <2>1. [Inner EXCEPT !.over = TRUE, !.called = (Inner.thread_id = on)] \in Scopes
    BY <1>3, <1>7 DEF CleanUp, Leaving, Scopes
  <2> QED BY <1>2, <1>7, <2>1 DEF CleanUp, Leaving, TypeOK
<1>8. CASE Undo
  <2>1. [Inner EXCEPT !.undoers = Tail(@)] \in Scopes
    BY <1>3, <1>8, UndoersTail DEF Undo, Leaving, Scopes
  <2> QED BY <1>2, <1>8, <2>1 DEF Undo, Leaving, TypeOK
<1>9. CASE Leave
  <2>1. scopes' \in Seq(Scopes) /\ Len(scopes') <= MaxDepth /\ Inner \in Scopes
    BY <1>9, LeftScope DEF TypeOK, Depth
  <2> QED BY <1>9, <2>1 DEF Leave, TypeOK, Scopes
<1>10. CASE UNCHANGED vars
  BY <1>10 DEF vars, TypeOK
<1> QED BY <1>1, <1>4, <1>5, <1>6, <1>7, <1>8, <1>9, <1>10 DEF Next

Rest == OverInv /\ ScopesInv /\ StepsInv /\ AllOrNothing

(* A new scope has no steps.                                               *)
LEMMA EnterStep ==
  ASSUME IInv, Enter
  PROVE  Rest'
<1>1. /\ Depth \in Nat /\ Depth' = Depth + 1
      /\ scopes'[Depth + 1].undoers = << >> /\ scopes'[Depth + 1].steps = {}
      /\ ~scopes'[Depth + 1].over
      /\ \A i \in 1 .. Depth : scopes'[i] = scopes[i]
  BY Entered DEF IInv
<1>2. \A i \in 1 .. Depth' : i \in 1 .. Depth \/ i = Depth + 1
  BY <1>1
<1>3. mode = "running" /\ mode' = mode /\ next' = next /\ effects' = effects /\ left' = left
  BY DEF Enter
<1>4. OverInv'
  BY <1>1, <1>2, <1>3 DEF IInv, OverInv
<1>5. ScopesInv'
  <2> SUFFICES ASSUME NEW i \in 1 .. Depth'
               PROVE  (UndoInv(scopes[i]) /\ EffectInv(scopes[i]))'
    BY DEF ScopesInv
  <2>1. CASE i = Depth + 1
    <3>1. scopes'[i].undoers = << >> /\ scopes'[i].steps = {}
      BY <1>1, <2>1
    <3>2. Len(scopes'[i].undoers) = 0
      BY <3>1
    <3> QED BY <3>1, <3>2 DEF UndoInv, EffectInv, IsUndoer
  <2>2. CASE i \in 1 .. Depth
    <3>1. UndoInv(scopes[i]) /\ EffectInv(scopes[i]) /\ scopes'[i] = scopes[i]
      BY <1>1, <2>2 DEF IInv, ScopesInv
    <3> QED BY <1>3, <3>1 DEF UndoInv, EffectInv, IsUndoer
  <2> QED BY <1>2, <2>1, <2>2
<1>6. StepsInv'
  BY <1>1, <1>2, <1>3 DEF IInv, StepsInv
<1>7. AllOrNothing'
  BY <1>3 DEF IInv, AllOrNothing
<1> QED BY <1>4, <1>5, <1>6, <1>7 DEF Rest

(* A step is new, in effect, and the first to be undone.                   *)
LEMMA StepUndoers ==
  ASSUME NEW s \in Scopes, UndoInv(s), EffectInv(s), ~s.over, NEW n \in Steps, NEW t \in Scopes,
         \A k \in effects : k < n, effects \subseteq Steps,
         t.undoers = AddUndo(s.undoers, n), t.steps = s.steps \cup {n},
         effects' = effects \cup {n}
  PROVE  UndoInv(t)' /\ EffectInv(t)'
<1>1. PICK q \in Seq(Steps), r \in Seq(Steps) : q = s.undoers /\ r = t.undoers
  BY DEF Scopes
<1>2. /\ Len(q) \in Nat /\ Len(r) = Len(q) + 1 /\ r[1] = n
      /\ \A i \in 1 .. Len(q) + 1 : i # 1 => i - 1 \in 1 .. Len(q) /\ r[i] = q[i - 1]
  <2>1. r = AddUndo(q, n)
    BY <1>1
  <2>2. Len(q) \in Nat
    OBVIOUS
  <2>3. /\ Len(AddUndo(q, n)) = Len(q) + 1 /\ AddUndo(q, n)[1] = n
        /\ \A i \in 1 .. Len(q) + 1 : i # 1 => /\ i - 1 \in 1 .. Len(q)
                                              /\ AddUndo(q, n)[i] = q[i - 1]
    BY AddUndoFirst
  <2> HIDE DEF AddUndo
  <2> QED BY <2>1, <2>2, <2>3
<1>3. \A i \in 1 .. Len(q) : q[i] \in Steps /\ q[i] < n
  <2>1. \A i \in 1 .. Len(q) : q[i] \in Steps
    BY <1>1
  <2>2. \A i \in 1 .. Len(q) : q[i] \in effects
    BY <1>1, <2>1 DEF UndoInv, IsUndoer
  <2> QED BY <2>1, <2>2
<1>4. \A k \in Steps : (\E i \in 1 .. Len(r) : r[i] = k)
                       <=> (k = n \/ \E i \in 1 .. Len(q) : q[i] = k)
  <2>1. \A i \in 1 .. Len(q) : i + 1 \in 1 .. Len(r) /\ r[i + 1] = q[i]
    BY <1>2
  <2>2. 1 \in 1 .. Len(r) /\ 1 .. Len(r) = 1 .. Len(q) + 1
    BY <1>2
  <2>3. ASSUME NEW i \in 1 .. Len(r) PROVE r[i] = n \/ \E j \in 1 .. Len(q) : q[j] = r[i]
    BY <1>2, <2>2
  <2>4. \E i \in 1 .. Len(r) : r[i] = n
    BY <1>2, <2>2
  <2>5. ASSUME NEW j \in 1 .. Len(q) PROVE \E i \in 1 .. Len(r) : r[i] = q[j]
    BY <2>1
  <2> QED BY <2>3, <2>4, <2>5
<1>5. ASSUME NEW i \in 1 .. Len(r), NEW j \in 1 .. Len(r), i < j
      PROVE  r[j] < r[i]
  <2>1. j # 1 /\ j - 1 \in 1 .. Len(q) /\ r[j] = q[j - 1]
    BY <1>2, <1>5
  <2>2. CASE i = 1
    BY <1>2, <1>3, <2>1, <2>2
  <2>3. CASE i # 1
    <3>1. i - 1 \in 1 .. Len(q) /\ r[i] = q[i - 1] /\ i - 1 < j - 1
      BY <1>2, <1>5, <2>1, <2>3
    <3>2. \A x, y \in 1 .. Len(q) : x < y => q[y] < q[x]
      BY <1>1 DEF UndoInv
    <3> QED BY <2>1, <3>1, <3>2
  <2> QED BY <2>2, <2>3
<1>6. \A k \in Steps : (\E i \in 1 .. Len(r) : r[i] = k) <=> k \in t.steps \cap effects'
  <2>1. \A k \in Steps : (\E i \in 1 .. Len(q) : q[i] = k) <=> k \in s.steps \cap effects
    BY <1>1 DEF UndoInv, IsUndoer
  <2>2. s.steps \subseteq effects
    BY DEF EffectInv
  <2> QED BY <1>4, <2>1, <2>2
<1>7. t.steps \subseteq effects'
  BY DEF EffectInv
<1> QED BY <1>1, <1>5, <1>6, <1>7 DEF UndoInv, IsUndoer, EffectInv

(* Steps of other scopes are not concerned when one comes in or goes out.  *)
LEMMA OtherScope ==
  ASSUME NEW s \in Scopes, UndoInv(s), EffectInv(s),
         \A n \in s.steps : n \in effects' <=> n \in effects
  PROVE  UndoInv(s)' /\ EffectInv(s)'
BY DEF UndoInv, IsUndoer, EffectInv, Scopes

LEMMA StepStep ==
  ASSUME IInv, Step
  PROVE  Rest'
<1>1. PICK n \in Steps : n = next
  BY DEF Step, IInv, TypeOK, Steps
<1>2. /\ mode = "running" /\ scopes # << >>
      /\ effects' = effects \cup {n} /\ next' = n + 1 /\ mode' = mode /\ left' = left
      /\ SetInner([Inner EXCEPT !.undoers = AddUndo(@, n), !.steps = @ \cup {n}])
  BY <1>1 DEF Step
<1>3. PICK s \in Scopes : s = Inner
  BY <1>2 DEF IInv, TypeOK, Inner, Last
<1>4. PICK t \in Scopes : t = [s EXCEPT !.undoers = AddUndo(@, n), !.steps = @ \cup {n}]
  <2>1. AddUndo(s.undoers, n) \in Seq(Steps)
    BY AddUndoFirst DEF Scopes
  <2> QED BY <2>1 DEF Scopes
<1>5. /\ Depth \in Nat \ {0} /\ s = scopes[Depth] /\ Depth' = Depth /\ scopes'[Depth] = t
      /\ \A i \in 1 .. Depth : i # Depth => scopes'[i] = scopes[i]
  BY <1>2, <1>3, <1>4, InnerSet DEF IInv
<1>6. /\ t.undoers = AddUndo(s.undoers, n) /\ t.steps = s.steps \cup {n}
      /\ t.over = s.over /\ t.committed = s.committed
  BY <1>4 DEF Scopes
<1>7. Depth \in 1 .. Depth /\ \A i \in 1 .. Depth : scopes[i] \in Scopes
  BY <1>5 DEF IInv, TypeOK, Depth
<1>8. ~s.over
  BY <1>2, <1>5, <1>7 DEF IInv, OverInv
<1>9. OverInv'
  BY <1>2, <1>5, <1>6, <1>8 DEF IInv, OverInv
<1>10. /\ \A k \in effects : k < n
       /\ \A i \in 1 .. Depth : \A k \in scopes[i].steps : k < n
       /\ \A r \in left : \A k \in r.steps : k < n
  BY <1>1 DEF IInv, StepsInv
<1>11. n \in Nat /\ n \notin effects /\ \A i \in 1 .. Depth : n \notin scopes[i].steps
  BY <1>10 DEF Steps
<1>12. ScopesInv'
  <2>1. UndoInv(t)' /\ EffectInv(t)'
    <3>1. UndoInv(s) /\ EffectInv(s) /\ effects \subseteq Steps
      BY <1>5, <1>7 DEF IInv, ScopesInv, TypeOK
    <3> QED BY <1>2, <1>6, <1>8, <1>10, <3>1, StepUndoers
  <2>2. ASSUME NEW i \in 1 .. Depth, i # Depth, NEW r, r = scopes[i]
        PROVE  UndoInv(r)' /\ EffectInv(r)'
    <3>1. \A k \in r.steps : k \in effects' <=> k \in effects
      BY <1>2, <1>11, <2>2
    <3>2. r \in Scopes /\ UndoInv(r) /\ EffectInv(r)
      BY <1>7, <2>2 DEF IInv, ScopesInv
    <3> QED BY <3>1, <3>2, OtherScope
  <2> SUFFICES ASSUME NEW i \in 1 .. Depth
               PROVE  (UndoInv(scopes[i]) /\ EffectInv(scopes[i]))'
    BY <1>5 DEF ScopesInv
  <2>3. CASE i = Depth
    <3>1. scopes'[i] = t
      BY <1>5, <2>3
    <3> QED BY <2>1, <3>1 DEF UndoInv, EffectInv, IsUndoer
  <2>4. CASE i # Depth
    <3>1. PICK r : r = scopes[i] /\ scopes'[i] = r
      BY <1>5, <2>4
    <3>2. UndoInv(r)' /\ EffectInv(r)'
      BY <2>2, <2>4, <3>1
    <3> QED BY <3>1, <3>2 DEF UndoInv, EffectInv, IsUndoer
  <2> QED BY <2>3, <2>4
<1>13. StepsInv'
  <2>1. \A i \in 1 .. Depth : \A k : k \in scopes'[i].steps
                                       => k \in scopes[i].steps \/ (k = n /\ i = Depth)
    <3>1. \A k : k \in t.steps => k \in scopes[Depth].steps \/ k = n
      <4>1. t.steps = s.steps \cup {n} /\ s = scopes[Depth]
        BY <1>5, <1>6
      <4>2. t.steps = scopes[Depth].steps \cup {n}
        BY <4>1
      <4> QED BY <4>2
    <3> TAKE i \in 1 .. Depth
    <3>2. CASE i = Depth
      BY <1>5, <3>1, <3>2
    <3>3. CASE i # Depth
      BY <1>5, <3>3
    <3> QED BY <3>2, <3>3
  <2>2. \A r \in left : n \notin r.steps
    BY <1>10, <1>11
  <2>3. \A k : k \in Nat /\ k < n => k < next'
    BY <1>2, <1>11
  <2>4. /\ \A i \in 1 .. Depth : scopes[i].steps \subseteq Nat
        /\ \A r \in left : r.steps \subseteq Nat
        /\ effects \subseteq Nat
    BY <1>7 DEF IInv, TypeOK, Scopes, Steps
  <2>5. n < next'
    BY <1>2, <1>11
  <2>6. /\ \A i \in 1 .. Depth : \A k \in scopes'[i].steps : k < next'
        /\ \A r \in left : \A k \in r.steps : k < next'
        /\ \A k \in effects' : k < next'
    BY <1>2, <1>10, <2>1, <2>3, <2>4, <2>5
  <2>7. \A i, j \in 1 .. Depth : i # j => scopes'[i].steps \cap scopes'[j].steps = {}
    BY <1>7, <1>11, <2>1 DEF IInv, StepsInv
  <2>8. \A i \in 1 .. Depth : \A r \in left : scopes'[i].steps \cap r.steps = {}
    BY <2>1, <2>2 DEF IInv, StepsInv
  <2> QED BY <1>2, <1>5, <2>6, <2>7, <2>8 DEF StepsInv
<1>14. AllOrNothing'
  <2>1. \A r \in left : n \notin r.steps
    BY <1>10, <1>11
  <2> QED BY <1>2, <2>1 DEF IInv, AllOrNothing
<1> QED BY <1>9, <1>12, <1>13, <1>14 DEF Rest

(* A step on the innermost scope that makes no new step concerns no other  *)
(* scope, and no scope that was left.                                      *)
LEMMA InnerStep ==
  ASSUME IInv, scopes # << >>, NEW s \in Scopes, s = Inner, NEW t \in Scopes, SetInner(t),
         t.steps = s.steps, effects' \subseteq effects, effects \ effects' \subseteq s.steps,
         left' = left, next' = next, UndoInv(t)', EffectInv(t)',
         t.over => mode' \in {"returning", "throwing", "forced", "terminated"}
  PROVE  Rest'
<1>1. /\ Depth \in Nat \ {0} /\ s = scopes[Depth] /\ Depth' = Depth /\ scopes'[Depth] = t
      /\ \A i \in 1 .. Depth : i # Depth => scopes'[i] = scopes[i]
  BY InnerSet DEF IInv
<1>2. Depth \in 1 .. Depth /\ \A i \in 1 .. Depth : scopes[i] \in Scopes
  BY <1>1 DEF IInv, TypeOK, Depth
<1>3. \A i \in 1 .. Depth : scopes'[i].steps = scopes[i].steps
  BY <1>1
<1>4. OverInv'
  <2>1. \A i \in 1 .. Depth : i # Depth => ~scopes[i].over
    BY DEF IInv, OverInv
  <2> QED BY <1>1, <2>1 DEF OverInv
<1>5. ScopesInv'
  <2>1. ASSUME NEW i \in 1 .. Depth, i # Depth, NEW r, r = scopes[i]
        PROVE  UndoInv(r)' /\ EffectInv(r)'
    <3>1. r.steps \cap s.steps = {}
      BY <1>1, <1>2, <2>1 DEF IInv, StepsInv
    <3>2. \A k \in r.steps : k \in effects' <=> k \in effects
      BY <3>1
    <3>3. r \in Scopes /\ UndoInv(r) /\ EffectInv(r)
      BY <1>2, <2>1 DEF IInv, ScopesInv
    <3> QED BY <3>2, <3>3, OtherScope
  <2> SUFFICES ASSUME NEW i \in 1 .. Depth
               PROVE  (UndoInv(scopes[i]) /\ EffectInv(scopes[i]))'
    BY <1>1 DEF ScopesInv
  <2>2. CASE i = Depth
    <3>1. scopes'[i] = t
      BY <1>1, <2>2
    <3> QED BY <3>1 DEF UndoInv, EffectInv, IsUndoer
  <2>3. CASE i # Depth
    <3>1. PICK r : r = scopes[i] /\ scopes'[i] = r
      BY <1>1, <2>3
    <3>2. UndoInv(r)' /\ EffectInv(r)'
      BY <2>1, <2>3, <3>1
    <3> QED BY <3>1, <3>2 DEF UndoInv, EffectInv, IsUndoer
  <2> QED BY <2>2, <2>3
<1>6. StepsInv'
  BY <1>1, <1>3 DEF IInv, StepsInv
<1>7. AllOrNothing'
  <2>1. \A r \in left : r.steps \cap s.steps = {}
    BY <1>1, <1>2 DEF IInv, StepsInv
  <2>2. \A r \in left : r.steps \cap effects' = r.steps \cap effects
    BY <2>1
  <2> QED BY <2>2 DEF IInv, AllOrNothing
<1> QED BY <1>4, <1>5, <1>6, <1>7 DEF Rest

(* Commit, and the destructors that undo.                                  *)
LEMMA CommitStep ==
  ASSUME IInv, Commit
  PROVE  Rest'
<1>1. /\ scopes # << >> /\ mode = "running" /\ SetInner([Inner EXCEPT !.committed = TRUE])
      /\ UNCHANGED <<mode, next, effects, left>>
  BY DEF Commit
<1>2. PICK s \in Scopes : s = Inner /\ s = scopes[Depth] /\ Depth \in 1 .. Depth
  BY <1>1 DEF IInv, TypeOK, Inner, Last, Depth
<1>3. PICK t \in Scopes : t = [s EXCEPT !.committed = TRUE]
  BY DEF Scopes
<1>4. UndoInv(s) /\ EffectInv(s) /\ ~s.over
  BY <1>1, <1>2 DEF IInv, ScopesInv, OverInv
<1>5. t.steps = s.steps /\ t.undoers = s.undoers /\ t.over = s.over
  BY <1>3 DEF Scopes
<1>6. UndoInv(t)' /\ EffectInv(t)'
  BY <1>1, <1>4, <1>5 DEF UndoInv, IsUndoer, EffectInv
<1> QED BY <1>1, <1>2, <1>3, <1>4, <1>5, <1>6, InnerStep

LEMMA CleanUpStep ==
  ASSUME IInv, CleanUp
  PROVE  Rest'
<1>1. /\ scopes # << >> /\ mode \in {"returning", "throwing", "forced"}
      /\ SetInner([Inner EXCEPT !.over = TRUE, !.called = (Inner.thread_id = on)])
      /\ UNCHANGED <<on, mode, next, effects, left>>
  BY DEF CleanUp, Leaving
<1>2. PICK s \in Scopes : s = Inner /\ s = scopes[Depth] /\ Depth \in 1 .. Depth
  BY <1>1 DEF IInv, TypeOK, Inner, Last, Depth
<1>3. PICK t \in Scopes : t = [s EXCEPT !.over = TRUE, !.called = (s.thread_id = on)]
  BY DEF Scopes
<1>4. UndoInv(s) /\ EffectInv(s) /\ ~s.over
  BY <1>2 DEF CleanUp, IInv, ScopesInv
<1>5. t.steps = s.steps /\ t.undoers = s.undoers
  BY <1>3 DEF Scopes
<1>6. UndoInv(t)' /\ EffectInv(t)'
  BY <1>1, <1>4, <1>5 DEF UndoInv, IsUndoer, EffectInv
<1> QED BY <1>1, <1>2, <1>3, <1>5, <1>6, InnerStep

(* Undo calls the undo function of the latest step in effect.              *)
LEMMA UndoLatest ==
  ASSUME IInv, Undo
  PROVE  /\ Inner \in Scopes /\ Inner = scopes[Depth] /\ Depth \in 1 .. Depth
         /\ UndoInv(Inner) /\ EffectInv(Inner) /\ Inner.over /\ ~Inner.committed
         /\ Head(Inner.undoers) \in Inner.steps \cap effects
         /\ \A k \in Inner.steps \cap effects : k <= Head(Inner.undoers)
<1>1. scopes # << >> /\ Inner.over /\ ~Inner.committed /\ Inner.undoers # << >>
  BY DEF Undo, Leaving, MustUndo
<1>2. Inner \in Scopes /\ Inner = scopes[Depth] /\ Depth \in 1 .. Depth
  BY <1>1 DEF IInv, TypeOK, Inner, Last, Depth
<1>3. UndoInv(Inner) /\ EffectInv(Inner)
  BY <1>2 DEF IInv, ScopesInv
<1>4. PICK q \in Seq(Steps) : q = Inner.undoers
  BY <1>2 DEF Scopes
<1>5. Len(q) \in Nat \ {0} /\ Head(q) = q[1] /\ q[1] \in Steps
  BY <1>1, <1>4, UndoersTail
<1>6. Head(q) \in Inner.steps \cap effects
  BY <1>3, <1>4, <1>5 DEF UndoInv, IsUndoer
<1>7. \A i \in 1 .. Len(q) : q[i] <= q[1] /\ q[i] \in Steps
  <2> TAKE i \in 1 .. Len(q)
  <2>1. q[i] \in Steps /\ 1 \in 1 .. Len(q)
    BY <1>5
  <2>2. CASE i = 1
    BY <1>5, <2>2 DEF Steps
  <2>3. CASE i # 1
    <3>1. 1 < i
      BY <2>3
    <3>2. q[i] < q[1]
      BY <1>3, <1>4, <2>1, <3>1 DEF UndoInv
    <3> QED BY <1>5, <2>1, <3>2 DEF Steps
  <2> QED BY <2>2, <2>3
<1>8. \A k \in Inner.steps \cap effects : \E i \in 1 .. Len(q) : q[i] = k
  BY <1>2, <1>3, <1>4 DEF UndoInv, IsUndoer, Scopes
<1> QED BY <1>1, <1>2, <1>3, <1>4, <1>5, <1>6, <1>7, <1>8

LEMMA UndoStep ==
  ASSUME IInv, Undo
  PROVE  Rest'
<1>1. /\ scopes # << >> /\ mode \in {"returning", "throwing", "forced"}
      /\ SetInner([Inner EXCEPT !.undoers = Tail(@)]) /\ Inner.undoers # << >>
      /\ effects' = effects \ {Head(Inner.undoers)}
      /\ UNCHANGED <<on, mode, next, left>>
  BY DEF Undo, Leaving
<1>2. PICK s \in Scopes : s = Inner
  BY UndoLatest
<1>3. PICK q \in Seq(Steps) : q = s.undoers
  BY DEF Scopes
<1>4. /\ Tail(q) \in Seq(Steps) /\ Len(q) \in Nat \ {0} /\ Len(Tail(q)) = Len(q) - 1
      /\ Head(q) = q[1] /\ q[1] \in Steps
      /\ \A i \in 1 .. Len(q) - 1 : i + 1 \in 1 .. Len(q) /\ Tail(q)[i] = q[i + 1]
  BY <1>1, <1>2, <1>3, UndoersTail
<1>5. PICK r \in Seq(Steps) : r = Tail(q)
  BY <1>4
<1>6. PICK t \in Scopes : t = [s EXCEPT !.undoers = r]
  BY DEF Scopes
<1>7. t.steps = s.steps /\ t.undoers = r /\ t.over = s.over /\ t.committed = s.committed
  BY <1>6 DEF Scopes
<1>8. UndoInv(s) /\ EffectInv(s) /\ s.over /\ ~s.committed /\ q[1] \in s.steps
  BY <1>2, <1>3, <1>4, UndoLatest
<1>9. EffectInv(t)'
  BY <1>7, <1>8 DEF EffectInv
<1>10. Len(r) = Len(q) - 1 /\ \A i \in 1 .. Len(r) : i + 1 \in 1 .. Len(q) /\ r[i] = q[i + 1]
  BY <1>4, <1>5
<1>11. \A i, j \in 1 .. Len(q) : i < j => q[j] < q[i]
  BY <1>3, <1>8 DEF UndoInv
<1>12. \A i, j \in 1 .. Len(r) : i < j => r[j] < r[i]
  <2> SUFFICES ASSUME NEW i \in 1 .. Len(r), NEW j \in 1 .. Len(r), i < j
               PROVE  r[j] < r[i]
    OBVIOUS
  <2>1. i + 1 < j + 1
    OBVIOUS
  <2> QED BY <1>10, <1>11, <2>1
<1>13. \A k \in Steps : (\E i \in 1 .. Len(r) : r[i] = k)
                        <=> (k # q[1] /\ \E i \in 1 .. Len(q) : q[i] = k)
  <2>1. \A i \in 1 .. Len(r) : r[i] # q[1] /\ \E j \in 1 .. Len(q) : q[j] = r[i]
    <3> TAKE i \in 1 .. Len(r)
    <3>1. i + 1 \in 1 .. Len(q) /\ r[i] = q[i + 1] /\ 1 < i + 1 /\ 1 \in 1 .. Len(q)
      BY <1>4, <1>10
    <3>2. q[i + 1] < q[1]
      BY <1>11, <3>1
    <3>3. q[1] \in Nat
      BY <1>4 DEF Steps
    <3> QED BY <3>1, <3>2, <3>3
  <2>2. ASSUME NEW j \in 1 .. Len(q), q[j] # q[1] PROVE \E i \in 1 .. Len(r) : r[i] = q[j]
    <3>1. j - 1 \in 1 .. Len(r) /\ (j - 1) + 1 = j
      BY <1>4, <1>10, <2>2
    <3> QED BY <1>10, <3>1
  <2> SUFFICES ASSUME NEW k \in Steps
               PROVE  (\E i \in 1 .. Len(r) : r[i] = k)
                      <=> (k # q[1] /\ \E i \in 1 .. Len(q) : q[i] = k)
    OBVIOUS
  <2>3. ASSUME \E i \in 1 .. Len(r) : r[i] = k
        PROVE  k # q[1] /\ \E i \in 1 .. Len(q) : q[i] = k
    <3>1. PICK i \in 1 .. Len(r) : r[i] = k
      BY <2>3
    <3> QED BY <2>1, <3>1, Zenon
  <2>4. ASSUME k # q[1], \E i \in 1 .. Len(q) : q[i] = k
        PROVE  \E i \in 1 .. Len(r) : r[i] = k
    <3>1. PICK j \in 1 .. Len(q) : q[j] = k
      BY <2>4
    <3> QED BY <2>2, <2>4, <3>1, Zenon
  <2> QED BY <2>3, <2>4, Zenon
<1>14. UndoInv(t)'
  <2>1. \A k \in Steps : (\E i \in 1 .. Len(q) : q[i] = k) <=> k \in s.steps \cap effects
    BY <1>3, <1>8 DEF UndoInv, IsUndoer
  <2>2. effects' = effects \ {q[1]}
    BY <1>1, <1>2, <1>3, <1>4
  <2>3. \A k \in Steps : (\E i \in 1 .. Len(r) : r[i] = k) <=> k \in t.steps \cap effects'
    BY <1>7, <1>13, <2>1, <2>2
  <2> QED BY <1>7, <1>12, <2>3 DEF UndoInv, IsUndoer
<1>15. SetInner(t)
  BY <1>1, <1>2, <1>3, <1>5, <1>6
<1>16. effects' \subseteq effects /\ effects \ effects' \subseteq s.steps
  BY <1>1, <1>2, <1>3, <1>4, <1>8
<1> QED BY <1>1, <1>2, <1>7, <1>9, <1>14, <1>15, <1>16, InnerStep

(* A scope is left with all its steps in effect, or none.                  *)
LEMMA LeaveStep ==
  ASSUME IInv, Leave
  PROVE  Rest'
<1>1. /\ Inner.over /\ (Inner.committed \/ Inner.undoers = << >>)
      /\ left' = left \cup {[steps |-> Inner.steps, committed |-> Inner.committed,
                             called |-> Inner.called, on |-> on]}
      /\ UNCHANGED <<on, next, effects>>
  BY DEF Leave
<1>2. /\ Depth \in Nat \ {0} /\ Inner = scopes[Depth] /\ Inner \in Scopes /\ Depth' = Depth - 1
      /\ \A i \in 1 .. Depth' : i \in 1 .. Depth /\ i # Depth /\ scopes'[i] = scopes[i]
  BY LeftScope DEF IInv
<1>3. PICK s \in Scopes : s = Inner /\ s = scopes[Depth] /\ Depth \in 1 .. Depth
  BY <1>2
<1>4. UndoInv(s) /\ EffectInv(s)
  BY <1>3 DEF IInv, ScopesInv
<1>5. OverInv'
  BY <1>2 DEF IInv, OverInv
<1>6. ScopesInv'
  <2> SUFFICES ASSUME NEW i \in 1 .. Depth'
               PROVE  (UndoInv(scopes[i]) /\ EffectInv(scopes[i]))'
    BY DEF ScopesInv
  <2>1. /\ UndoInv(scopes[i]) /\ EffectInv(scopes[i])
        /\ scopes'[i] = scopes[i] /\ effects' = effects
    BY <1>1, <1>2 DEF IInv, ScopesInv
  <2> QED BY <2>1 DEF UndoInv, EffectInv, IsUndoer
<1>7. PICK r : r = [steps |-> s.steps, committed |-> s.committed, called |-> s.called, on |-> on]
  OBVIOUS
<1>8. left' = left \cup {r} /\ r.steps = s.steps /\ r.committed = s.committed
  BY <1>1, <1>3, <1>7
<1>9. StepsInv'
  <2>1. \A i \in 1 .. Depth' : scopes'[i].steps \cap r.steps = {}
    BY <1>2, <1>3, <1>8 DEF IInv, StepsInv
  <2>2. \A n \in r.steps : n < next
    BY <1>3, <1>8 DEF IInv, StepsInv
  <2> QED BY <1>1, <1>2, <1>8, <2>1, <2>2 DEF IInv, StepsInv
<1>10. AllOrNothing'
  <2>1. IF r.committed THEN r.steps \subseteq effects ELSE r.steps \cap effects = {}
    <3>1. CASE s.committed
      BY <1>4, <1>8, <3>1 DEF EffectInv
    <3>2. CASE ~s.committed
      <4>1. Len(s.undoers) = 0
        BY <1>1, <1>3, <3>2
      <4>2. \A n \in Steps : ~IsUndoer(s, n)
        BY <4>1 DEF IsUndoer
      <4>3. s.steps \subseteq Steps
        BY DEF Scopes
      <4> QED BY <1>4, <1>8, <3>2, <4>2, <4>3 DEF UndoInv
    <3> QED BY <3>1, <3>2
  <2> QED BY <1>1, <1>8, <2>1 DEF IInv, AllOrNothing
<1> QED BY <1>5, <1>6, <1>9, <1>10 DEF Rest

(* The remaining steps leave the scopes alone.                             *)
LEMMA ModeStep ==
  ASSUME IInv, Exit \/ Forced \/ UndoThrows \/ Catch \/ UNCHANGED vars
  PROVE  Rest'
<1>1. UNCHANGED <<scopes, next, effects, left>>
  BY DEF Exit, Forced, UndoThrows, Catch, vars
<1>2. OverInv'
  <2>1. CASE Catch
    <3>1. \A i \in 1 .. Depth : ~scopes[i].over
      <4> SUFFICES ASSUME NEW i \in 1 .. Depth, scopes[i].over PROVE FALSE
        OBVIOUS
      <4>1. i = Depth
        BY DEF IInv, OverInv
      <4>2. scopes # << >> /\ Inner = scopes[Depth]
        BY <4>1 DEF Inner, Last, Depth
      <4> QED BY <2>1, <4>1, <4>2 DEF Catch
    <3> QED BY <1>1, <3>1 DEF OverInv, Depth
  <2>2. CASE ~Catch
    BY <1>1, <2>2 DEF Exit, Forced, UndoThrows, vars, IInv, OverInv, Depth
  <2> QED BY <2>1, <2>2
<1> QED
  BY <1>1, <1>2 DEF Rest, IInv, ScopesInv, UndoInv, EffectInv, IsUndoer, StepsInv, AllOrNothing, Depth

-----------------------------------------------------------------------------
(* Theorems.                                                               *)

(* In every state the undo functions of a scope are those of its steps in  *)
(* effect, whatever was committed, thrown or destroyed before.             *)
THEOREM Invariant == Spec => []IInv
<1>1. Init => IInv
  <2> SUFFICES ASSUME Init PROVE IInv
    OBVIOUS
  <2>1. TypeOK
    BY UnwindingAssumption DEF Init, TypeOK, Threads
  <2>2. Len(scopes) = 0
    BY DEF Init
  <2> QED BY <2>1, <2>2 DEF Init, IInv, OverInv, ScopesInv, StepsInv, AllOrNothing, Depth
<1>2. IInv /\ [Next]_vars => IInv'
  <2> SUFFICES ASSUME IInv, [Next]_vars PROVE IInv'
    OBVIOUS
  <2>1. TypeOK'
    BY TypeStep DEF IInv
  <2>2. Rest'
    BY EnterStep, StepStep, CommitStep, CleanUpStep, UndoStep, LeaveStep, ModeStep DEF Next
  <2> QED BY <2>1, <2>2 DEF IInv, Rest
<1> QED BY <1>1, <1>2, PTL DEF Spec

(* A scope that was left has all its steps in effect if it committed, and  *)
(* none if it did not, for ever.                                           *)
THEOREM AllOrNothingCorrect == Spec => []AllOrNothing
<1>1. IInv => AllOrNothing
  BY DEF IInv
<1> QED BY <1>1, Invariant, PTL

(* ~Transaction takes steps back in the reverse order.                     *)
THEOREM UndoneBackwardsCorrect == Spec => UndoneBackwards
<1>1. IInv /\ [Next]_vars =>
        [\A n \in effects \ effects' : \A k \in Inner.steps \cap effects : k <= n]_vars
  <2> SUFFICES ASSUME IInv, Next
               PROVE  \A n \in effects \ effects' : \A k \in Inner.steps \cap effects : k <= n
    BY DEF vars
  <2>1. CASE Undo
    <3>1. effects \ effects' \subseteq {Head(Inner.undoers)}
      BY <2>1 DEF Undo
    <3> QED BY <2>1, <3>1, UndoLatest
  <2>2. CASE ~Undo
    BY <2>2 DEF Next, Enter, Step, Commit, Exit, Forced, CleanUp, UndoThrows, Leave, Catch
  <2> QED BY <2>1, <2>2
<1> QED BY <1>1, Invariant, PTL DEF Spec, UndoneBackwards

=============================================================================
