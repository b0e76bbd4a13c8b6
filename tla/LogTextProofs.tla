---------------------------- MODULE LogTextProofs ----------------------------
(* Theorems about LogText, for texts of any length and any times: the      *)
(* stamps, and that the events can be read back.                           *)
EXTENDS LogReading, Quotients

-----------------------------------------------------------------------------
(* The invariant.                                                          *)

(* All that was written.                                                   *)
Output == disk \o buffer

(* An event is written by the process that has the file open, as the last. *)
WriterInv ==
  IF ch = 0 THEN buffer = << >>
  ELSE open /\ events # << >> /\ text = Last(events) /\ Len(events) \notin whole

(* Between events the lines of the file are ended.  While one is written   *)
(* its line is not, though it may have begun to be in the file.            *)
LinesInv ==
  /\ Lined(Output)
  /\ ch = 0 => disk = << >> \/ disk[Len(disk)] = "eol"
  /\ ch # 0 => Output # << >> /\ Output[Len(Output)] # "eol"
  /\ \A n \in DOMAIN buffer : buffer[n] # "eol"

(* The event of each header: in order, and with a header in the file for   *)
(* each event Submit returned from.                                        *)
Placed(event) ==
  /\ event \in [Headers(Output) -> DOMAIN events]
  /\ \A i, j \in Headers(Output) : i < j => event[i] < event[j]
  /\ \A e \in whole : \E i \in Headers(disk) : event[i] = e

(* What the file shows of each event.                                      *)
ReadSoFar(event) ==
  \A i \in Headers(disk) :
    IF event[i] \in whole THEN Read(disk, i) = Legible(events[event[i]])
    ELSE IsPrefix(Read(disk, i), Legible(events[event[i]]))

(* The last header is of the event being written, and what follows shows   *)
(* of its text what the loop of WriteMessage is past.                      *)
BeingWritten(event) ==
  ch # 0 =>
    \E l \in Headers(Output) :
      /\ \A i \in Headers(Output) : i <= l
      /\ event[l] = Len(events)
      /\ Without(SubSeq(Output, l + 1, Len(Output)), "indent") = Shown(text, ch - 1)

Told(event) == Placed(event) /\ ReadSoFar(event) /\ BeingWritten(event)

EventInv == \E event \in [Headers(Output) -> DOMAIN events] : Told(event)

(* Each header has its stamp.                                              *)
StampsInv == Len(stamps) = Len(times)

WriteInv == TypeOK /\ WriterInv /\ StampsInv /\ StampIsExact
FileInv  == LinesInv /\ EventInv

(* What a process leaves of a line is the reason that there is torn.       *)
IInv == WriteInv /\ (~torn => FileInv)

(* The invariant where nothing is torn.                                    *)
Sound == WriteInv /\ FileInv

-----------------------------------------------------------------------------
(* Types.                                                                  *)

LEMMA TextsAreSequences ==
  ASSUME NEW s \in Texts
  PROVE  s \in Seq(Chars) /\ Len(s) \in Nat /\ Len(s) <= MaxLength
<1>1. PICK n \in 0 .. MaxLength : s \in [1 .. n -> Chars]
  BY DEF Texts
<1>2. n \in Nat /\ n <= MaxLength
  BY <1>1, LogTextAssumption
<1> QED BY <1>1, <1>2

LEMMA EmptyText == << >> \in Texts /\ Len(<< >>) = 0
<1>1. << >> \in [1 .. 0 -> Chars] /\ 0 \in 0 .. MaxLength
  BY LogTextAssumption
<1> QED BY <1>1 DEF Texts

-----------------------------------------------------------------------------
(* The time stamp.                                                         *)

(* The second of a time is found whichever way to_time_t rounds.           *)
LEMMA SecondFound ==
  ASSUME NEW t \in Nat, NEW when \in ToTimeT(t)
  PROVE  WholeSecond(t, when) = t \div Second
<1>1. Second \in Nat /\ 0 < Second
  BY LogTextAssumption
<1>2. PICK q \in Nat, r \in Nat :
        q = t \div Second /\ r = t % Second /\ r < Second /\ t = q * Second + r
  BY <1>1, Division
<1>3. PICK e \in Nat : e = q * Second
  <2>1. q * Second \in Nat
    BY <1>1, Z3
  <2> QED BY <2>1
<1>4. (q + 1) * Second = q * Second + Second
  BY <1>1, Z3
<1>5. CASE when = q
  BY <1>1, <1>2, <1>3, <1>5 DEF WholeSecond
<1>6. CASE when = q + 1
  BY <1>1, <1>2, <1>3, <1>4, <1>6 DEF WholeSecond
<1>7. when = q \/ when = q + 1
  BY <1>1, <1>2, RoundedUp DEF ToTimeT
<1> QED BY <1>5, <1>6, <1>7

LEMMA StampShown ==
  ASSUME NEW t \in Nat, NEW when \in ToTimeT(t)
  PROVE  /\ Stamp(t, when) = <<t \div (Second * Minute), t % Second>>
         /\ Stamp(t, when) \in Nat \X (0 .. Second - 1)
<1>1. Second \in Nat /\ 0 < Second /\ Minute \in Nat /\ 0 < Minute
  BY LogTextAssumption
<1>2. PICK q \in Nat, r \in Nat :
        q = t \div Second /\ r = t % Second /\ r < Second /\ t = q * Second + r
  BY <1>1, Division
<1>3. WholeSecond(t, when) = q
  BY <1>2, SecondFound
<1>4. t - q * Second = r
  <2>1. PICK e \in Nat : e = q * Second
    <3>1. q * Second \in Nat
      BY <1>1, Z3
    <3> QED BY <3>1
  <2> QED BY <1>2, <2>1
<1>5. q \div Minute = t \div (Second * Minute)
  BY <1>1, <1>2, NestedQuotient
<1>6. q \div Minute \in Nat
  BY <1>1, Division
<1>7. Stamp(t, when) = <<q \div Minute, r>>
  BY <1>3, <1>4 DEF Stamp
<1>8. r \in 0 .. Second - 1
  BY <1>1, <1>2
<1> QED BY <1>2, <1>5, <1>6, <1>7, <1>8

-----------------------------------------------------------------------------
(* What a step writes.                                                     *)

LEMMA OutputFacts ==
  ASSUME TypeOK, LinesInv, WriterInv
  PROVE  /\ Output \in Seq(Tokens) /\ Lined(disk)
         /\ Headers(disk) \subseteq Headers(Output)
         /\ Headers(Output) \subseteq Headers(disk) \cup {Len(disk) + 1}
         /\ Headers(disk) \subseteq 1 .. Len(disk)
         /\ Headers(Output) \subseteq 1 .. Len(Output)
         /\ \A j \in 1 .. Len(disk) : Output[j] = disk[j]
         /\ Len(disk) <= Len(Output)
         /\ ch = 0 => Output = disk /\ (Len(Output) = 0 \/ Output[Len(Output)] = "eol")
         /\ ch # 0 => Len(Output) # 0 /\ Output[Len(Output)] # "eol"
<1>1. PICK d \in Seq(Tokens), b \in Seq(Tokens), n \in Nat, m \in Nat :
        d = disk /\ b = buffer /\ n = Len(d) /\ m = Len(b)
  <2>1. disk \in Seq(Tokens) /\ buffer \in Seq(Tokens) /\ Len(disk) \in Nat /\ Len(buffer) \in Nat
    BY DEF TypeOK
  <2> QED BY <2>1
<1>2. PICK o \in Seq(Tokens) : o = d \o b
  <2>1. d \o b \in Seq(Tokens)
    BY ConcatFacts
  <2> QED BY <2>1, Zenon
<1>3. /\ Len(o) = n + m /\ DOMAIN o = 1 .. n + m
      /\ \A i \in 1 .. n : o[i] = d[i]
      /\ \A i \in 1 .. m : o[n + i] = b[i]
  BY <1>1, <1>2, ConcatFacts
<1>4. Output = o
  BY <1>1, <1>2 DEF Output
<1>5. Lined(o) /\ (ch = 0 /\ d # << >> => d[n] = "eol") /\ \A i \in DOMAIN b : b[i] # "eol"
  BY <1>1, <1>4 DEF LinesInv
<1>6. Lined(d)
  BY <1>2, <1>5, LinedPart
<1>7. Headers(o) \subseteq Headers(d) \cup {n + 1} /\ Headers(d) \subseteq Headers(o)
  <2>1. \A i \in n + 1 .. n + m : o[i] # "eol"
    <3> SUFFICES ASSUME NEW i \in n + 1 .. n + m PROVE o[i] # "eol"
      OBVIOUS
    <3>1. i - n \in 1 .. m /\ i = n + (i - n) /\ DOMAIN b = 1 .. m
      BY <1>1
    <3> QED BY <1>3, <1>5, <3>1
  <2>2. n + m \in Nat /\ n <= n + m
    OBVIOUS
  <2> QED BY <1>1, <1>3, <1>5, <2>1, <2>2, HeadersOf
<1>8. Headers(d) \subseteq 1 .. n /\ Headers(o) \subseteq 1 .. n + m
  BY <1>1, <1>3 DEF Headers
<1>9. ch = 0 => o = d /\ (n = 0 \/ o[n] = "eol")
  <2> SUFFICES ASSUME ch = 0 PROVE o = d /\ (n = 0 \/ o[n] = "eol")
    OBVIOUS
  <2>1. b = << >>
    BY <1>1 DEF WriterInv
  <2>2. o = d
    BY <1>2, <2>1
  <2> QED BY <1>1, <1>5, <2>2
<1>10. ch # 0 => n + m # 0 /\ o[n + m] # "eol"
  BY <1>3, <1>4 DEF LinesInv
<1> QED BY <1>1, <1>3, <1>4, <1>6, <1>7, <1>8, <1>9, <1>10

(* What is put is put at the end of the output.                            *)
LEMMA PutFacts ==
  ASSUME TypeOK, NEW x \in Tokens, Put(x)
  PROVE  /\ disk' = disk /\ Output' = Append(Output, x)
         /\ disk' \in Seq(Tokens) /\ buffer' \in Seq(Tokens) /\ buffer' # << >>
<1>1. PICK d \in Seq(Tokens), b \in Seq(Tokens) : d = disk /\ b = buffer
  BY DEF TypeOK
<1>2. disk' = d /\ buffer' = Append(b, x)
  BY <1>1 DEF Put
<1>3. d \o Append(b, x) = Append(d \o b, x)
  OBVIOUS
<1>4. Append(b, x) \in Seq(Tokens) /\ Append(b, x) # << >>
  OBVIOUS
<1> QED BY <1>1, <1>2, <1>3, <1>4 DEF Output

LEMMA PutLines ==
  ASSUME Sound, NEW x \in Tokens, Put(x), ch' # 0, x # "eol", x \in {"header", "indent"} <=> ch = 0
  PROVE  LinesInv'
<1> USE DEF Sound, WriteInv, FileInv
<1>1. PICK o \in Seq(Tokens), n \in Nat : o = Output /\ n = Len(o) /\ Lined(o)
  <2>1. Output \in Seq(Tokens) /\ Len(Output) \in Nat /\ Lined(Output)
    BY OutputFacts DEF LinesInv
  <2> QED BY <2>1
<1>2. x \in {"header", "indent"} <=> n = 0 \/ o[n] = "eol"
  BY <1>1, OutputFacts
<1>3. Lined(Append(o, x))
  BY <1>1, <1>2, LinedAppend
<1>4. \A i \in DOMAIN buffer' : buffer'[i] # "eol"
  <2>1. PICK b \in Seq(Tokens), m \in Nat : b = buffer /\ m = Len(b)
    BY DEF TypeOK
  <2>2. buffer' = Append(b, x) /\ \A i \in 1 .. m : b[i] # "eol"
    BY <2>1 DEF Put, LinesInv
  <2> QED BY <2>1, <2>2, AppendFacts
<1>5. Output' = Append(o, x) /\ Append(o, x) # << >>
      /\ Append(o, x)[Len(Append(o, x))] # "eol"
  <2>1. Output' = Append(o, x)
    BY <1>1, PutFacts
  <2>2. Len(Append(o, x)) = n + 1 /\ Append(o, x)[n + 1] = x
    BY <1>1, AppendFacts
  <2> QED BY <2>1, <2>2
<1> QED BY <1>3, <1>4, <1>5 DEF LinesInv

(* When a line is ended all the output is in the file.                     *)
LEMMA EndLineFacts ==
  ASSUME Sound, ch # 0, NEW next \in {<< >>, <<"indent">>}, EndLine(next), ch' = 0 <=> next = << >>
  PROVE  /\ disk' = Append(Output, "eol") /\ buffer' = next
         /\ Output' = IF next = << >> THEN disk' ELSE Append(disk', "indent")
         /\ disk' \in Seq(Tokens) /\ buffer' \in Seq(Tokens)
         /\ LinesInv' /\ Lined(disk')
<1> USE DEF Sound, WriteInv, FileInv
<1>1. PICK o \in Seq(Tokens), n \in Nat : o = Output /\ n = Len(o) /\ Lined(o)
  <2>1. Output \in Seq(Tokens) /\ Len(Output) \in Nat /\ Lined(Output)
    BY OutputFacts DEF LinesInv
  <2> QED BY <2>1
<1>2. "eol" \in Tokens /\ "indent" \in Tokens /\ "eol" \notin {"header", "indent"}
  BY DEF Tokens
<1>3. PICK w \in Seq(Tokens) : w = Append(o, "eol")
  <2>1. Append(o, "eol") \in Seq(Tokens)
    BY <1>1, <1>2, AppendFacts
  <2> QED BY <2>1, Zenon
<1>4. Len(w) = n + 1 /\ w[n + 1] = "eol"
  BY <1>1, <1>2, <1>3, AppendFacts
<1>5. disk' = w /\ buffer' = next
  <2>1. disk' = o \o <<"eol">> /\ buffer' = next
    BY <1>1 DEF EndLine, Output
  <2>2. o \o <<"eol">> = Append(o, "eol")
    OBVIOUS
  <2> QED BY <1>3, <2>1, <2>2
<1>6. Lined(w)
  <2>1. n # 0 /\ o[n] # "eol"
    BY <1>1, OutputFacts
  <2>2. "eol" \in {"header", "indent"} <=> n = 0 \/ o[n] = "eol"
    BY <1>2, <2>1
  <2> QED BY <1>1, <1>2, <1>3, <2>2, LinedAppend
<1>7. Lined(Append(w, "indent"))
  <2>1. n + 1 \in Nat /\ ("indent" \in {"header", "indent"} <=> n + 1 = 0 \/ w[n + 1] = "eol")
    BY <1>4
  <2> QED BY <1>2, <1>4, <1>6, <2>1, LinedAppend
<1>8. /\ Output' = IF next = << >> THEN w ELSE Append(w, "indent")
      /\ next \in Seq(Tokens) /\ \A i \in DOMAIN next : next[i] # "eol"
  <2>1. CASE next = << >>
    <3>1. w \o << >> = w
      OBVIOUS
    <3> QED BY <1>5, <2>1, <3>1 DEF Output
  <2>2. CASE next = <<"indent">>
    <3>1. w \o <<"indent">> = Append(w, "indent") /\ <<"indent">> # << >>
      OBVIOUS
    <3>2. <<"indent">> \in Seq(Tokens) /\ \A i \in DOMAIN <<"indent">> : <<"indent">>[i] # "eol"
      BY <1>2
    <3> QED BY <1>5, <2>2, <3>1, <3>2 DEF Output
  <2> QED BY <2>1, <2>2
<1>9. LinesInv'
  <2>1. Lined(Output')
    BY <1>6, <1>7, <1>8
  <2>2. disk'[Len(disk')] = "eol"
    BY <1>4, <1>5
  <2>3. ASSUME ch' # 0 PROVE Output' # << >> /\ Output'[Len(Output')] # "eol"
    <3>1. Output' = Append(w, "indent")
      BY <1>8, <2>3
    <3>2. Len(Append(w, "indent")) = n + 2 /\ Append(w, "indent")[n + 2] = "indent"
      <4>1. n + 1 \in Nat /\ (n + 1) + 1 = n + 2
        OBVIOUS
      <4> QED BY <1>2, <1>4, <4>1, AppendFacts
    <3> QED BY <3>1, <3>2
  <2> QED BY <1>5, <1>8, <2>1, <2>2, <2>3 DEF LinesInv
<1> QED BY <1>1, <1>3, <1>5, <1>6, <1>8, <1>9

(* And the last event is shown as far as it is written.                    *)
LEMMA EndLineReads ==
  ASSUME Sound, ch # 0, NEW next \in {<< >>, <<"indent">>}, EndLine(next), ch' = 0 <=> next = << >>,
         NEW l \in Headers(Output), \A i \in Headers(Output) : i <= l
  PROVE  /\ Headers(disk') = Headers(Output) /\ Headers(Output') = Headers(Output)
         /\ Read(disk', l) = Without(SubSeq(Output, l + 1, Len(Output)), "indent")
         /\ \A i \in Headers(Output) :
              i # l => i \in Headers(disk) /\ Read(disk', i) = Read(disk, i)
<1> USE DEF Sound, WriteInv, FileInv
<1>1. PICK o \in Seq(Tokens), n \in Nat : o = Output /\ n = Len(o)
  <2>1. Output \in Seq(Tokens) /\ Len(Output) \in Nat
    BY OutputFacts
  <2> QED BY <2>1
<1>2. "eol" \in Tokens /\ "indent" \in Tokens
  BY DEF Tokens
<1>3. PICK w \in Seq(Tokens) :
        /\ w = disk' /\ w = Append(o, "eol") /\ Lined(w)
        /\ Output' = IF next = << >> THEN w ELSE Append(w, "indent")
  BY <1>1, EndLineFacts
<1>4. Len(w) = n + 1 /\ \A j \in 1 .. n : w[j] = o[j]
  BY <1>1, <1>2, <1>3, AppendFacts
<1>5. Headers(w) = Headers(o)
  <2>1. Headers(Append(o, "eol")) = Headers(o) \cup (IF "eol" = "header" THEN {n + 1} ELSE {})
    BY <1>1, <1>2, HeadersAppend, Zenon
  <2> QED BY <1>3, <2>1
<1>6. Headers(Append(w, "indent")) = Headers(w)
  <2>1. n + 1 \in Nat
    OBVIOUS
  <2> QED BY <1>2, <1>4, <2>1, HeadersAppend
<1>7. Read(w, l) = Without(SubSeq(o, l + 1, n), "indent")
  BY <1>1, <1>3, ReadLast
<1>8. ASSUME NEW i \in Headers(Output), i # l
      PROVE  i \in Headers(disk) /\ Read(disk', i) = Read(disk, i)
  <2>1. PICK d \in Seq(Tokens), k \in Nat : d = disk /\ k = Len(d)
    BY DEF TypeOK
  <2>2. /\ Lined(d) /\ Headers(d) \subseteq 1 .. k /\ Headers(o) \subseteq 1 .. n
        /\ Headers(o) \subseteq Headers(d) \cup {k + 1}
        /\ \A j \in 1 .. k : o[j] = d[j]
        /\ k <= n
    BY <1>1, <2>1, OutputFacts
  <2>3. i < l /\ i \in Headers(o) /\ l \in Headers(o)
    BY <1>1, <1>8, <2>2
  <2>4. i \in Headers(d) /\ i \in 1 .. k /\ (l \in Headers(d) \/ l = k + 1)
    BY <2>2, <2>3
  <2>5. PICK p \in Nat : p = Len(w) /\ k < p /\ l \in Headers(w)
    <3>1. Len(w) = n + 1 /\ n + 1 \in Nat /\ k < n + 1 /\ l \in Headers(w)
      BY <1>4, <1>5, <2>2, <2>3
    <3> QED BY <3>1
  <2>6. \A j \in 1 .. k : w[j] = d[j]
    BY <1>4, <2>2
  <2>7. Read(w, i) = Read(d, i)
    <3>1. d \in Seq(Tokens) /\ w \in Seq(Tokens) /\ k \in Nat /\ p \in Nat
      OBVIOUS
    <3>2. Lined(d) /\ Lined(w) /\ k = Len(d) /\ p = Len(w) /\ k < p
      BY <1>3, <2>1, <2>2, <2>5
    <3>3. i \in 1 .. k /\ l \in Headers(w) /\ i < l /\ (l \in Headers(d) \/ l = k + 1)
      BY <2>3, <2>4, <2>5
    <3> QED BY <2>6, <3>1, <3>2, <3>3, ReadKept, ZenonT(40)
  <2> QED BY <1>3, <2>1, <2>4, <2>7
<1> QED BY <1>1, <1>3, <1>5, <1>6, <1>7, <1>8

-----------------------------------------------------------------------------
(* What a step does to the events that are read.                           *)

(* In the loop, the text is at a character of it.                          *)
LEMMA LoopFacts ==
  ASSUME TypeOK, SkipReturn \/ LastNewLine \/ NewLine \/ Escape \/ Copy
  PROVE  /\ text \in Seq(Chars) /\ ch \in 1 .. Len(text) /\ ch # 0
         /\ ch' = ch + 1 /\ ch' # 0 /\ ch' - 1 = ch
         /\ UNCHANGED <<open, text, events, whole, times, stamps, torn>>
<1>1. /\ ch \in 1 .. Len(text) /\ ch' = ch + 1
      /\ UNCHANGED <<open, text, events, whole, times, stamps, torn>>
  BY DEF SkipReturn, LastNewLine, NewLine, Escape, Copy, At, history
<1>2. text \in Seq(Chars) /\ Len(text) \in Nat
  BY TextsAreSequences DEF TypeOK
<1>3. ch # 0 /\ ch' # 0 /\ ch' - 1 = ch
  BY <1>1, <1>2
<1> QED BY <1>1, <1>2, <1>3

(* A character that is skipped.                                            *)
LEMMA SkipEvents ==
  ASSUME Sound, SkipReturn \/ LastNewLine
  PROVE  EventInv'
<1>1. PICK event : Told(event)
  BY DEF Sound, WriteInv, FileInv, EventInv
<1>2. disk' = disk /\ Output' = Output
  BY DEF SkipReturn, LastNewLine, output, Output
<1>3. /\ text \in Seq(Chars) /\ ch \in 1 .. Len(text) /\ ch # 0 /\ ch' - 1 = ch
      /\ text' = text /\ events' = events /\ whole' = whole
  BY LoopFacts DEF Sound, WriteInv
<1>4. Placed(event)' /\ ReadSoFar(event)'
  BY <1>1, <1>2, <1>3 DEF Told, Placed, ReadSoFar
<1>5. Shown(text, ch) = Shown(text, ch - 1)
  <2>1. text[ch] = "cr" \/ (ch = Len(text) /\ text[ch] = "lf")
    BY DEF SkipReturn, LastNewLine, At
  <2>2. Len(text) \in Nat
    BY <1>3
  <2> QED BY <1>3, <2>1, <2>2, ShownNext
<1>6. BeingWritten(event)'
  BY <1>1, <1>2, <1>3, <1>5 DEF Told, BeingWritten
<1> QED BY <1>4, <1>6 DEF EventInv, Told, Placed

(* What is put after the last header is shown after it.                    *)
LEMMA ShownAppend ==
  ASSUME NEW o \in Seq(Tokens), NEW n \in Nat, n = Len(o), NEW l \in 1 .. n,
         NEW x \in Tokens, x # "indent"
  PROVE  Without(SubSeq(Append(o, x), l + 1, n + 1), "indent")
           = Append(Without(SubSeq(o, l + 1, n), "indent"), x)
<1>1. SubSeq(Append(o, x), l + 1, n + 1) = Append(SubSeq(o, l + 1, n), x)
  BY PartAppend
<1>2. PICK u \in Seq(Tokens) : u = SubSeq(o, l + 1, n)
  <2>1. SubSeq(o, l + 1, n) \in Seq(Tokens)
    OBVIOUS
  <2> QED BY <2>1
<1>3. Without(Append(u, x), "indent") = Append(Without(u, "indent"), x)
  BY WithoutAppend
<1> QED BY <1>1, <1>2, <1>3

(* The blanks of a line are not shown.                                     *)
LEMMA IndentHidden ==
  ASSUME NEW o \in Seq(Tokens), NEW n \in Nat, n = Len(o), NEW l \in 1 .. n
  PROVE  Without(SubSeq(Append(o, "indent"), l + 1, n + 1), "indent")
           = Without(SubSeq(o, l + 1, n), "indent")
<1>1. SubSeq(Append(o, "indent"), l + 1, n + 1) = Append(SubSeq(o, l + 1, n), "indent")
  <2>1. "indent" \in Tokens
    BY DEF Tokens
  <2> QED BY <2>1, PartAppend
<1>2. PICK u \in Seq(Tokens) : u = SubSeq(o, l + 1, n)
  <2>1. SubSeq(o, l + 1, n) \in Seq(Tokens)
    OBVIOUS
  <2> QED BY <2>1
<1>3. Without(Append(u, "indent"), "indent") = Without(u, "indent")
  <2>1. "indent" \in Tokens
    BY DEF Tokens
  <2> QED BY <2>1, WithoutAppend
<1> QED BY <1>1, <1>2, <1>3

(* A character that is copied or escaped.                                  *)
LEMMA PutEvents ==
  ASSUME Sound, Escape \/ Copy
  PROVE  EventInv'
<1>1. PICK event : Told(event)
  BY DEF Sound, WriteInv, FileInv, EventInv
<1>2. PICK x \in {"escaped", "other"} : Put(x) /\ x = Glyph(text[ch]) /\ text[ch] \notin {"cr", "lf"}
  BY DEF Escape, Copy, At, Glyph
<1>3. /\ text \in Seq(Chars) /\ ch \in 1 .. Len(text) /\ ch # 0 /\ ch' - 1 = ch
      /\ text' = text /\ events' = events /\ whole' = whole
  BY LoopFacts DEF Sound, WriteInv
<1>4. x \in Tokens /\ x # "indent" /\ x # "header"
  BY DEF Tokens
<1>5. PICK o \in Seq(Tokens), n \in Nat :
        o = Output /\ n = Len(o) /\ Headers(o) \subseteq 1 .. n
  <2>1. Output \in Seq(Tokens) /\ Len(Output) \in Nat
        /\ Headers(Output) \subseteq 1 .. Len(Output)
    BY OutputFacts DEF Sound, WriteInv, FileInv
  <2> QED BY <2>1
<1>6. disk' = disk /\ Output' = Append(o, x)
  BY <1>2, <1>4, <1>5, PutFacts DEF Sound, WriteInv, FileInv
<1>7. Headers(Output') = Headers(Output) /\ Len(Output') = n + 1
  <2>1. Headers(Append(o, x)) = Headers(o) \cup (IF x = "header" THEN {n + 1} ELSE {})
    BY <1>4, <1>5, HeadersAppend
  <2>2. Len(Append(o, x)) = n + 1
    BY <1>4, <1>5, AppendFacts
  <2> QED BY <1>4, <1>5, <1>6, <2>1, <2>2
<1>8. Placed(event)' /\ ReadSoFar(event)'
  BY <1>1, <1>3, <1>6, <1>7 DEF Told, Placed, ReadSoFar
<1>9. Shown(text, ch) = Append(Shown(text, ch - 1), x)
  <2>1. Len(text) \in Nat
    BY <1>3
  <2> QED BY <1>2, <1>3, <2>1, ShownNext
<1>10. BeingWritten(event)'
  <2>1. PICK l \in Headers(Output) :
          /\ \A i \in Headers(Output) : i <= l
          /\ event[l] = Len(events)
          /\ Without(SubSeq(o, l + 1, n), "indent") = Shown(text, ch - 1)
    BY <1>1, <1>3, <1>5 DEF Told, BeingWritten
  <2>2. Without(SubSeq(Append(o, x), l + 1, n + 1), "indent")
          = Append(Without(SubSeq(o, l + 1, n), "indent"), x)
    <3>1. l \in 1 .. n
      BY <1>5
    <3> QED BY <1>4, <1>5, <3>1, ShownAppend
  <2>3. Without(SubSeq(Output', l + 1, Len(Output')), "indent") = Shown(text, ch)
    BY <1>6, <1>7, <1>9, <2>1, <2>2
  <2> QED BY <1>3, <1>7, <2>1, <2>3 DEF BeingWritten
<1> QED BY <1>8, <1>10 DEF EventInv, Told, Placed

(* A header.                                                               *)
LEMMA SubmitEvents ==
  ASSUME Sound, NEW s \in Texts, NEW t \in Times, Submit(s, t)
  PROVE  EventInv'
<1>1. PICK event : Told(event)
  BY DEF Sound, WriteInv, FileInv, EventInv
<1>2. Put("header") /\ "header" \in Tokens /\ ch = 0
  BY DEF Submit, Tokens
<1>3. PICK o \in Seq(Tokens), n \in Nat :
        o = Output /\ n = Len(o) /\ Headers(o) \subseteq 1 .. n
        /\ Headers(disk) \subseteq Headers(o)
  <2>1. Output \in Seq(Tokens) /\ Len(Output) \in Nat
        /\ Headers(Output) \subseteq 1 .. Len(Output)
        /\ Headers(disk) \subseteq Headers(Output)
    BY OutputFacts DEF Sound, WriteInv, FileInv
  <2> QED BY <2>1
<1>4. disk' = disk /\ Output' = Append(o, "header")
  BY <1>2, <1>3, PutFacts DEF Sound, WriteInv, FileInv
<1>5. Headers(Output') = Headers(o) \cup {n + 1} /\ Len(Output') = n + 1
  <2>1. Headers(Append(o, "header")) = Headers(o) \cup (IF "header" = "header" THEN {n + 1} ELSE {})
    BY <1>2, <1>3, HeadersAppend, Zenon
  <2>2. Len(Append(o, "header")) = n + 1
    BY <1>2, <1>3, AppendFacts
  <2> QED BY <1>4, <2>1, <2>2
<1>6. PICK k \in Nat :
        /\ k = Len(events) /\ DOMAIN events = 1 .. k
        /\ Len(events') = k + 1 /\ DOMAIN events' = 1 .. k + 1
        /\ \A i \in 1 .. k : events'[i] = events[i]
  <2>1. events \in Seq(Texts) /\ events' = Append(events, s) /\ Len(events) \in Nat
    BY DEF Sound, WriteInv, FileInv, TypeOK, Submit
  <2> QED BY <2>1, AppendFacts
<1>7. text' = s /\ ch' = 1 /\ whole' = whole
  BY DEF Submit
<1>8. /\ event \in [Headers(o) -> 1 .. k]
      /\ \A i, j \in Headers(o) : i < j => event[i] < event[j]
      /\ \A e \in whole : \E i \in Headers(disk) : event[i] = e
  BY <1>1, <1>3, <1>6 DEF Told, Placed
<1>9. PICK next : next = [i \in Headers(o) \cup {n + 1} |-> IF i = n + 1 THEN k + 1 ELSE event[i]]
  OBVIOUS
<1>10. next[n + 1] = k + 1 /\ \A i \in Headers(o) : next[i] = event[i] /\ i # n + 1 /\ i < n + 1
  BY <1>3, <1>9
<1>11. Placed(next)'
  <2>1. next \in [Headers(Output') -> DOMAIN events']
    <3>1. \A i \in Headers(o) : event[i] \in 1 .. k + 1
      BY <1>8
    <3>2. next \in [Headers(o) \cup {n + 1} -> 1 .. k + 1]
      BY <1>9, <3>1
    <3> QED BY <1>5, <1>6, <3>2
  <2>2. \A i, j \in Headers(o) \cup {n + 1} : i < j => next[i] < next[j]
    <3> SUFFICES ASSUME NEW i \in Headers(o) \cup {n + 1}, NEW j \in Headers(o) \cup {n + 1}, i < j
                 PROVE  next[i] < next[j]
      OBVIOUS
    <3>1. i \in Headers(o)
      BY <1>3
    <3>2. next[i] = event[i] /\ event[i] \in 1 .. k
      BY <1>8, <1>10, <3>1
    <3>3. CASE j = n + 1
      BY <1>10, <3>2, <3>3
    <3>4. CASE j \in Headers(o)
      BY <1>8, <1>10, <3>1, <3>4
    <3> QED BY <3>3, <3>4
  <2>3. \A e \in whole : \E i \in Headers(disk) : next[i] = e
    BY <1>3, <1>8, <1>10
  <2> QED BY <1>4, <1>5, <1>7, <2>1, <2>2, <2>3 DEF Placed
<1>12. ReadSoFar(next)'
  <2>1. \A i \in Headers(disk) : next[i] = event[i] /\ events'[event[i]] = events[event[i]]
    BY <1>3, <1>6, <1>8, <1>10
  <2> QED BY <1>1, <1>4, <1>7, <2>1 DEF Told, ReadSoFar
<1>13. BeingWritten(next)'
  <2>1. n + 1 \in Headers(Output') /\ \A i \in Headers(Output') : i <= n + 1
    BY <1>3, <1>5
  <2>2. next[n + 1] = Len(events')
    BY <1>6, <1>10
  <2>3. Without(SubSeq(Output', (n + 1) + 1, Len(Output')), "indent") = Shown(text', ch' - 1)
    <3>1. SubSeq(Output', (n + 1) + 1, Len(Output')) = << >>
      BY <1>4, <1>5
    <3>2. Shown(s, 0) = << >>
      BY TextsAreSequences, ShownNone
    <3>3. ch' - 1 = 0
      BY <1>7
    <3> QED BY <1>7, <3>1, <3>2, <3>3, WithoutEmpty
  <2> QED BY <2>1, <2>2, <2>3 DEF BeingWritten
<1> QED BY <1>11, <1>12, <1>13 DEF EventInv, Told, Placed

(* The event that is written is the last one.                              *)
LEMMA WrittenFacts ==
  ASSUME Sound, ch # 0, NEW event, Told(event)
  PROVE  \E l \in Headers(Output) :
           /\ \A i \in Headers(Output) : i <= l
           /\ \A i \in Headers(Output) : i # l => i < l /\ event[i] < event[l]
           /\ event[l] \notin whole /\ event[l] = Len(events) /\ events[event[l]] = text
           /\ text \in Seq(Chars)
           /\ Without(SubSeq(Output, l + 1, Len(Output)), "indent") = Shown(text, ch - 1)
<1>1. PICK l \in Headers(Output) :
        /\ \A i \in Headers(Output) : i <= l
        /\ event[l] = Len(events)
        /\ Without(SubSeq(Output, l + 1, Len(Output)), "indent") = Shown(text, ch - 1)
  BY DEF Told, BeingWritten
<1>2. \A i \in Headers(Output) : i # l => i < l /\ event[i] < event[l]
  <2>1. Headers(Output) \subseteq Nat
    <3>1. Headers(Output) \subseteq 1 .. Len(Output)
      BY OutputFacts DEF Sound, WriteInv, FileInv
    <3> QED BY <3>1
  <2>2. \A i \in Headers(Output) : i # l => i < l
    BY <1>1, <2>1
  <2> QED BY <2>2 DEF Told, Placed
<1>3. Len(events) \notin whole /\ events[Len(events)] = text
  BY DEF Sound, WriteInv, FileInv, WriterInv, Last
<1>4. text \in Seq(Chars)
  BY TextsAreSequences DEF Sound, WriteInv, FileInv, TypeOK
<1> QED BY <1>1, <1>2, <1>3, <1>4

(* A line that goes on.                                                    *)
LEMMA NewLineEvents ==
  ASSUME Sound, NewLine
  PROVE  EventInv'
<1>1. PICK event : Told(event)
  BY DEF Sound, WriteInv, FileInv, EventInv
<1>2. /\ text \in Seq(Chars) /\ ch \in 1 .. Len(text) /\ ch # 0 /\ ch' - 1 = ch
      /\ text' = text /\ events' = events /\ whole' = whole
  BY LoopFacts DEF Sound, WriteInv
<1>3. PICK l \in Headers(Output) :
        /\ \A i \in Headers(Output) : i <= l
        /\ event[l] \notin whole /\ event[l] = Len(events) /\ events[event[l]] = text
        /\ Without(SubSeq(Output, l + 1, Len(Output)), "indent") = Shown(text, ch - 1)
  BY <1>1, <1>2, WrittenFacts
<1>4. PICK next \in {<< >>, <<"indent">>} :
        next = <<"indent">> /\ next # << >> /\ EndLine(next) /\ (ch' = 0 <=> next = << >>)
  <2>1. <<"indent">> # << >> /\ EndLine(<<"indent">>)
    BY DEF NewLine
  <2>2. ch' # 0
    BY LoopFacts DEF Sound, WriteInv
  <2> QED BY <2>1, <2>2
<1>5. PICK o \in Seq(Tokens), n \in Nat :
        o = Output /\ n = Len(o) /\ Headers(o) \subseteq 1 .. n
        /\ Headers(disk) \subseteq Headers(o)
  <2>1. Output \in Seq(Tokens) /\ Len(Output) \in Nat
        /\ Headers(Output) \subseteq 1 .. Len(Output)
        /\ Headers(disk) \subseteq Headers(Output)
    BY OutputFacts DEF Sound, WriteInv, FileInv
  <2> QED BY <2>1
<1>6. disk' = Append(o, "eol") /\ Output' = Append(disk', "indent") /\ disk' \in Seq(Tokens)
  BY <1>2, <1>4, <1>5, EndLineFacts
<1>7. /\ Headers(disk') = Headers(Output) /\ Headers(Output') = Headers(Output)
      /\ Read(disk', l) = Without(SubSeq(Output, l + 1, Len(Output)), "indent")
      /\ \A i \in Headers(Output) :
           i # l => i \in Headers(disk) /\ Read(disk', i) = Read(disk, i)
  BY <1>2, <1>3, <1>4, EndLineReads
<1>8. Placed(event)'
  <2>1. \A e \in whole : \E i \in Headers(Output) : event[i] = e
    BY <1>1, <1>5 DEF Told, Placed
  <2> QED BY <1>1, <1>2, <1>7, <2>1 DEF Told, Placed
<1>9. ReadSoFar(event)'
  <2>1. \A i \in Headers(Output) :
          IF event[i] \in whole THEN Read(disk', i) = Legible(events[event[i]])
          ELSE IsPrefix(Read(disk', i), Legible(events[event[i]]))
    <3> SUFFICES ASSUME NEW i \in Headers(Output)
                 PROVE  IF event[i] \in whole THEN Read(disk', i) = Legible(events[event[i]])
                        ELSE IsPrefix(Read(disk', i), Legible(events[event[i]]))
      OBVIOUS
    <3>1. CASE i = l
      <4>1. ch - 1 \in Nat
        BY <1>2
      <4>2. IsPrefix(Shown(text, ch - 1), Legible(text))
        BY <1>2, <4>1, ShownPrefix
      <4> QED BY <1>3, <1>7, <3>1, <4>2
    <3>2. CASE i # l
      <4>1. i \in Headers(disk) /\ Read(disk', i) = Read(disk, i)
        BY <1>7, <3>2
      <4> QED BY <1>1, <4>1 DEF Told, ReadSoFar
    <3> QED BY <3>1, <3>2
  <2> QED BY <1>2, <1>7, <2>1 DEF ReadSoFar
<1>10. BeingWritten(event)'
  <2>1. l \in 1 .. n /\ "eol" \in Tokens
    BY <1>5 DEF Tokens
  <2>2. PICK w \in Seq(Tokens), m \in Nat :
          w = disk' /\ m = n + 1 /\ Len(w) = m /\ l \in 1 .. m
    <3>1. Len(disk') = n + 1 /\ n + 1 \in Nat /\ l \in 1 .. n + 1
      BY <1>5, <1>6, <2>1, AppendFacts
    <3> QED BY <1>6, <3>1
  <2>3. Without(SubSeq(w, l + 1, m), "indent") = Append(Shown(text, ch - 1), "eol")
    <3>1. Without(SubSeq(Append(o, "eol"), l + 1, n + 1), "indent")
            = Append(Without(SubSeq(o, l + 1, n), "indent"), "eol")
      <4>1. "eol" # "indent"
        OBVIOUS
      <4> QED BY <1>5, <2>1, <4>1, ShownAppend
    <3> QED BY <1>3, <1>5, <1>6, <2>2, <3>1
  <2>4. Without(SubSeq(Append(w, "indent"), l + 1, m + 1), "indent")
          = Without(SubSeq(w, l + 1, m), "indent")
    BY <2>2, IndentHidden
  <2>5. Shown(text, ch) = Append(Shown(text, ch - 1), "eol")
    <3>1. text[ch] = "lf" /\ ch # Len(text) /\ Len(text) \in Nat
      BY <1>2 DEF NewLine, At
    <3>2. Glyph(text[ch]) = "eol"
      BY <3>1 DEF Glyph
    <3> QED BY <1>2, <3>1, <3>2, ShownNext
  <2>6. Len(Output') = m + 1
    <3>1. "indent" \in Tokens /\ Output' = Append(w, "indent")
      BY <1>6, <2>2 DEF Tokens
    <3> QED BY <2>2, <3>1, AppendFacts
  <2>7. Without(SubSeq(Output', l + 1, Len(Output')), "indent") = Shown(text, ch)
    BY <1>6, <2>2, <2>3, <2>4, <2>5, <2>6
  <2> QED BY <1>2, <1>3, <1>7, <2>7 DEF BeingWritten
<1> QED BY <1>8, <1>9, <1>10 DEF EventInv, Told, Placed

(* The end of an event.                                                    *)
LEMMA EndEventEvents ==
  ASSUME Sound, EndEvent
  PROVE  EventInv'
<1>1. PICK event : Told(event)
  BY DEF Sound, WriteInv, FileInv, EventInv
<1>2. /\ text \in Seq(Chars) /\ ch = Len(text) + 1 /\ ch # 0 /\ ch - 1 = Len(text)
      /\ ch' = 0 /\ events' = events /\ whole' = whole \cup {Len(events)}
  <2>1. text \in Seq(Chars) /\ Len(text) \in Nat
    BY TextsAreSequences DEF Sound, WriteInv, FileInv, TypeOK
  <2> QED BY <2>1 DEF EndEvent
<1>3. PICK l \in Headers(Output) :
        /\ \A i \in Headers(Output) : i <= l
        /\ \A i \in Headers(Output) : i # l => i < l /\ event[i] < event[l]
        /\ event[l] = Len(events) /\ events[event[l]] = text
        /\ Without(SubSeq(Output, l + 1, Len(Output)), "indent") = Shown(text, ch - 1)
  BY <1>1, <1>2, WrittenFacts
<1>4. PICK next \in {<< >>, <<"indent">>} : EndLine(next) /\ (ch' = 0 <=> next = << >>)
  <2>1. EndLine(<< >>) /\ ch' = 0
    BY DEF EndEvent
  <2> QED BY <2>1
<1>5. /\ Headers(disk') = Headers(Output) /\ Headers(Output') = Headers(Output)
      /\ Read(disk', l) = Without(SubSeq(Output, l + 1, Len(Output)), "indent")
      /\ \A i \in Headers(Output) :
           i # l => i \in Headers(disk) /\ Read(disk', i) = Read(disk, i)
  BY <1>2, <1>3, <1>4, EndLineReads
<1>6. Placed(event)'
  <2>1. Headers(disk) \subseteq Headers(Output)
    BY OutputFacts DEF Sound, WriteInv, FileInv
  <2>2. \A e \in whole \cup {Len(events)} : \E i \in Headers(Output) : event[i] = e
    BY <1>1, <1>3, <2>1 DEF Told, Placed
  <2> QED BY <1>1, <1>2, <1>5, <2>2 DEF Told, Placed
<1>7. ReadSoFar(event)'
  <2>1. \A i \in Headers(Output) :
          IF event[i] \in whole \cup {Len(events)}
          THEN Read(disk', i) = Legible(events[event[i]])
          ELSE IsPrefix(Read(disk', i), Legible(events[event[i]]))
    <3> SUFFICES ASSUME NEW i \in Headers(Output)
                 PROVE  IF event[i] \in whole \cup {Len(events)}
                        THEN Read(disk', i) = Legible(events[event[i]])
                        ELSE IsPrefix(Read(disk', i), Legible(events[event[i]]))
      OBVIOUS
    <3>1. CASE i = l
      <4>1. Shown(text, ch - 1) = Legible(text)
        BY <1>2, ShownAll
      <4> QED BY <1>3, <1>5, <3>1, <4>1
    <3>2. CASE i # l
      <4>1. i \in Headers(disk) /\ Read(disk', i) = Read(disk, i)
        BY <1>5, <3>2
      <4>2. event[i] # Len(events)
        <5>1. event[i] < event[l] /\ event[l] = Len(events)
          BY <1>3, <3>2
        <5>2. Len(events) \in Nat
          BY DEF Sound, WriteInv, FileInv, TypeOK
        <5> QED BY <5>1, <5>2
      <4> QED BY <1>1, <4>1, <4>2 DEF Told, ReadSoFar
    <3> QED BY <3>1, <3>2
  <2> QED BY <1>2, <1>5, <2>1 DEF ReadSoFar
<1>8. BeingWritten(event)'
  BY <1>2 DEF BeingWritten
<1> QED BY <1>6, <1>7, <1>8 DEF EventInv, Told, Placed

(* No event, and nothing written.                                          *)
Blank == disk = << >> /\ buffer = << >> /\ ch = 0 /\ whole = {}

LEMMA NoEvents == Blank => LinesInv /\ EventInv
<1> SUFFICES ASSUME Blank PROVE LinesInv /\ EventInv
  OBVIOUS
<1>1. Output = << >> /\ ch = 0 /\ whole = {} /\ disk = << >> /\ buffer = << >>
  BY DEF Output, Blank
<1>2. Headers(<< >>) = {} /\ Lined(<< >>)
  BY DEF Headers, Lined
<1>3. PICK event : event \in [{} -> DOMAIN events]
  <2>1. [i \in {} |-> 0] \in [{} -> DOMAIN events]
    OBVIOUS
  <2> QED BY <2>1
<1>4. Placed(event) /\ ReadSoFar(event) /\ BeingWritten(event)
  BY <1>1, <1>2, <1>3 DEF Placed, ReadSoFar, BeingWritten
<1>5. LinesInv
  BY <1>1, <1>2 DEF LinesInv
<1>6. EventInv
  BY <1>4 DEF EventInv, Told, Placed
<1> QED BY <1>5, <1>6

(* A part of a line comes into the file.                                   *)
LEMMA SpillEvents ==
  ASSUME Sound, Spill
  PROVE  LinesInv' /\ EventInv'
<1>1. PICK event : Told(event)
  BY DEF Sound, FileInv, EventInv
<1>2. /\ disk' = Output /\ buffer' = << >> /\ ch # 0 /\ ch' = ch
      /\ text' = text /\ events' = events /\ whole' = whole
  BY DEF Spill, Output, history
<1>3. PICK o \in Seq(Tokens), n \in Nat :
        o = Output /\ n = Len(o) /\ Lined(o) /\ Headers(o) \subseteq 1 .. n
        /\ Headers(disk) \subseteq Headers(o) /\ n # 0 /\ o[n] # "eol"
  <2>1. /\ Output \in Seq(Tokens) /\ Len(Output) \in Nat /\ Lined(Output)
        /\ Headers(Output) \subseteq 1 .. Len(Output)
        /\ Headers(disk) \subseteq Headers(Output)
        /\ Len(Output) # 0 /\ Output[Len(Output)] # "eol"
    BY <1>2, OutputFacts DEF Sound, WriteInv, FileInv, LinesInv
  <2> QED BY <2>1
<1>4. Output' = o
  <2>1. o \o << >> = o
    OBVIOUS
  <2> QED BY <1>2, <1>3, <2>1 DEF Output
<1>5. LinesInv'
  BY <1>2, <1>3, <1>4 DEF LinesInv
<1>6. PICK l \in Headers(Output) :
        /\ \A i \in Headers(Output) : i <= l
        /\ \A i \in Headers(Output) : i # l => i < l /\ event[i] < event[l]
        /\ event[l] \notin whole /\ event[l] = Len(events) /\ events[event[l]] = text
        /\ text \in Seq(Chars)
        /\ Without(SubSeq(Output, l + 1, Len(Output)), "indent") = Shown(text, ch - 1)
  BY <1>1, <1>2, WrittenFacts
<1>7. IsPrefix(Read(o, l), Legible(text))
  <2>1. Read(o, l) \in Seq(Tokens) /\ IsPrefix(Read(o, l), Shown(text, ch - 1))
    BY <1>3, <1>6, ReadUnended
  <2>2. ch - 1 \in Nat
    BY <1>2 DEF Sound, WriteInv, TypeOK
  <2>3. IsPrefix(Shown(text, ch - 1), Legible(text))
    BY <1>6, <2>2, ShownPrefix
  <2>4. PICK S : S = Tokens \cup Signs
    OBVIOUS
  <2>5. Read(o, l) \in Seq(S) /\ Shown(text, ch - 1) \in Seq(S) /\ Legible(text) \in Seq(S)
    <3>1. Shown(text, ch - 1) \in Seq(Signs) /\ Legible(text) \in Seq(Signs)
      BY <1>6, <2>2, ShownType
    <3> QED BY <2>1, <2>4, <3>1
  <2> QED BY <2>1, <2>3, <2>5, PrefixOfPrefix
<1>8. ASSUME NEW i \in Headers(o), i # l
      PROVE  i \in Headers(disk) /\ Read(o, i) = Read(disk, i)
  <2>1. PICK d \in Seq(Tokens), k \in Nat : d = disk /\ k = Len(d)
    BY DEF Sound, WriteInv, TypeOK
  <2>2. /\ Lined(d) /\ Headers(d) \subseteq 1 .. k
        /\ Headers(o) \subseteq Headers(d) \cup {k + 1}
        /\ \A j \in 1 .. k : o[j] = d[j]
    BY <1>3, <2>1, OutputFacts DEF Sound, WriteInv, FileInv
  <2>3. i < l /\ l \in Headers(o)
    BY <1>3, <1>6, <1>8
  <2>4. i \in Headers(d) /\ i \in 1 .. k /\ (l \in Headers(d) \/ l = k + 1)
    <3>1. l \in Headers(d) \/ l = k + 1
      BY <2>2, <2>3
    <3>2. l <= k + 1
      BY <2>2, <3>1
    <3>3. i # k + 1
      BY <1>3, <2>3, <3>2
    <3> QED BY <1>8, <2>2, <3>1, <3>3
  <2>5. k < n
    <3>1. PICK b \in Seq(Tokens) : b = buffer /\ b # << >>
      BY DEF Spill, Sound, WriteInv, TypeOK
    <3>2. o = d \o b /\ Len(b) \in Nat /\ Len(b) # 0
      BY <1>3, <2>1, <3>1 DEF Output
    <3>3. n = k + Len(b)
      BY <1>3, <2>1, <3>2, ConcatFacts
    <3> QED BY <3>2, <3>3
  <2>6. Read(o, i) = Read(d, i)
    <3>1. d \in Seq(Tokens) /\ o \in Seq(Tokens) /\ k \in Nat /\ n \in Nat
      OBVIOUS
    <3>2. Lined(d) /\ Lined(o) /\ k = Len(d) /\ n = Len(o) /\ k < n
      BY <1>3, <2>1, <2>2, <2>5
    <3>3. i \in 1 .. k /\ l \in Headers(o) /\ i < l /\ (l \in Headers(d) \/ l = k + 1)
      BY <2>3, <2>4
    <3>4. \A j \in 1 .. k : o[j] = d[j]
      BY <2>2
    <3> QED BY <3>1, <3>2, <3>3, <3>4, ReadKept, ZenonT(40)
  <2> QED BY <2>1, <2>4, <2>6
<1>9. Placed(event)'
  <2>1. \A e \in whole : \E i \in Headers(o) : event[i] = e
    BY <1>1, <1>3 DEF Told, Placed
  <2> QED BY <1>1, <1>2, <1>3, <1>4, <2>1 DEF Told, Placed
<1>10. ReadSoFar(event)'
  <2>1. \A i \in Headers(o) :
          IF event[i] \in whole THEN Read(o, i) = Legible(events[event[i]])
          ELSE IsPrefix(Read(o, i), Legible(events[event[i]]))
    BY <1>1, <1>3, <1>6, <1>7, <1>8 DEF Told, ReadSoFar
  <2> QED BY <1>2, <1>3, <2>1 DEF ReadSoFar
<1>11. BeingWritten(event)'
  BY <1>1, <1>2, <1>3, <1>4 DEF Told, BeingWritten
<1> QED BY <1>5, <1>9, <1>10, <1>11 DEF EventInv, Told, Placed

(* A file is opened for what it holds, or truncated.                       *)
LEMMA OpenEvents ==
  ASSUME IInv, Open, torn' = FALSE
  PROVE  LinesInv' /\ EventInv'
<1>1. ch = 0 /\ buffer = << >> /\ ch' = ch /\ buffer' = buffer
  BY DEF Open, IInv, WriteInv, WriterInv
<1>2. CASE Blank'
  <2>1. (Blank => LinesInv /\ EventInv)'
    BY NoEvents, PTL
  <2> QED BY <1>2, <2>1
<1>3. CASE UNCHANGED <<disk, history, torn>>
  <2>1. LinesInv /\ EventInv
    BY <1>3 DEF IInv, FileInv
  <2>2. PICK event : Told(event)
    BY <2>1 DEF EventInv
  <2>3. disk' = disk /\ Output' = Output /\ events' = events /\ whole' = whole
    BY <1>1, <1>3 DEF history, Output
  <2>4. Placed(event)' /\ ReadSoFar(event)' /\ BeingWritten(event)'
    BY <1>1, <2>2, <2>3 DEF Told, Placed, ReadSoFar, BeingWritten
  <2>5. LinesInv'
    BY <1>1, <2>1, <2>3 DEF LinesInv
  <2> QED BY <2>4, <2>5 DEF EventInv, Told, Placed
<1> QED BY <1>1, <1>2, <1>3 DEF Open, Blank

(* A process that stops may leave an event with nothing of it in the file. *)
LEMMA StopEvents ==
  ASSUME Sound, Stop, torn' = FALSE
  PROVE  LinesInv' /\ EventInv'
<1>1. PICK event : Told(event)
  BY DEF Sound, WriteInv, FileInv, EventInv
<1>2. disk' = disk /\ buffer' = << >> /\ ch' = 0 /\ events' = events /\ whole' = whole
  BY DEF Stop, history
<1>3. Output' = disk
  <2>1. disk \o << >> = disk
    BY DEF Sound, WriteInv, FileInv, TypeOK
  <2> QED BY <1>2, <2>1 DEF Output
<1>4. Lined(disk) /\ Headers(disk) \subseteq Headers(Output)
  BY OutputFacts DEF Sound, WriteInv, FileInv
<1>5. LinesInv'
  <2>1. disk = << >> \/ disk[Len(disk)] = "eol"
    BY DEF Stop, Unended, Last
  <2> QED BY <1>2, <1>3, <1>4, <2>1 DEF LinesInv
<1>6. PICK kept : kept = [i \in Headers(disk) |-> event[i]]
  OBVIOUS
<1>7. /\ event \in [Headers(Output) -> DOMAIN events]
      /\ \A i, j \in Headers(Output) : i < j => event[i] < event[j]
      /\ \A e \in whole : \E i \in Headers(disk) : event[i] = e
  BY <1>1 DEF Told, Placed
<1>8. Placed(kept)'
  <2>1. kept \in [Headers(disk) -> DOMAIN events]
    BY <1>4, <1>6, <1>7
  <2>2. \A i, j \in Headers(disk) : i < j => kept[i] < kept[j]
    BY <1>4, <1>6, <1>7
  <2>3. \A e \in whole : \E i \in Headers(disk) : kept[i] = e
    BY <1>6, <1>7
  <2> QED BY <1>2, <1>3, <2>1, <2>2, <2>3 DEF Placed
<1>9. ReadSoFar(kept)'
  BY <1>1, <1>2, <1>6 DEF Told, ReadSoFar
<1>10. BeingWritten(kept)'
  BY <1>2 DEF BeingWritten
<1> QED BY <1>5, <1>8, <1>9, <1>10 DEF EventInv, Told, Placed

(* The reader finds the events by the starts of lines.                     *)
LEMMA EventsAreRead ==
  ASSUME IInv
  PROVE  ReadsBack
<1> SUFFICES ASSUME torn = FALSE
             PROVE  ReadsBack
  BY DEF IInv, WriteInv, TypeOK, ReadsBack
<1>9. Sound
  BY DEF IInv, Sound
<1>1. PICK event : Told(event)
  BY <1>9 DEF Sound, FileInv, EventInv
<1>2. Starts(disk) = Headers(disk) /\ Headers(disk) \subseteq Headers(Output)
  <2>1. Lined(disk) /\ Headers(disk) \subseteq Headers(Output) /\ disk \in Seq(Tokens)
    BY <1>9, OutputFacts DEF Sound, WriteInv, FileInv, TypeOK
  <2> QED BY <2>1, StartsAreHeaders
<1>3. PICK kept : kept = [i \in Headers(disk) |-> event[i]]
  OBVIOUS
<1>4. /\ event \in [Headers(Output) -> DOMAIN events]
      /\ \A i, j \in Headers(Output) : i < j => event[i] < event[j]
      /\ \A e \in whole : \E i \in Headers(disk) : event[i] = e
  BY <1>1 DEF Told, Placed
<1>5. kept \in [Headers(disk) -> DOMAIN events]
  BY <1>2, <1>3, <1>4
<1>6. \A i, j \in Headers(disk) : i < j => kept[i] < kept[j]
  BY <1>2, <1>3, <1>4
<1>7. \A e \in whole : \E i \in Headers(disk) : kept[i] = e
  BY <1>3, <1>4
<1>8. \A i \in Headers(disk) :
        IF kept[i] \in whole THEN Read(disk, i) = Legible(events[kept[i]])
        ELSE IsPrefix(Read(disk, i), Legible(events[kept[i]]))
  BY <1>1, <1>3 DEF Told, ReadSoFar
<1> QED BY <1>2, <1>5, <1>6, <1>7, <1>8 DEF ReadsBack

-----------------------------------------------------------------------------
(* Steps.                                                                  *)

(* What is written are tokens.                                             *)
LEMMA EndLineTypes ==
  ASSUME TypeOK, NEW next \in {<< >>, <<"indent">>}, EndLine(next)
  PROVE  disk' \in Seq(Tokens) /\ buffer' \in Seq(Tokens)
<1>1. PICK d \in Seq(Tokens), b \in Seq(Tokens) : d = disk /\ b = buffer
  BY DEF TypeOK
<1>2. <<"eol">> \in Seq(Tokens) /\ <<"indent">> \in Seq(Tokens) /\ << >> \in Seq(Tokens)
  BY DEF Tokens
<1>3. d \o b \o <<"eol">> \in Seq(Tokens)
  BY <1>2
<1> QED BY <1>1, <1>2, <1>3 DEF EndLine


LEMMA SubmitStep ==
  ASSUME IInv, NEW s \in Texts, NEW t \in Times, Submit(s, t)
  PROVE  IInv'
<1> USE DEF IInv, WriteInv
<1>1. t \in Nat /\ MaxLength \in Nat /\ MaxEvents \in Nat
  BY LogTextAssumption
<1>2. PICK when \in ToTimeT(t) : stamps' = Append(stamps, Stamp(t, when))
  BY DEF Submit
<1>3. PICK st \in Nat \X (0 .. Second - 1) :
        st = Stamp(t, when) /\ st = <<t \div (Second * Minute), t % Second>>
  BY <1>1, StampShown
<1>4. /\ times \in Seq(Times) /\ stamps \in Seq(Nat \X (0 .. Second - 1))
      /\ times' = Append(times, t) /\ stamps' = Append(stamps, st)
      /\ events \in Seq(Texts) /\ events' = Append(events, s)
      /\ Len(times) < MaxEvents
  BY <1>2, <1>3 DEF Submit, TypeOK
<1>5. PICK n \in Nat : n = Len(times) /\ n = Len(stamps)
  BY <1>4 DEF StampsInv
<1>6. /\ times' \in Seq(Times) /\ Len(times') = n + 1 /\ n + 1 <= MaxEvents
      /\ stamps' \in Seq(Nat \X (0 .. Second - 1)) /\ Len(stamps') = n + 1
      /\ times'[n + 1] = t /\ stamps'[n + 1] = st
      /\ \A i \in 1 .. n : times'[i] = times[i] /\ stamps'[i] = stamps[i]
  <2>1. /\ times' \in Seq(Times) /\ Len(times') = n + 1 /\ times'[n + 1] = t
        /\ \A i \in 1 .. n : times'[i] = times[i]
    <3>1. times \in Seq(Times) /\ times' = Append(times, t) /\ n = Len(times)
      BY <1>4, <1>5
    <3> QED BY <3>1, AppendFacts
  <2>2. /\ stamps' \in Seq(Nat \X (0 .. Second - 1)) /\ Len(stamps') = n + 1
        /\ stamps'[n + 1] = st /\ \A i \in 1 .. n : stamps'[i] = stamps[i]
    <3>1. PICK S : S = Nat \X (0 .. Second - 1)
      OBVIOUS
    <3>2. stamps \in Seq(S) /\ st \in S /\ stamps' = Append(stamps, st) /\ n = Len(stamps)
      BY <1>3, <1>4, <1>5, <3>1
    <3>3. /\ stamps' \in Seq(S) /\ Len(stamps') = n + 1
          /\ stamps'[n + 1] = st /\ \A i \in 1 .. n : stamps'[i] = stamps[i]
      BY <3>2, AppendFacts
    <3> QED BY <3>1, <3>3
  <2> QED BY <1>1, <1>4, <1>5, <2>1, <2>2
<1>7. TypeOK'
  <2>1. disk' \in Seq(Tokens) /\ buffer' \in Seq(Tokens)
    <3>1. "header" \in Tokens /\ Put("header")
      BY DEF Tokens, Submit
    <3> QED BY <3>1, PutFacts
  <2>2. /\ events' \in Seq(Texts) /\ DOMAIN events \subseteq DOMAIN events'
    BY <1>4
  <2>3. whole' \subseteq DOMAIN events'
    BY <2>2 DEF Submit, TypeOK
  <2>4. open' \in BOOLEAN /\ text' \in Texts /\ ch' \in 0 .. Len(text') + 1 /\ torn' \in BOOLEAN
    <3>1. Len(s) \in Nat
      BY TextsAreSequences
    <3> QED BY <3>1 DEF Submit, TypeOK
  <2>5. Len(times') <= MaxEvents
    BY <1>6
  <2> QED BY <1>6, <2>1, <2>2, <2>3, <2>4, <2>5 DEF TypeOK
<1>8. WriterInv'
  <2>3. PICK k \in Nat : k = Len(events) /\ whole \subseteq 1 .. k
    <3>1. Len(events) \in Nat /\ DOMAIN events = 1 .. Len(events)
      BY <1>4
    <3>2. whole \subseteq DOMAIN events
      BY DEF TypeOK
    <3> QED BY <3>1, <3>2
  <2>4. Len(events') = k + 1 /\ events' # << >> /\ events'[k + 1] = s
    <3>1. Len(events') = k + 1 /\ events'[k + 1] = s
      BY <1>4, <2>3, AppendFacts
    <3> QED BY <3>1
  <2>5. Last(events') = s /\ Len(events') \notin whole
    BY <2>3, <2>4 DEF Last
  <2>6. open' /\ ch' = 1 /\ text' = s /\ whole' = whole
    BY DEF Submit
  <2> QED BY <2>4, <2>5, <2>6 DEF WriterInv
<1>9. StampsInv'
  BY <1>6 DEF StampsInv
<1>10. StampIsExact'
  <2>1. \A i \in 1 .. n : stamps[i] = <<times[i] \div (Second * Minute), times[i] % Second>>
    <3>1. DOMAIN times = 1 .. n
      <4>1. times \in Seq(Times) /\ n = Len(times)
        BY <1>4, <1>5
      <4> QED BY <4>1
    <3> QED BY <3>1 DEF StampIsExact
  <2>2. \A i \in 1 .. n + 1 :
          stamps'[i] = <<times'[i] \div (Second * Minute), times'[i] % Second>>
    <3> SUFFICES ASSUME NEW i \in 1 .. n + 1
                 PROVE  stamps'[i] = <<times'[i] \div (Second * Minute), times'[i] % Second>>
      OBVIOUS
    <3>1. CASE i = n + 1
      BY <1>3, <1>6, <3>1
    <3>2. CASE i \in 1 .. n
      <4>1. stamps[i] = <<times[i] \div (Second * Minute), times[i] % Second>>
        BY <2>1, <3>2
      <4>2. stamps'[i] = stamps[i] /\ times'[i] = times[i]
        BY <1>6, <3>2
      <4> QED BY <4>1, <4>2
    <3> QED BY <3>1, <3>2
  <2>3. DOMAIN times' = 1 .. n + 1
    BY <1>6
  <2> QED BY <2>2, <2>3 DEF StampIsExact
<1>11. ASSUME torn' = FALSE PROVE FileInv'
  <2>1. Sound
    BY <1>11 DEF Submit, Sound
  <2>2. "header" \in Tokens /\ Put("header") /\ ch = 0 /\ ch' = 1
    BY DEF Tokens, Submit
  <2>3. "header" # "eol" /\ ("header" \in {"header", "indent"} <=> ch = 0)
    BY <2>2
  <2>4. LinesInv'
    BY <2>1, <2>2, <2>3, PutLines
  <2> QED BY <2>1, <2>4, SubmitEvents DEF FileInv
<1> QED BY <1>7, <1>8, <1>9, <1>10, <1>11 DEF TypeOK

(* A step of the loop of WriteMessage is within the text.                  *)
LEMMA LoopStep ==
  ASSUME IInv, SkipReturn \/ LastNewLine \/ NewLine \/ Escape \/ Copy
  PROVE  IInv'
<1> USE DEF IInv, WriteInv
<1>1. /\ ch \in 1 .. Len(text) /\ ch' = ch + 1 /\ ch # 0 /\ ch' # 0
      /\ UNCHANGED <<open, text, events, whole, times, stamps, torn>>
  BY LoopFacts
<1>2. text \in Texts
  BY DEF TypeOK
<1>3. PICK n \in Nat : n = Len(text) /\ n <= MaxLength /\ MaxLength \in Nat
  BY <1>2, TextsAreSequences, LogTextAssumption
<1>4. ch' \in 0 .. Len(text') + 1
  BY <1>1, <1>3
<1>5. disk' \in Seq(Tokens) /\ buffer' \in Seq(Tokens)
  <2>1. CASE SkipReturn \/ LastNewLine
    BY <2>1 DEF SkipReturn, LastNewLine, output, TypeOK
  <2>2. CASE NewLine
    <3>1. EndLine(<<"indent">>)
      BY <2>2 DEF NewLine
    <3> QED BY <3>1, EndLineTypes
  <2>3. CASE Escape \/ Copy
    <3>1. PICK x \in {"escaped", "other"} : Put(x) /\ x \in Tokens
      BY <2>3 DEF Escape, Copy, Tokens
    <3> QED BY <3>1, PutFacts
  <2> QED BY <2>1, <2>2, <2>3
<1>6. TypeOK'
  BY <1>1, <1>4, <1>5 DEF TypeOK
<1>7. WriterInv'
  BY <1>1, <1>4, <1>5 DEF WriterInv
<1>8. StampsInv' /\ StampIsExact'
  BY <1>1 DEF StampsInv, StampIsExact
<1>9. ASSUME torn' = FALSE PROVE FileInv'
  <2>1. Sound
    BY <1>1, <1>9 DEF Sound
  <2>2. CASE SkipReturn \/ LastNewLine
    <3>1. disk' = disk /\ buffer' = buffer /\ Output' = Output
      BY <2>2 DEF SkipReturn, LastNewLine, output, Output
    <3>2. LinesInv'
      BY <1>1, <2>1, <3>1 DEF Sound, FileInv, LinesInv
    <3> QED BY <2>1, <2>2, <3>2, SkipEvents DEF FileInv
  <2>3. CASE NewLine
    <3>1. <<"indent">> # << >> /\ EndLine(<<"indent">>)
      BY <2>3 DEF NewLine
    <3>2. LinesInv'
      BY <1>1, <2>1, <3>1, EndLineFacts
    <3> QED BY <2>1, <2>3, <3>2, NewLineEvents DEF FileInv
  <2>4. CASE Escape \/ Copy
    <3>1. PICK x \in {"escaped", "other"} : Put(x)
      BY <2>4 DEF Escape, Copy
    <3>2. x \in Tokens /\ x # "eol" /\ (x \in {"header", "indent"} <=> ch = 0)
      BY <1>1 DEF Tokens
    <3>3. LinesInv'
      BY <1>1, <2>1, <3>1, <3>2, PutLines
    <3> QED BY <2>1, <2>4, <3>3, PutEvents DEF FileInv
  <2> QED BY <2>2, <2>3, <2>4
<1> QED BY <1>6, <1>7, <1>8, <1>9 DEF TypeOK

LEMMA EndEventStep ==
  ASSUME IInv, EndEvent
  PROVE  IInv'
<1> USE DEF IInv, WriteInv
<1>1. /\ ch' = 0 /\ text' = << >> /\ whole' = whole \cup {Len(events)}
      /\ UNCHANGED <<open, events, times, stamps, torn>>
  BY DEF EndEvent
<1>2. ch # 0
  <2>1. Len(text) \in Nat
    BY TextsAreSequences DEF TypeOK
  <2> QED BY <2>1 DEF EndEvent
<1>3. disk' \in Seq(Tokens) /\ buffer' \in Seq(Tokens) /\ buffer' = << >>
  <2>1. EndLine(<< >>)
    BY DEF EndEvent
  <2> QED BY <2>1, EndLineTypes DEF EndLine
<1>4. Len(events) \in DOMAIN events
  <2>1. events \in Seq(Texts) /\ events # << >>
    BY <1>2 DEF WriterInv, TypeOK
  <2> QED BY <2>1
<1>5. ch' \in 0 .. Len(text') + 1
  BY <1>1, EmptyText
<1>6. TypeOK'
  BY <1>1, <1>3, <1>4, <1>5, EmptyText DEF TypeOK
<1>7. WriterInv'
  BY <1>1, <1>3 DEF WriterInv
<1>8. StampsInv' /\ StampIsExact'
  BY <1>1 DEF StampsInv, StampIsExact
<1>9. ASSUME torn' = FALSE PROVE FileInv'
  <2>1. Sound
    BY <1>1, <1>9 DEF Sound
  <2>2. EndLine(<< >>) /\ (ch' = 0 <=> << >> = << >>)
    BY <1>1 DEF EndEvent
  <2>3. LinesInv'
    BY <1>2, <2>1, <2>2, EndLineFacts
  <2> QED BY <2>1, <2>3, EndEventEvents DEF FileInv
<1> QED BY <1>6, <1>7, <1>8, <1>9 DEF TypeOK

(* What fills the buffer goes to the file.                                 *)
LEMMA SpillStep ==
  ASSUME IInv, Spill
  PROVE  IInv'
<1> USE DEF IInv, WriteInv
<1>1. /\ UNCHANGED <<open, text, ch, events, whole, times, stamps, torn>>
      /\ disk' = disk \o buffer /\ buffer' = << >>
  BY DEF Spill, history
<1>2. disk' \in Seq(Tokens) /\ buffer' \in Seq(Tokens)
  <2>1. PICK d \in Seq(Tokens), b \in Seq(Tokens) : d = disk /\ b = buffer
    BY DEF TypeOK
  <2>2. d \o b \in Seq(Tokens)
    BY ConcatFacts
  <2> QED BY <1>1, <2>1, <2>2
<1>3. TypeOK' /\ WriterInv'
  BY <1>1, <1>2 DEF TypeOK, WriterInv
<1>4. StampsInv' /\ StampIsExact'
  BY <1>1 DEF StampsInv, StampIsExact
<1>5. ASSUME torn' = FALSE PROVE FileInv'
  <2>1. Sound
    BY <1>1, <1>5 DEF Sound
  <2> QED BY <2>1, SpillEvents DEF FileInv
<1> QED BY <1>3, <1>4, <1>5 DEF TypeOK

(* A file that is truncated is not being written.                          *)
LEMMA ProcessStep ==
  ASSUME IInv, Open \/ Stop \/ UNCHANGED vars
  PROVE  IInv'
<1> USE DEF IInv, WriteInv
<1>1. 0 \in 0 .. Len(<< >>) + 1 /\ << >> \in Seq(Tokens) /\ << >> \in Seq(Texts)
  OBVIOUS
<1>2. UNCHANGED <<times, stamps>>
  BY DEF Open, Stop, history, vars
<1>3. StampsInv' /\ StampIsExact'
  BY <1>2 DEF StampsInv, StampIsExact
<1>4. CASE Open
  <2>1. TypeOK'
    BY <1>1, <1>4 DEF Open, TypeOK, history
  <2>2. WriterInv'
    BY <1>4 DEF Open, WriterInv
  <2>3. ASSUME torn' = FALSE PROVE FileInv'
    BY <1>4, <2>3, OpenEvents DEF FileInv
  <2> QED BY <1>3, <2>1, <2>2, <2>3 DEF TypeOK
<1>5. CASE Stop
  <2>1. TypeOK'
    BY <1>1, <1>5, EmptyText DEF Stop, TypeOK, history
  <2>2. WriterInv'
    BY <1>5 DEF Stop, WriterInv
  <2>3. ASSUME torn' = FALSE PROVE FileInv'
    <3>1. Sound
      BY <1>5, <2>3 DEF Stop, Sound, TypeOK
    <3> QED BY <1>5, <2>3, <3>1, StopEvents DEF FileInv
  <2> QED BY <1>3, <2>1, <2>2, <2>3 DEF TypeOK
<1>6. CASE UNCHANGED vars
  <2>1. TypeOK' /\ WriterInv'
    BY <1>6 DEF vars, TypeOK, WriterInv
  <2>2. LinesInv' <=> LinesInv
    BY <1>6 DEF vars, LinesInv, Output
  <2>3. EventInv' <=> EventInv
    BY <1>6 DEF vars, EventInv, Told, Placed, ReadSoFar, BeingWritten, Output
  <2>4. ASSUME torn' = FALSE PROVE FileInv'
    BY <1>6, <2>2, <2>3, <2>4 DEF vars, FileInv
  <2> QED BY <1>3, <2>1, <2>4 DEF TypeOK
<1> QED BY <1>4, <1>5, <1>6

-----------------------------------------------------------------------------
(* Theorems.                                                               *)

(* The inductive invariant: who writes, the lines of the file, the event   *)
(* and the stamp of each header, and what is shown of the event being      *)
(* written.                                                                *)
THEOREM Invariant == Spec => []IInv
<1>1. Init => IInv
  <2> SUFFICES ASSUME Init PROVE IInv
    OBVIOUS
  <2>1. 0 \in 0 .. Len(<< >>) + 1 /\ 0 <= MaxEvents
    BY LogTextAssumption
  <2>2. Len(times) = 0 /\ Len(stamps) = 0 /\ DOMAIN times = {}
    BY DEF Init
  <2>3. TypeOK
    <3>1. /\ open \in BOOLEAN /\ text \in Texts /\ ch \in 0 .. Len(text) + 1 /\ torn \in BOOLEAN
      BY <2>1, EmptyText DEF Init
    <3>2. /\ disk \in Seq(Tokens) /\ buffer \in Seq(Tokens) /\ events \in Seq(Texts)
          /\ whole \subseteq DOMAIN events
          /\ times \in Seq(Times) /\ stamps \in Seq(Nat \X (0 .. Second - 1))
      BY DEF Init
    <3> QED BY <2>1, <2>2, <3>1, <3>2 DEF TypeOK
  <2>4. WriterInv /\ StampsInv /\ StampIsExact
    BY <2>2 DEF Init, WriterInv, StampsInv, StampIsExact
  <2>5. LinesInv /\ EventInv
    BY NoEvents DEF Init, Blank
  <2> QED BY <2>3, <2>4, <2>5 DEF IInv, WriteInv, FileInv
<1>2. IInv /\ [Next]_vars => IInv'
  BY SubmitStep, LoopStep, EndEventStep, SpillStep, ProcessStep DEF Next
<1> QED BY <1>1, <1>2, PTL DEF Spec

(* The iterator of WriteMessage stays within the text, and every variable  *)
(* has its type.                                                           *)
THEOREM TypeCorrect == Spec => []TypeOK
<1>1. IInv => TypeOK
  BY DEF IInv, WriteInv
<1> QED BY <1>1, Invariant, PTL

(* Every header shows the minute and the milliseconds of its event's time, *)
(* whichever way to_time_t rounds.                                         *)
THEOREM StampCorrect == Spec => []StampIsExact
<1>1. IInv => StampIsExact
  BY DEF IInv, WriteInv
<1> QED BY <1>1, Invariant, PTL

(* Whatever the texts, however many events, and wherever processes stop,   *)
(* unless it is with a part of an unended line in the file, the events can *)
(* be read back from the lines of the file: one for each line that is not  *)
(* indented, in order, whole if Submit returned from it and at most its    *)
(* beginning if not.                                                       *)
THEOREM ReadsBackCorrect == Spec => []ReadsBack
<1>1. IInv => ReadsBack
  BY EventsAreRead
<1> QED BY <1>1, Invariant, PTL
=============================================================================
