------------------------------ MODULE LogText -------------------------------
(***************************************************************************)
(* What LogToFile writes: for each event a header with its time, and the   *)
(* text, in which WriteMessage treats line ends and control characters.    *)
(* LogEngine's lock_ gives the handler one event at a time.                *)
(*                                                                         *)
(* The process may stop at any point, and a later one open the file again. *)
(* What out_ buffers is then lost; std::endl moves it to the file, and so  *)
(* does a line that fills the buffer.                                      *)
(*                                                                         *)
(* A character is one of the four classes the loop of WriteMessage tells   *)
(* apart; "other" is copied.  The file is a sequence of what is written at *)
(* a time: a header, a line end, the two blanks of a continued line, an    *)
(* escaped or a copied character; one that is there in part counts.  Level,*)
(* thread and filter are part of the header, and no more is said of them.  *)
(* Times are in milliseconds.                                              *)
(***************************************************************************)
EXTENDS Integers, SequencesExt

CONSTANTS
  MaxLength,   (* bound: characters of a text                              *)
  MaxEvents,   (* bound: events written                                    *)
  Times,       (* the times of events                                      *)
  Second,      (* milliseconds in a second                                 *)
  Minute       (* seconds in a minute                                      *)

ASSUME LogTextAssumption ==
  /\ {MaxLength, MaxEvents} \subseteq Nat
  /\ Times \subseteq Nat
  /\ {Second, Minute} \subseteq Nat \ {0}

Chars  == {"cr", "lf", "control", "other"}
Tokens == {"header", "eol", "indent", "escaped", "other"}
Texts  == UNION {[1 .. n -> Chars] : n \in 0 .. MaxLength}

VARIABLES
  open,    (* a process has the handler                                    *)
  text,    (* the text being written                                       *)
  ch,      (* the iterator of WriteMessage; 0 between two events           *)
  disk,    (* the file                                                     *)
  buffer,  (* what out_ has yet to move there                              *)
  events,  (* history: the texts submitted since the file was truncated    *)
  whole,   (* history: of these, the ones Submit returned from             *)
  times,   (* history: the times submitted                                 *)
  stamps,  (* the minute and the milliseconds each header shows            *)
  torn     (* history: since then, a process stopped within a line of it   *)

output  == <<disk, buffer>>
history == <<events, whole, times, stamps>>
vars    == <<open, text, ch, disk, buffer, events, whole, times, stamps, torn>>

TypeOK ==
  /\ open \in BOOLEAN
  /\ text \in Texts
  /\ ch \in 0 .. Len(text) + 1
  /\ disk \in Seq(Tokens) /\ buffer \in Seq(Tokens)
  /\ events \in Seq(Texts) /\ whole \subseteq DOMAIN events
  /\ times \in Seq(Times) /\ Len(times) <= MaxEvents
  /\ stamps \in Seq(Nat \X (0 .. Second - 1))
  /\ torn \in BOOLEAN

Init ==
  /\ open = FALSE
  /\ text = << >> /\ ch = 0
  /\ disk = << >> /\ buffer = << >>
  /\ events = << >> /\ whole = {} /\ times = << >> /\ stamps = << >>
  /\ torn = FALSE

-----------------------------------------------------------------------------
(* out_ << x                                                               *)
Put(x) == buffer' = Append(buffer, x) /\ UNCHANGED disk

(* Mutant of EndLine: out_ << '\n'.                                        *)
EndLineUnflushed(next) == buffer' = buffer \o <<"eol">> \o next /\ UNCHANGED disk

(* out_ << std::endl << next                                               *)
EndLine(next) == disk' = disk \o buffer \o <<"eol">> /\ buffer' = next

(* The constructor: for append, or truncated.  One that cannot open the    *)
(* file throws, and there is no handler.                                   *)
Open ==
  /\ ~open
  /\ open' = TRUE
  /\ \/ UNCHANGED <<disk, history, torn>>
     \/ /\ disk' = << >> /\ events' = << >> /\ whole' = {} /\ torn' = FALSE
        /\ UNCHANGED <<times, stamps>>
  /\ UNCHANGED <<text, ch, buffer>>

(* The line fills the buffer of out_.  What size that is the library says, *)
(* so it may be at any time.                                               *)
Spill ==
  /\ ch # 0 /\ buffer # << >>
  /\ disk' = disk \o buffer /\ buffer' = << >>
  /\ UNCHANGED <<open, text, ch, history, torn>>

(* The file ends within a line.                                            *)
Unended == disk # << >> /\ Last(disk) # "eol"

(* The process ends, with the destructor of the handler or without.        *)
Stop ==
  /\ open
  /\ open' = FALSE
  /\ text' = << >> /\ ch' = 0 /\ buffer' = << >>
  /\ torn' = (torn \/ Unended)
  /\ UNCHANGED <<disk, history>>

(* to_time_t rounds or truncates, as the library likes.                    *)
ToTimeT(t) == {t \div Second, (t + Second - 1) \div Second}

(* Mutant of WholeSecond: to_time_t is taken at its word.                  *)
WholeSecondRounded(t, when) == when

(* WriteTimestamp: back to the second before, if it was rounded up.        *)
WholeSecond(t, when) == IF when * Second > t THEN when - 1 ELSE when

(* WriteTimestamp prints no seconds.                                       *)
Stamp(t, when) ==
  <<WholeSecond(t, when) \div Minute, t - WholeSecond(t, when) * Second>>

Submit(s, t) ==
  /\ open /\ ch = 0 /\ Len(times) < MaxEvents
  /\ text' = s /\ ch' = 1
  /\ Put("header")
  /\ events' = Append(events, s)
  /\ times' = Append(times, t)
  /\ \E when \in ToTimeT(t) : stamps' = Append(stamps, Stamp(t, when))
  /\ UNCHANGED <<open, whole, torn>>

(* WriteMessage is at a character of class c.                              *)
At(c) == ch \in 1 .. Len(text) /\ text[ch] = c

SkipReturn ==
  /\ At("cr")
  /\ ch' = ch + 1
  /\ UNCHANGED <<open, text, output, history, torn>>

LastNewLine ==
  /\ At("lf") /\ ch = Len(text)
  /\ ch' = ch + 1
  /\ UNCHANGED <<open, text, output, history, torn>>

NewLine ==
  /\ At("lf") /\ ch # Len(text)
  /\ EndLine(<<"indent">>)
  /\ ch' = ch + 1
  /\ UNCHANGED <<open, text, history, torn>>

Escape ==
  /\ At("control")
  /\ Put("escaped")
  /\ ch' = ch + 1
  /\ UNCHANGED <<open, text, history, torn>>

Copy ==
  /\ At("other")
  /\ Put("other")
  /\ ch' = ch + 1
  /\ UNCHANGED <<open, text, history, torn>>

(* WriteDefaulInfo ends the line.                                          *)
EndEvent ==
  /\ ch = Len(text) + 1
  /\ EndLine(<< >>)
  /\ ch' = 0 /\ text' = << >>
  /\ whole' = whole \cup {Len(events)}
  /\ UNCHANGED <<open, events, times, stamps, torn>>

Next ==
  \/ Open \/ Stop \/ Spill
  \/ \E s \in Texts, t \in Times : Submit(s, t)
  \/ SkipReturn \/ LastNewLine \/ NewLine \/ Escape \/ Copy
  \/ EndEvent

Spec == Init /\ [][Next]_vars

-----------------------------------------------------------------------------
(* Reading the log.                                                        *)

(* Where lines start that do not continue the line before.                 *)
Starts(file) ==
  {i \in DOMAIN file : (i = 1 \/ file[i - 1] = "eol") /\ file[i] # "indent"}

(* s without what is x in it.                                              *)
Without(s, x) ==
  LET kept[n \in 0 .. Len(s)] ==
        IF n = 0 THEN << >>
        ELSE IF s[n] = x THEN kept[n - 1] ELSE Append(kept[n - 1], s[n])
  IN  kept[Len(s)]

(* The reader drops the blanks and the last line end of what lies between  *)
(* a start and the next, or the end.                                       *)
Ends(file, i) ==
  {j \in i + 1 .. Len(file) + 1 : j \in Starts(file) \/ j = Len(file) + 1}

Read(file, i) ==
  LET end == CHOOSE j \in Ends(file, i) : \A k \in Ends(file, i) : j <= k
  IN  Without(SubSeq(file, i + 1, end - 2), "indent")

(* What can be read of a text: not its carriage returns, nor the line end  *)
(* it may end in; and control characters as their escapes.                 *)
Glyph(c) == CASE c = "lf" -> "eol" [] c = "control" -> "escaped" [] OTHER -> c

Body(s) == IF s # << >> /\ Last(s) = "lf" THEN Front(s) ELSE s

Legible(s) ==
  LET plain == Without(Body(s), "cr")
  IN  [n \in DOMAIN plain |-> Glyph(plain[n])]

(* Whatever the texts, and wherever processes stop but within a line that  *)
(* has filled the buffer, the lines of the file that are not indented are  *)
(* where events start, one for each and in order.  The text of an event    *)
(* Submit has returned from is read whole; of another, at most its         *)
(* beginning.                                                              *)
ReadsBack ==
  ~torn => \E event \in [Starts(disk) -> DOMAIN events] :
    /\ \A i, j \in Starts(disk) : i < j => event[i] < event[j]
    /\ \A e \in whole : \E i \in Starts(disk) : event[i] = e
    /\ \A i \in Starts(disk) :
         IF event[i] \in whole THEN Read(disk, i) = Legible(events[event[i]])
         ELSE IsPrefix(Read(disk, i), Legible(events[event[i]]))

(* The stamp has the time's own minute and milliseconds, whichever way     *)
(* to_time_t rounds.                                                       *)
StampIsExact ==
  \A n \in DOMAIN times :
    stamps[n] = <<times[n] \div (Second * Minute), times[n] % Second>>
=============================================================================
