--------------------------- MODULE TaskSequencer ----------------------------
(***************************************************************************)
(* What a task sequencer promises, whatever its threads and flags: one     *)
(* handler at a time, each at most once, in the order of the line, and     *)
(* none after the sequencer is shut.                                       *)
(***************************************************************************)
EXTENDS Naturals, Sequences

CONSTANT Jobs       (* identities of handlers                              *)

VARIABLES
  line,     (* accepted handlers that have not started                     *)
  nest,     (* the handler being executed, and those it is called from     *)
  over,     (* handlers that are over                                      *)
  shut,     (* the shutdown handler has run                                *)
  left      (* the thread has left its loop                                *)

sequencer == <<line, nest, over, shut, left>>

SequencerInit ==
  /\ line = << >> /\ nest = << >> /\ over = {}
  /\ shut = FALSE /\ left = FALSE

(* Handlers start at most once.                                            *)
Fresh(c) ==
  /\ c \notin over
  /\ \A i \in 1 .. Len(line) : line[i] # c
  /\ \A i \in 1 .. Len(nest) : nest[i] # c

(* A handler is added at the end of the line, at any time: one that is     *)
(* added when the thread has left stays there.                             *)
Accept(c) ==
  /\ Fresh(c)
  /\ line' = Append(line, c)
  /\ UNCHANGED <<nest, over, shut, left>>

Start ==
  /\ nest = << >> /\ ~shut /\ ~left
  /\ line # << >>
  /\ nest' = <<Head(line)>>
  /\ line' = Tail(line)
  /\ UNCHANGED <<over, shut, left>>

(* The handler being executed calls another like a function.               *)
CallInline(c) ==
  /\ nest # << >>
  /\ Fresh(c)
  /\ nest' = <<c>> \o nest
  /\ UNCHANGED <<line, over, shut, left>>

Finish ==
  /\ nest # << >>
  /\ over' = over \cup {Head(nest)}
  /\ nest' = Tail(nest)
  /\ UNCHANGED <<line, shut, left>>

(* The shutdown handler comes from the line, and shuts the sequencer once. *)
Shut ==
  /\ Len(nest) = 1 /\ ~shut
  /\ over' = over \cup {nest[1]}
  /\ nest' = << >>
  /\ shut' = TRUE
  /\ UNCHANGED <<line, left>>

(* A handler lets an exception out, and the thread with it.                *)
Break ==
  /\ Len(nest) = 1 /\ ~left
  /\ over' = over \cup {nest[1]}
  /\ nest' = << >>
  /\ left' = TRUE
  /\ UNCHANGED <<line, shut>>

Leave ==
  /\ nest = << >> /\ shut /\ ~left
  /\ left' = TRUE
  /\ UNCHANGED <<line, nest, over, shut>>

SequencerNext ==
  \/ \E c \in Jobs : Accept(c) \/ CallInline(c)
  \/ Start \/ Finish \/ Shut \/ Break \/ Leave

SequencerSpec == SequencerInit /\ [][SequencerNext]_sequencer
=============================================================================
