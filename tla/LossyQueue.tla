------------------------------ MODULE LossyQueue ------------------------------
(***************************************************************************)
(* What ringbuffer.h promises to its callers, as a state machine: a FIFO   *)
(* of at most Size bytes that overwrites its oldest byte when it is full.  *)
(***************************************************************************)
EXTENDS Fifo

CONSTANTS Size,     (* capacity of the queue                               *)
          Values    (* the bytes callers push                              *)

VARIABLES contents, (* the queued bytes, oldest first                      *)
          result    (* what the last pop or peek returned                  *)

vars == << contents, result >>

Init == contents = << >> /\ result = 0

Put(v) ==
  /\ contents' = Pushed(contents, v, Size)
  /\ UNCHANGED result

Get ==
  /\ contents' = Popped(contents)
  /\ result' = Oldest(contents)

Look ==
  /\ result' = Oldest(contents)
  /\ UNCHANGED contents

Drop ==
  /\ contents' = << >>
  /\ UNCHANGED result

Next == (\E v \in Values : Put(v)) \/ Get \/ Look \/ Drop

Spec == Init /\ [][Next]_vars
===============================================================================
