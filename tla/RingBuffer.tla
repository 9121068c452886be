------------------------------ MODULE RingBuffer ------------------------------
(***************************************************************************)
(* ringbuffer.c: a ring of bytes with a read index, a write index and a    *)
(* counter, each a uint8_t.  push, pop, peek and clear run inside an       *)
(* ATOMIC_BLOCK, so each is one action whoever calls it, main or handler.  *)
(***************************************************************************)
EXTENDS Fifo

CONSTANTS Size,     (* SIZE of DECLARE_RINGBUFFER: 8, 16 and 128 in the code *)
          Values    (* the bytes pushed                                      *)

(* Size is stored in a uint8_t, and so is the counter that must be able to *)
(* hold Size + 1 for a moment.                                             *)
ASSUME SizeAssumption == Size \in 1..254
ASSUME ValuesAssumption == Values \subseteq 0..255

VARIABLES q, count, in, out,   (* the fields of struct ringbuffer           *)
          result               (* what the last pop or peek returned        *)

vars == << q, count, in, out, result >>

Slots == 0..(Size - 1)

(* A global, hence zeroed, array; see DECLARE_RINGBUFFER. *)
Init ==
  /\ q = [s \in Slots |-> 0]
  /\ count = 0
  /\ in = 0
  /\ out = 0
  /\ result = 0
-------------------------------------------------------------------------------
(* if (++i == size) i = 0; *)
Bump(i) == IF i + 1 = Size THEN 0 ELSE i + 1

(* Fault: the overwritten byte stays the next one to be read. *)
PushKeepingOut(v) ==
  /\ q' = [q EXCEPT ![in] = v]
  /\ in' = Bump(in)
  /\ count' = IF count = Size THEN Size ELSE count + 1
  /\ UNCHANGED << out, result >>

Push(v) ==
  LET counted == (count + 1) % 256
      full    == counted > Size
  IN  /\ q' = [q EXCEPT ![in] = v]
      /\ in' = Bump(in)
      /\ count' = IF full THEN Size ELSE counted
      /\ out' = IF full THEN Bump(out) ELSE out
      /\ UNCHANGED result

Peek ==
  /\ result' = IF count > 0 THEN q[out] ELSE 0
  /\ UNCHANGED << q, count, in, out >>

PopSome ==
  /\ count > 0
  /\ result' = q[out]
  /\ out' = Bump(out)
  /\ count' = count - 1
  /\ UNCHANGED << q, in >>

PopNone ==
  /\ count = 0
  /\ result' = 0
  /\ UNCHANGED << q, count, in, out >>

Pop == PopSome \/ PopNone

(* Fault: the counter alone is reset. *)
ClearCountOnly ==
  /\ count' = 0
  /\ out' = 0
  /\ UNCHANGED << q, in, result >>

Clear ==
  /\ count' = 0
  /\ out' = 0
  /\ in' = 0
  /\ UNCHANGED << q, result >>

Next == (\E v \in Values : Push(v)) \/ Pop \/ Peek \/ Clear

Spec == Init /\ [][Next]_vars
-------------------------------------------------------------------------------
TypeOK ==
  /\ q \in [Slots -> Values \cup {0}]
  /\ count \in 0..Size
  /\ in \in Slots
  /\ out \in Slots
  /\ result \in Values \cup {0}

(* The slot k places after slot s, around the ring. *)
Slot(s, k) == IF s + k >= Size THEN s + k - Size ELSE s + k

(* The write index is always count places after the read index: the three  *)
(* fields ringbuffer_push, _pop and _clear update separately never drift   *)
(* apart, also when a full ring overwrites its oldest byte.                *)
IndexesAgree == in = Slot(out, count)

(* The bytes between the two indexes, oldest first. *)
Contents == [i \in 1..count |-> q[Slot(out, i - 1)]]

Abstract == INSTANCE LossyQueue WITH contents <- Contents

(* The ring is the lossy FIFO of module LossyQueue: bytes come out in the  *)
(* order they went in, each once, and a push on a full ring loses exactly  *)
(* the oldest byte.                                                        *)
ImplementsLossyQueue == Abstract!Spec
===============================================================================
