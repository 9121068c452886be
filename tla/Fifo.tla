--------------------------------- MODULE Fifo ---------------------------------
(***************************************************************************)
(* The three byte queues of the firmware (hid_q, cw_q and cw_didah_q) are  *)
(* all rings of ringbuffer.c.  Seen from outside, a ring is a sequence     *)
(* that never refuses a byte: a full ring drops its oldest byte to take    *)
(* the new one.  Module RingBuffer shows that ringbuffer.c has exactly     *)
(* this behaviour, so that every other module works with sequences.        *)
(***************************************************************************)
EXTENDS Naturals, Sequences

(* The queue s, of at most cap elements, after v was pushed on it. *)
Pushed(s, v, cap) == Append(IF Len(s) < cap THEN s ELSE Tail(s), v)

(* The queue s after a pop; popping an empty queue changes nothing. *)
Popped(s) == IF s = << >> THEN s ELSE Tail(s)

(* What a pop or a peek of s returns: 0 stands for "nothing there", which  *)
(* is also an ordinary byte (DIT is 0), so callers test for emptiness.     *)
Oldest(s) == IF s = << >> THEN 0 ELSE Head(s)
===============================================================================
