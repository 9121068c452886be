------------------------------- MODULE KeyLine --------------------------------
(***************************************************************************)
(* What the sending half of cw.c promises to the transmitter it keys: a    *)
(* line that takes text and elements and turns them into key-down times of *)
(* 1 unit for a dit and 3 for a dah, in order and never cut short.  Text   *)
(* is looked at only when no element is waiting; clearing and overflow     *)
(* lose what waits, never the element that is being keyed.                 *)
(***************************************************************************)
EXTENDS Fifo

CONSTANTS TextSize,  (* capacity of the text queue                          *)
          DidahSize, (* capacity of the element queue                       *)
          Chars,     (* the characters typed                                *)
          Encode     (* the dits and dahs of a character, if it has any     *)

DIT == 0
DAH == 1
SPACE == 2

VARIABLES text,      (* characters waiting                                  *)
          elements,  (* elements waiting                                    *)
          down       (* units the key stays down, 0 when it is up           *)

vars == << text, elements, down >>

(* Units of key-down an element asks for. *)
Length == [d \in {DIT, DAH, SPACE} |->
             CASE d = DIT -> 1 [] d = DAH -> 3 [] OTHER -> 0]

Init == text = << >> /\ elements = << >> /\ down = 0

Type(c) ==
  /\ text' = Pushed(text, c, TextSize)
  /\ UNCHANGED << elements, down >>

Key(d) ==
  /\ elements' = Pushed(elements, d, DidahSize)
  /\ UNCHANGED << text, down >>

Clear ==
  /\ text' = << >>
  /\ elements' = << >>
  /\ UNCHANGED down

(* Start keying the first element of q, the rest stays waiting. *)
Start(q) ==
  /\ down = 0
  /\ q # << >>
  /\ elements' = Tail(q)
  /\ down' = Length[Head(q)]

StartWaiting == Start(elements) /\ UNCHANGED text

(* A typed character becomes its elements and a space, a typed space a     *)
(* space only, and a character that has no code is dropped.                *)
StartTyped ==
  /\ elements = << >>
  /\ text # << >>
  /\ text' = Tail(text)
  /\ \/ /\ Encode[Head(text)] # << >>
        /\ Start(Append(Encode[Head(text)], SPACE))
     \/ /\ Encode[Head(text)] = << >>
        /\ elements' \in {<< >>, << SPACE >>}
        /\ down = 0
        /\ UNCHANGED down

Unit ==
  /\ down > 0
  /\ down' = down - 1
  /\ UNCHANGED << text, elements >>

Next ==
  \/ \E c \in Chars : Type(c)
  \/ \E d \in {DIT, DAH, SPACE} : Key(d)
  \/ Clear
  \/ StartWaiting \/ StartTyped \/ Unit

Spec == Init /\ [][Next]_vars
===============================================================================
