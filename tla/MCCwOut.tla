------------------------------- MODULE MCCwOut --------------------------------
(***************************************************************************)
(* A small alphabet: a letter of two elements, the space and the           *)
(* backspace, which has no code of its own; bits three wide, where 0       *)
(* decodes as the space, as in cw2ascii, 7 stands for a prosign of two     *)
(* letters and 6 for the one that is a backspace.                          *)
(***************************************************************************)
EXTENDS CwOut

MCChars == {"a", " ", "bs"}

MCEncode == [c \in MCChars |-> IF c = "a" THEN << DIT, DAH >> ELSE << >>]

MCDecode == [b \in 0..(BitsMod - 1) |->
               CASE b = 0 -> << " " >>
                 [] b = 5 -> << "a" >>
                 [] b = 6 -> << "bs" >>
                 [] b = 7 -> << "a", "a" >>
                 [] OTHER -> << >>]

(* The dit paddle of a straight key is held: dits, and never a space. *)
HeldDit == Init /\ [][didah_enqueue(DIT) \/ cw_out_advance_tick]_vars
===============================================================================
