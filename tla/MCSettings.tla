------------------------------- MODULE MCSettings ------------------------------
EXTENDS Settings

(* Bounds: how many bytes of the presets at a time are a choice of the     *)
(* user, fewer when minutes have passed.  What is left of another layout   *)
(* is explored in the first minute only.                                   *)
MaxChosen == 2
MaxLater == 1
Few ==
  /\ inherited => this_minute = 0
  /\ Cardinality({x \in Presets \X Fields :
                    ee[Preset(x[1], x[2])] = Chosen})
       <= IF this_minute = 0 THEN MaxChosen ELSE MaxLater
===============================================================================
