------------------------------- MODULE MCCommand -------------------------------
(***************************************************************************)
(* Command mode over the tables of cw.c.  The operator's codes are some    *)
(* commands, one digit, which is a number, a preset and a memory, a space, *)
(* the end of input, the mistake, the prosign that is heard as two         *)
(* characters, and a code that is nothing at all.                          *)
(***************************************************************************)
EXTENDS CommandMode, Morse

MCChars == Alphabet \cup {Mistake}
MCCoded == {ch \in Alphabet : Code[ch] # 0}
MCEcho == [ch \in MCCoded \ {" "} |-> Heard(Gathered(Elements[Code[ch]]))]

Codes == {Code[ch] : ch \in {"m", "r", "p", "5", "+", ":"}}
MCKeyed == {Heard(b) : b \in Codes \cup {128, 137}}

(* What command mode was about is of no account once it is left: nothing   *)
(* reads it before command_mode_cb(0) forgets it.                          *)
Seen == << button, IF command_mode THEN statics ELSE << >>, line, owed, memory,
           history >>
MCStray == {<< "#" >>}
===============================================================================
