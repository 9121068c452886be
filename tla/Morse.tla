--------------------------------- MODULE Morse --------------------------------
(***************************************************************************)
(* The tables of cw.c and cw-kbd.c and what is done with them: a character *)
(* is sent as the elements of its code, the elements keyed, by the         *)
(* firmware or by the operator, are read as characters again, and those    *)
(* are typed.  A code is a start bit followed by one bit per element, a    *)
(* dah being a one.  The back quote and the mistake, a backspace, are      *)
(* written BQ and BS.                                                      *)
(***************************************************************************)
EXTENDS Integers, Sequences, SequencesExt

Dit == 0
Dah == 1
Mistake == "BS"

(* The characters from 32 to 126, and the table cw for them: 0 is a        *)
(* character that has no code.                                             *)
Ascii == <<
  " ", "!", "\"", "#", "$", "%", "&", "'", "(", ")", "*", "+", ",", "-", ".", "/",
  "0", "1", "2", "3", "4", "5", "6", "7", "8", "9", ":", ";", "<", "=", ">", "?",
  "@", "A", "B", "C", "D", "E", "F", "G", "H", "I", "J", "K", "L", "M", "N", "O",
  "P", "Q", "R", "S", "T", "U", "V", "W", "X", "Y", "Z", "[", "\\", "]", "^", "_",
  "BQ", "a", "b", "c", "d", "e", "f", "g", "h", "i", "j", "k", "l", "m", "n", "o",
  "p", "q", "r", "s", "t", "u", "v", "w", "x", "y", "z", "{", "|", "}", "~" >>

cw == <<
  1, 107, 82, 0, 137, 0, 0, 0, 54, 109, 0, 42, 115, 97, 85, 50,
  63, 47, 39, 35, 33, 32, 48, 56, 60, 62, 120, 106, 0, 49, 0, 76,
  0, 5, 24, 26, 12, 2, 18, 14, 16, 4, 23, 13, 20, 7, 6, 15,
  22, 29, 10, 8, 3, 9, 17, 11, 25, 27, 28, 0, 0, 0, 0, 77,
  94, 5, 24, 26, 12, 2, 18, 14, 16, 4, 23, 13, 20, 7, 6, 15,
  22, 29, 10, 8, 3, 9, 17, 11, 25, 27, 28, 0, 0, 0, 0 >>

(* The keys that are typed for the characters from 32 to 126, a Colemak    *)
(* layout: 0 is a character that has no key, 128 more is one with shift.   *)
ascii2hid == <<
  44, 158, 180, 0, 161, 0, 0, 0, 166, 167, 0, 174, 54, 45, 55, 56,
  39, 30, 31, 32, 33, 34, 35, 36, 37, 38, 147, 19, 0, 46, 0, 184,
  0, 132, 133, 134, 138, 142, 136, 151, 139, 143, 156, 145, 152, 144, 141, 179,
  149, 148, 150, 135, 137, 140, 153, 154, 155, 146, 157, 0, 0, 0, 0, 173,
  52, 4, 5, 6, 10, 14, 8, 23, 11, 15, 28, 17, 24, 16, 13, 51,
  21, 20, 22, 7, 9, 12, 25, 26, 27, 18, 29, 0, 0, 0, 0 >>

BackspaceKey == 42

(* By code, from 0: "" is a code without a character. *)
cw2ascii == <<
  " ", "", "e", "t", "i", "a", "n", "m", "s", "u", "r", "w", "d", "k", "g", "o",
  "h", "v", "f", "", "l", "", "p", "j", "b", "x", "c", "y", "z", "q", "", "",
  "5", "4", "", "3", "", "", "", "2", "", "", "+", "", "", "", "", "1",
  "6", "=", "/", "", "", "", "(", "", "7", "", "", "", "8", "", "9", "0",
  "", "", "", "", "", "", "", "", "", "", "", "", "?", "_", "", "",
  "", "", "\"", "", "", ".", "", "", "", "", "", "", "", "", "'", "",
  "", "", "", "", "", "", "", "", "", "", ";", "!", "", ")", "", "",
  "", "", "", ",", "", "", "", "", ":", "", "", "", "", "", "", "" >>

(* Looked up for the codes cw2ascii has nothing for.  The value of AR, BT  *)
(* and NR is never reached: cw2ascii has '+', '=' and '/' for them.        *)
prosigns == <<
  << 21, << "A", "A" >> >>, << 40, << "A", "S" >> >>, << 42, << "A", "R" >> >>,
  << 49, << "B", "T" >> >>, << 50, << "N", "R" >> >>, << 69, << "S", "K" >> >>,
  << 90, << "A", "C" >> >>, << 128, << Mistake >> >>, << 137, << "$" >> >>,
  << 256, << Mistake >> >>, << 568, << "S", "O", "S" >> >> >>
-------------------------------------------------------------------------------
Alphabet == Range(Ascii)

(* cw_char sends '\'' as a back quote, which has its code. *)
Sent(c) == IF c = "'" THEN "BQ" ELSE c

Code == [c \in Alphabet |->
           cw[CHOOSE i \in DOMAIN Ascii : Ascii[i] = Sent(c)]]

(* The dits and dahs behind the start bit of a code. *)
Elements[code \in 0..255] ==
  IF code < 2 THEN << >> ELSE Append(Elements[code \div 2], code % 2)

(* The code that didah_decode has gathered after those elements. *)
Gathered(elements) ==
  FoldLeft(LAMBDA bits, didah : (2 * bits + didah) % 65536, 1, elements)

(* A prosign is announced by a '/', the mistake is not. *)
Prosign(bits) ==
  LET found == {i \in DOMAIN prosigns : prosigns[i][1] = bits}
      value == prosigns[CHOOSE i \in found : TRUE][2]
  IN  IF found = {} THEN << >>
      ELSE IF value[1] = Mistake THEN value
      ELSE << "/" >> \o value

(* The characters that a space makes of the code gathered; whether a lone  *)
(* start bit is a word space is left to the caller.                        *)
Heard(bits) ==
  IF bits < 127 /\ cw2ascii[bits + 1] # "" THEN << cw2ascii[bits + 1] >>
                                           ELSE Prosign(bits)
-------------------------------------------------------------------------------
Upper == << "A", "B", "C", "D", "E", "F", "G", "H", "I", "J", "K", "L", "M",
            "N", "O", "P", "Q", "R", "S", "T", "U", "V", "W", "X", "Y", "Z" >>
Lower == << "a", "b", "c", "d", "e", "f", "g", "h", "i", "j", "k", "l", "m",
            "n", "o", "p", "q", "r", "s", "t", "u", "v", "w", "x", "y", "z" >>

(* How a character is typed when it is heard: without its case, and with   *)
(* one apostrophe for both.                                                *)
Typed(c) == CASE c \in Range(Upper) -> Lower[CHOOSE i \in 1..26 : Upper[i] = c]
              [] c = "BQ"            -> "'"
              [] OTHER              -> c

KeyOf(c) == IF c = Mistake THEN BackspaceKey
                          ELSE ascii2hid[CHOOSE i \in DOMAIN Ascii : Ascii[i] = c]

(* Whatever a space can make of a code. *)
Hearable == UNION {Range(Heard(bits)) : bits \in 0..600}

(* The three tables, written down separately at cw.c:70, cw.c:220 and      *)
(* cw-kbd.c:168, fit together.  A character that is sent is heard as       *)
(* itself, but for '-', which no table decodes, '$', which is announced as *)
(* a prosign, and the space, which is not in the elements.  A character    *)
(* that is heard is typed, but for the apostrophe: it is sent as a back    *)
(* quote, which has its key, and heard as itself, which has none.  What is *)
(* typed for two characters differs.                                       *)
SentIsHeard ==
  \A c \in Alphabet \ {" ", "-", "$"} : Code[c] # 0
    => Heard(Gathered(Elements[Code[c]])) = << Typed(c) >>

HeardIsTyped == \A c \in Hearable \ {"", "'"} : KeyOf(c) # 0

TypedApart ==
  \A c, d \in Alphabet \cup {Mistake} : KeyOf(c) = KeyOf(d) => c = d \/ KeyOf(c) = 0

ASSUME TablesAgree == SentIsHeard /\ HeardIsTyped /\ TypedApart
===============================================================================
