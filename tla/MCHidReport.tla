------------------------------ MODULE MCHidReport ------------------------------
EXTENDS HidReport, TLC

(* From ascii2hid: 'a', '=' and '+', which is '=' with shift, and the      *)
(* apostrophe, which has no key.                                           *)
MCKeyCode == [ch \in Chars |-> CASE ch = 97 -> 4 [] ch = 39 -> 0 [] OTHER -> 46]
MCShift == [ch \in Chars |-> ch = 43]
===============================================================================
