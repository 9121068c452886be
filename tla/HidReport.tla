------------------------------- MODULE HidReport -------------------------------
(***************************************************************************)
(* The keyboard in cw-kbd.c: characters are queued on hid_q by handlers,   *)
(* and a report with the next key, or with none, is made whenever the host *)
(* polls.  The poll is answered by the event TICK_USB_WORK, inside a       *)
(* handler, and for ten seconds after a connection by main as well, which  *)
(* a handler may interrupt anywhere.                                       *)
(***************************************************************************)
EXTENDS Fifo, FiniteSets

CONSTANTS Chars,      (* the characters queued, none of them 0             *)
          KeyCode,    (* ascii2hid without its bit 7, by character         *)
          Shift,      (* bit 7 of ascii2hid                                *)
          HidSize,    (* capacity of hid_q: 8                              *)
          MaxQueued   (* bound: characters queued in a behaviour           *)

NUL == 0
NoKey == [code |-> 0, shift |-> FALSE]

ASSUME QueueAssumption == HidSize \in Nat \ {0} /\ MaxQueued \in Nat
ASSUME CharsAssumption == NUL \notin Chars
ASSUME KeysAssumption == /\ KeyCode \in [Chars -> Nat]
                         /\ Shift \in [Chars -> BOOLEAN]

VARIABLES hid_q,
          last_key,   (* the static variable of CreateHIDReport            *)
          c,          (* its c, when main calls it                         *)
          pc,         (* where main is in it: "out" when it is elsewhere   *)
          report,     (* the last report the host was sent                 *)
          queued,     (* counts characters queued, for the bound           *)
          taken,      (* history: the characters taken from hid_q          *)
          due,        (* history: the keys a host should see for them      *)
          typed,      (* history: the keys the host saw being pressed      *)
          raced       (* history: a handler made a report, or dropped the  *)
                      (* character peeked, while main was making a report  *)

main == << c, pc >>
vars == << hid_q, last_key, main, report, queued, taken, due, typed, raced >>

Key(ch) == IF ch = NUL THEN NoKey
                       ELSE [code |-> KeyCode[ch], shift |-> Shift[ch]]

(* The host takes a code that was not in the report before as a key press. *)
Send(r) ==
  /\ report' = r
  /\ typed' = IF r.code \notin {0, report.code} THEN Append(typed, r)
                                                ELSE typed

(* The report can show a press of ch, made right over one of last_key,     *)
(* unless ch has no key, or shares the key of another character.           *)
Visible(ch) == /\ Key(ch).code # 0
               /\ ch = last_key \/ Key(ch).code # Key(last_key).code

(* hid_dq. *)
Take(ch) ==
  /\ hid_q' = Popped(hid_q)
  /\ taken' = IF ch = NUL THEN taken ELSE Append(taken, ch)
  /\ due' = IF Visible(ch) THEN Append(due, Key(ch)) ELSE due

Init ==
  /\ hid_q = << >>
  /\ last_key = NUL
  /\ c = NUL
  /\ pc = "out"
  /\ report = NoKey
  /\ queued = 0
  /\ taken = << >>
  /\ due = << >>
  /\ typed = << >>
  /\ raced = FALSE
-------------------------------------------------------------------------------
(* hid_nq, in the decoder's callback. *)
hid_nq(ch) ==
  /\ queued < MaxQueued
  /\ queued' = queued + 1
  /\ hid_q' = Pushed(hid_q, ch, HidSize)
  /\ raced' = (raced \/ (pc \in {"peeked", "chosen"} /\ Len(hid_q) = HidSize))
  /\ UNCHANGED << last_key, main, report, taken, due, typed >>

(* Fault: the key is held for as long as characters come. *)
TickReportHolding ==
  LET ch == Oldest(hid_q)
  IN  /\ last_key' = ch
      /\ Send(Key(ch))
      /\ Take(ch)
      /\ raced' = (raced \/ pc # "out")
      /\ UNCHANGED << main, queued >>

(* Fault: a release does not forget the key. *)
TickReportRemembering ==
  LET ch    == Oldest(hid_q)
      press == ch \notin {NUL, last_key}
  IN  /\ last_key' = IF press THEN ch ELSE last_key
      /\ Send(Key(IF press THEN ch ELSE NUL))
      /\ IF press THEN Take(ch) ELSE UNCHANGED << hid_q, taken, due >>
      /\ raced' = (raced \/ pc # "out")
      /\ UNCHANGED << main, queued >>

(* CreateHIDReport in the callback of TICK_USB_WORK: a key that was just   *)
(* reported is released before it is reported again.                       *)
TickReport ==
  LET ch    == Oldest(hid_q)
      press == ch \notin {NUL, last_key}
  IN  /\ last_key' = IF press THEN ch ELSE NUL
      /\ Send(Key(last_key'))
      /\ IF press THEN Take(ch) ELSE UNCHANGED << hid_q, taken, due >>
      /\ raced' = (raced \/ pc # "out")
      /\ UNCHANGED << main, queued >>
-------------------------------------------------------------------------------
(* The same in main, up to where a handler can come in between. *)

MainPeek ==
  /\ pc = "out"
  /\ pc' = "peeked"
  /\ c' = Oldest(hid_q)
  /\ UNCHANGED << hid_q, last_key, report, queued, taken, due, typed, raced >>

(* The test, which a handler may come behind: last_key need not stay what  *)
(* it was, nor c the oldest character.                                     *)
MainTest ==
  /\ pc = "peeked"
  /\ c \notin {NUL, last_key}
  /\ pc' = "chosen"
  /\ UNCHANGED << hid_q, last_key, c, report, queued, taken, due, typed, raced >>

(* Fault: the character peeked is reported, whatever the pop returned. *)
MainPopPeeked ==
  /\ pc = "chosen"
  /\ pc' = "popped"
  /\ c' = c
  /\ Take(Oldest(hid_q))
  /\ UNCHANGED << last_key, report, queued, typed, raced >>

(* What hid_dq returns need not be what hid_peek returned. *)
MainPop ==
  /\ pc = "chosen"
  /\ pc' = "popped"
  /\ c' = Oldest(hid_q)
  /\ Take(c')
  /\ UNCHANGED << last_key, report, queued, typed, raced >>

MainRelease ==
  /\ pc = "peeked"
  /\ c \in {NUL, last_key}
  /\ pc' = "popped"
  /\ c' = NUL
  /\ UNCHANGED << hid_q, last_key, report, queued, taken, due, typed, raced >>

MainRemember ==
  /\ pc = "popped"
  /\ pc' = "ready"
  /\ last_key' = c
  /\ UNCHANGED << hid_q, c, report, queued, taken, due, typed, raced >>

MainSend ==
  /\ pc = "ready"
  /\ pc' = "out"
  /\ Send(Key(c))
  /\ UNCHANGED << hid_q, last_key, c, queued, taken, due, raced >>

Next ==
  \/ \E ch \in Chars : hid_nq(ch)
  \/ TickReport
  \/ MainPeek
  \/ MainTest
  \/ MainPop
  \/ MainRelease
  \/ MainRemember
  \/ MainSend

Spec == Init /\ [][Next]_vars

(* The host keeps polling. *)
FairSpec == Spec /\ WF_vars(TickReport)
-------------------------------------------------------------------------------
TypeOK ==
  /\ hid_q \in Seq(Chars) /\ Len(hid_q) <= HidSize
  /\ last_key \in Chars \cup {NUL}
  /\ c \in Chars \cup {NUL}
  /\ pc \in {"out", "peeked", "chosen", "popped", "ready"}
  /\ report \in [code : Nat, shift : BOOLEAN]
  /\ queued \in 0..MaxQueued
  /\ taken \in Seq(Chars)
  /\ due \in Seq([code : Nat, shift : BOOLEAN])
  /\ typed \in Seq([code : Nat, shift : BOOLEAN])
  /\ raced \in BOOLEAN

(* Unless a handler got into a report of main, every character taken from  *)
(* the queue is seen by the host as a press of its key, once and in order  *)
(* (the comment at cw-kbd.c:314), equal ones in a row too.  The only ones  *)
(* it misses have no key, or share the key of the other character that was *)
(* reported right before: the test at cw-kbd.c:335 compares characters,    *)
(* not keys, so '+' after '=' is not preceded by a release.                *)
AllTyped == pc = "out" /\ ~raced => typed = due

Keys(s) == [i \in DOMAIN s |-> Key(s[i])]
Times(s, x) == Cardinality({i \in DOMAIN s : s[i] = x})

(* Whatever the interleaving of handlers and main, no character is typed   *)
(* twice: a key is pressed at most as often as a character of that key was *)
(* taken from the queue (cw-kbd.c:314).                                    *)
NothingTwice ==
  \A k \in {Key(ch) : ch \in Chars} : Times(typed, k) <= Times(Keys(taken), k)

(* Once nothing new is queued, everything queued is taken, and the last    *)
(* key is let go: the host would repeat it for ever.                       *)
LetsGo ==
  <>[](hid_q = << >> /\ report = NoKey)
===============================================================================
