--------------------------------- MODULE CwOut --------------------------------
(***************************************************************************)
(* The sending half of cw.c.  Text (cw_char) and elements (didah_enqueue)  *)
(* are queued from any interrupt handler; the event TICK_CW_ADVANCE takes  *)
(* them from the queues, keys the transmitter and, element by element,     *)
(* decodes what it keys back into characters for the callback.             *)
(*                                                                         *)
(* Everything here runs with interrupts disabled, so a call or a tick is   *)
(* one action.  A tick is due every millisecond ("hyper") while the        *)
(* machine looks for work and every dit_len milliseconds ("normal") while  *)
(* it keys; "off" is the event not being registered.                       *)
(***************************************************************************)
EXTENDS Fifo, Integers

CONSTANTS TextSize,   (* size of cw_q: 128                                  *)
          DidahSize,  (* size of cw_didah_q: 16                             *)
          IdleWrap,   (* idle_count is a uint8_t: 256                       *)
          BitsMod,    (* bits is a uint16_t: 2^16                           *)
          Chars,      (* the characters typed                               *)
          Space,      (* the one that is 32                                 *)
          Blanks,     (* the ones that are not greater: no word space is    *)
                      (* delivered after one of them                        *)
          Encode,     (* Encode[c]: table cw, the dits and dahs of c        *)
          Decode      (* Decode[b]: tables cw2ascii and prosigns, the       *)
                      (* characters delivered for the bits b                *)

DIT == 0
DAH == 1
SPACE == 2
Didahs == {DIT, DAH, SPACE}

(* No character delivered yet, or the last space delivered none. *)
NUL == "NUL"

ASSUME SizesAssumption == /\ TextSize \in Nat \ {0}
                          /\ DidahSize \in Nat \ {0}
                          /\ IdleWrap \in Nat /\ IdleWrap > 2
                          /\ BitsMod \in Nat /\ BitsMod > 1
(* The codes fit in the element queue together with their space. *)
ASSUME TablesAssumption ==
  /\ Space \in Blanks
  /\ Blanks \subseteq Chars
  /\ NUL \notin Chars
  /\ Encode \in [Chars -> Seq({DIT, DAH})]
  /\ Encode[Space] = << >>
  /\ \A c \in Chars : Len(Encode[c]) < DidahSize
  /\ Decode \in [0..(BitsMod - 1) -> Seq(Chars)]

VARIABLES cw_q, cw_didah_q,
          state, idle_count,    (* statics of cw_out_advance_tick            *)
          adv,                  (* TICK_CW_ADVANCE: off, hyper or normal     *)
          led,                  (* the bit that keys transmitter and beeper  *)
          bits, last_decoded,   (* statics of didah_decode                   *)
          heard                 (* what the last step gave the callback      *)

vars == << cw_q, cw_didah_q, state, idle_count, adv, led,
           bits, last_decoded, heard >>
machine == << state, idle_count, led >>
decoder == << bits, last_decoded >>

States == {"hyper", "idle", "send_bit", "dah", "dah2", "bit_sp", "char_sp",
           "word_sp", "word_sp2", "word_sp3"}

Init ==
  /\ cw_q = << >>
  /\ cw_didah_q = << >>
  /\ state = "idle"
  /\ idle_count = 0
  /\ adv = "off"
  /\ led = 0
  /\ bits = 1
  /\ last_decoded = NUL
  /\ heard = << >>
-------------------------------------------------------------------------------
(* didah_decode: a start bit followed by one bit per element. *)

(* What a space makes of bits b after the character l: with no element in  *)
(* between it is a word space, unless the last one already was.            *)
Delivered(b, l) ==
  IF b = 1 /\ l \notin Blanks \cup {NUL} THEN << Space >> ELSE Decode[b]

didah_decode(d) ==
  LET said == Delivered(bits, last_decoded)
  IN  IF d = SPACE
      THEN /\ heard' = said
           /\ last_decoded' = IF said = << >> THEN NUL ELSE said[Len(said)]
           /\ bits' = 1
      ELSE /\ bits' = (2 * bits + d) % BitsMod
           /\ heard' = << >>
           /\ UNCHANGED last_decoded

Silent == heard' = << >> /\ UNCHANGED decoder

(* if (!ms_tick_registered(TICK_CW_ADVANCE)) cw_out_hyper_tick(); *)
Woken == IF adv = "off" THEN "hyper" ELSE adv
-------------------------------------------------------------------------------
(* The calls. *)

cw_char(c) ==
  /\ cw_q' = Pushed(cw_q, c, TextSize)
  /\ adv' = Woken
  /\ Silent
  /\ UNCHANGED << cw_didah_q, machine >>

didah_enqueue(d) ==
  /\ adv' = Woken
  /\ cw_didah_q' = Pushed(cw_didah_q, d, DidahSize)
  /\ Silent
  /\ UNCHANGED << cw_q, machine >>

cw_clear_queues ==
  /\ cw_q' = << >>
  /\ cw_didah_q' = << >>
  /\ IF cw_didah_q # << >> THEN didah_decode(SPACE) ELSE Silent
  /\ UNCHANGED << adv, machine >>

cw_set_speed ==
  /\ adv' = IF adv = "off" THEN "off" ELSE "normal"
  /\ Silent
  /\ UNCHANGED << cw_q, cw_didah_q, machine >>
-------------------------------------------------------------------------------
(* cw_out_advance_tick, one action per branch of its switch. *)

(* The first element of q goes out; q is cw_didah_q with whatever this     *)
(* tick added to it.                                                       *)
SendBit(q) ==
  LET d == Head(q)
  IN  /\ q # << >>
      /\ cw_didah_q' = Tail(q)
      /\ state' = CASE d = DIT -> "bit_sp"
                    [] d = DAH -> "dah"
                    [] d = SPACE -> "char_sp"
      /\ led' = IF d = SPACE THEN led ELSE 1
      /\ idle_count' = 0
      /\ didah_decode(d)

(* state <= cws_idle: idle_count is incremented, and if it wraps the tick  *)
(* is stopped before the queues are looked at.                             *)
(* Fault: one more than a byte holds. *)
WrapsLate == idle_count = IdleWrap

Wraps == idle_count = IdleWrap - 1
Counting == adv # "off" /\ state \in {"hyper", "idle"}
Looking == Counting /\ ~Wraps /\ state = "idle"
CountOn == idle_count' = idle_count + 1

StopTick ==
  /\ Counting
  /\ Wraps
  /\ adv' = "off"
  /\ idle_count' = 0
  /\ Silent
  /\ UNCHANGED << cw_q, cw_didah_q, state, led >>

Hyper ==
  /\ Counting
  /\ ~Wraps
  /\ state = "hyper"
  /\ adv' = "hyper"
  /\ state' = "idle"
  /\ CountOn
  /\ Silent
  /\ UNCHANGED << cw_q, cw_didah_q, led >>

IdleKeyed ==
  /\ Looking
  /\ SendBit(cw_didah_q)
  /\ adv' = "normal"
  /\ UNCHANGED cw_q

(* Fault: the machine keys on at the hyper rate. *)
IdleTypedHyper ==
  /\ Looking
  /\ cw_didah_q = << >>
  /\ cw_q # << >>
  /\ Encode[Head(cw_q)] # << >>
  /\ SendBit(Append(Encode[Head(cw_q)], SPACE))
  /\ cw_q' = Tail(cw_q)
  /\ UNCHANGED adv

IdleTyped ==
  /\ Looking
  /\ cw_didah_q = << >>
  /\ cw_q # << >>
  /\ Encode[Head(cw_q)] # << >>
  /\ SendBit(Append(Encode[Head(cw_q)], SPACE))
  /\ cw_q' = Tail(cw_q)
  /\ adv' = "normal"

IdleSpace ==
  /\ Looking
  /\ cw_didah_q = << >>
  /\ cw_q # << >>
  /\ Head(cw_q) = Space
  /\ cw_q' = Tail(cw_q)
  /\ cw_didah_q' = << SPACE >>
  /\ state' = "word_sp"
  /\ CountOn
  /\ Silent
  /\ UNCHANGED << adv, led >>

IdleUnknown ==
  /\ Looking
  /\ cw_didah_q = << >>
  /\ cw_q # << >>
  /\ Head(cw_q) # Space
  /\ Encode[Head(cw_q)] = << >>
  /\ cw_q' = Tail(cw_q)
  /\ CountOn
  /\ Silent
  /\ UNCHANGED << cw_didah_q, adv, state, led >>

IdleEmpty ==
  /\ Looking
  /\ cw_didah_q = << >>
  /\ cw_q = << >>
  /\ CountOn
  /\ Silent
  /\ UNCHANGED << cw_q, cw_didah_q, adv, state, led >>

SendMore ==
  /\ adv # "off"
  /\ state = "send_bit"
  /\ SendBit(cw_didah_q)
  /\ UNCHANGED << cw_q, adv >>

(* Fault: the machine stays in send_bit instead of going back to hyper. *)
SendDoneStaying ==
  /\ adv # "off"
  /\ state = "send_bit"
  /\ cw_didah_q = << >>
  /\ adv' = "hyper"
  /\ idle_count' = 0
  /\ Silent
  /\ UNCHANGED << cw_q, cw_didah_q, state, led >>

(* The branch calls the tick again, and that takes the hyper branch. *)
SendDone ==
  /\ adv # "off"
  /\ state = "send_bit"
  /\ cw_didah_q = << >>
  /\ adv' = "hyper"
  /\ state' = "idle"
  /\ idle_count' = 1
  /\ Silent
  /\ UNCHANGED << cw_q, cw_didah_q, led >>

(* The states that only wait; leaving bit_sp lifts the key. *)
After == [dah |-> "dah2", dah2 |-> "bit_sp", bit_sp |-> "send_bit",
          char_sp |-> "hyper",
          word_sp |-> "word_sp2", word_sp2 |-> "word_sp3",
          word_sp3 |-> "hyper"]

(* Fault: a dah is one unit short. *)
WaitShort ==
  /\ adv # "off"
  /\ state \in DOMAIN After
  /\ state' = IF state = "dah" THEN "bit_sp" ELSE After[state]
  /\ led' = IF state = "bit_sp" THEN 0 ELSE led
  /\ idle_count' = 0
  /\ Silent
  /\ UNCHANGED << cw_q, cw_didah_q, adv >>

(* Fault: the key is lifted by the next element only. *)
WaitKeyDown ==
  /\ adv # "off"
  /\ state \in DOMAIN After
  /\ state' = After[state]
  /\ led' = led
  /\ idle_count' = 0
  /\ Silent
  /\ UNCHANGED << cw_q, cw_didah_q, adv >>

Wait ==
  /\ adv # "off"
  /\ state \in DOMAIN After
  /\ state' = After[state]
  /\ led' = IF state = "bit_sp" THEN 0 ELSE led
  /\ idle_count' = 0
  /\ Silent
  /\ UNCHANGED << cw_q, cw_didah_q, adv >>

cw_out_advance_tick ==
  \/ StopTick \/ Hyper
  \/ IdleKeyed \/ IdleTyped \/ IdleSpace \/ IdleUnknown \/ IdleEmpty
  \/ SendMore \/ SendDone
  \/ Wait

Produces == \/ \E c \in Chars : cw_char(c)
            \/ \E d \in Didahs : didah_enqueue(d)

Next == Produces \/ cw_clear_queues \/ cw_set_speed \/ cw_out_advance_tick

Spec == Init /\ [][Next]_vars

(* A registered event keeps firing, unless it is slept over in the last    *)
(* sleep of all: Tick!KeepsFiring.                                         *)
FairSpec == Spec /\ WF_vars(cw_out_advance_tick)
-------------------------------------------------------------------------------
TypeOK ==
  /\ cw_q \in Seq(Chars) /\ Len(cw_q) <= TextSize
  /\ cw_didah_q \in Seq(Didahs) /\ Len(cw_didah_q) <= DidahSize
  /\ state \in States
  /\ idle_count \in 0..(IdleWrap - 1)
  /\ adv \in {"off", "hyper", "normal"}
  /\ led \in {0, 1}
  /\ bits \in 0..(BitsMod - 1)
  /\ last_decoded \in Chars \cup {NUL}
  /\ heard \in Seq(Chars)

(* The states a keyed character goes through, with the key down in three.  *)
Marking == {"dah", "dah2", "bit_sp"}
Keying == Marking \cup {"send_bit", "char_sp"}

(* Elements, the gap after each and the gap that ends a character are      *)
(* timed by dit_len, never by the millisecond tick that looks for work,    *)
(* and the tick is never stopped with the machine half way: otherwise a    *)
(* dit lasts a millisecond, or the transmitter stays keyed.  The states of *)
(* the gap between words are not meant: the branch of the space            *)
(* (cw.c:472-475) leaves the rate as it found it, so word_sp, word_sp2 and *)
(* word_sp3 last a millisecond each, or dit_len if cw_set_speed was called *)
(* while the tick looked for work.                                         *)
TimedByDitLen ==
  /\ state \in Keying => adv = "normal"
  /\ adv = "off" => state = "idle"

(* The key is down exactly in the states that count an element's units. *)
KeyDownInMarks == (led = 1) <=> (state \in Marking)

(* Units left to key, by state. *)
Down == CASE state = "dah" -> 3
          [] state = "dah2" -> 2
          [] state = "bit_sp" -> 1
          [] OTHER -> 0

Line == INSTANCE KeyLine
  WITH text <- cw_q, elements <- cw_didah_q, down <- Down

(* The two queues and the state machine key every element whole, in order, *)
(* whatever is queued, cleared or sped up meanwhile.                       *)
ImplementsKeyLine == Line!Spec

Work == cw_q # << >> \/ cw_didah_q # << >>

(* The tick counts an idle millisecond before it looks at the queues, so   *)
(* work queued just before the count wraps is left there, with the tick    *)
(* stopped, until something else is queued.                                *)
Stranded == Work /\ adv = "off"

(* Once nothing more is queued, all that waits is keyed, or stranded. *)
Drains == <>[][~Produces]_vars => <>[](~Work \/ Stranded)

(* The transmitter is never left keyed. *)
KeyReleased == (led = 1) ~> (led = 0)

(* The comment on the encoding (cw.c:52-62) promises a start bit in front  *)
(* of the dits and dahs; bits = 0 has lost it.                             *)
StartBitKept == bits # 0
===============================================================================
