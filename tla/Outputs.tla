------------------------------- MODULE Outputs --------------------------------
(***************************************************************************)
(* The pins of cw.c and the sidetone: timer 3 interrupts at twice the      *)
(* tone's frequency, and the interrupt toggles the beeper's pin.  Handlers *)
(* do not interrupt each other, so what timer 3 has flagged while another  *)
(* handler ran is served after it, whatever that handler did to the timer. *)
(***************************************************************************)
EXTENDS Integers

CONSTANTS Tones          (* values of hz, in units of ten hertz            *)

ASSUME TonesAssumption == Tones \subseteq 0..255

F_CPU == 16000000
TopMax == 65535          (* OCR3A has 16 bits                              *)

VARIABLES key,           (* CW_BIT of CW_PORT                              *)
          pin,           (* BEEPER_BIT of BEEPER_PORT                      *)
          driven,        (* the outputs whose DDR bits are set             *)
          scale,         (* the clock select bits of TCCR3B                *)
          unmasked,      (* OCIE3A of TIMSK3                               *)
          flagged,       (* OCF3A of TIFR3                                 *)
          beeper_clock,  (* what they are set to for an element            *)
          top,           (* OCR3A                                          *)
          hz,            (* the frequency stored                           *)
          beeper,        (* what cw_set_beeper was last asked for          *)
          command_mode,
          span,          (* history: the modes the element under way has   *)
                         (* been keyed in                                  *)
          late           (* history: interrupts served since the key went  *)
                         (* up                                             *)

timer3 == << scale, unmasked, flagged >>
tone == << beeper_clock, top, hz >>
vars == << key, pin, driven, timer3, tone, beeper, command_mode, span, late >>

All == {"beeper", "keyer", "didah"}
-------------------------------------------------------------------------------
(* cw_set_frequency. *)

Asked(freq) == IF freq < 8 THEN 22 ELSE freq

(* Fault: the top is taken to fit. *)
ToneUnscaled(freq) ==
  LET half == ((F_CPU \div 10) \div Asked(freq)) \div 2
  IN  [by |-> 1, top |-> (half - 1) % (TopMax + 1)]

(* The prescaler and the top of the counter. *)
Tone(freq) ==
  LET half == ((F_CPU \div 10) \div Asked(freq)) \div 2
  IN  IF half - 1 <= TopMax THEN [by |-> 1, top |-> half - 1]
                           ELSE [by |-> 64, top |-> half \div 64 - 1]

cw_set_frequency(freq) ==
  /\ hz' = Asked(freq)
  /\ beeper_clock' = Tone(freq).by
  /\ top' = Tone(freq).top

(* cw_init has restored a preset, and has then enabled every output. *)
Init ==
  /\ key = FALSE
  /\ pin = FALSE
  /\ driven = All
  /\ scale = 0
  /\ flagged = FALSE
  /\ beeper \in BOOLEAN
  /\ unmasked = beeper
  /\ \E freq \in Tones : /\ hz = Asked(freq)
                         /\ beeper_clock = Tone(freq).by
                         /\ top = Tone(freq).top
  /\ command_mode = FALSE
  /\ span = {}
  /\ late = 0
-------------------------------------------------------------------------------
cw_led_on ==
  /\ ~key
  /\ key' = TRUE
  /\ scale' = beeper_clock
  /\ span' = {command_mode}
  /\ late' = 0
  /\ UNCHANGED << pin, driven, unmasked, flagged, tone, beeper, command_mode >>

(* Fault: the pin is left as it was. *)
LedOffLeavingPin ==
  /\ key
  /\ key' = FALSE
  /\ scale' = 0
  /\ span' = {}
  /\ late' = 0
  /\ UNCHANGED << pin, driven, unmasked, flagged, tone, beeper, command_mode >>

cw_led_off ==
  /\ key
  /\ key' = FALSE
  /\ scale' = 0
  /\ span' = {}
  /\ pin' = FALSE
  /\ late' = 0
  /\ UNCHANGED << driven, unmasked, flagged, tone, beeper, command_mode >>

(* The counter reaches its top. *)
Match ==
  /\ scale # 0
  /\ flagged' = TRUE
  /\ UNCHANGED << key, pin, driven, scale, unmasked, tone, beeper, command_mode,
                  span, late >>

toggle_bit ==
  /\ flagged /\ unmasked
  /\ flagged' = FALSE
  /\ pin' = ~pin
  /\ late' = IF key THEN late ELSE late + 1
  /\ UNCHANGED << key, driven, scale, unmasked, tone, beeper, command_mode, span >>

(* Fault: the interrupt is left enabled. *)
BeeperUnmasked(beep, freq) ==
  /\ beeper' = beep
  /\ scale' = 0
  /\ driven' = IF beep THEN driven \cup {"beeper"} ELSE driven \ {"beeper"}
  /\ cw_set_frequency(freq)
  /\ UNCHANGED << key, pin, unmasked, flagged, command_mode, span, late >>

(* Fault: all of the outputs are enabled. *)
BeeperEnablingAll(beep, freq) ==
  /\ beeper' = beep
  /\ scale' = 0
  /\ unmasked' = beep
  /\ driven' = IF beep THEN All ELSE driven \ {"beeper"}
  /\ cw_set_frequency(freq)
  /\ UNCHANGED << key, pin, flagged, command_mode, span, late >>

(* In the middle of an element too: the tone is cut, the element is not.   *)
(* The frequency is that of the preset in use, any byte EEPROM may hold.   *)
cw_set_beeper(beep, freq) ==
  /\ beeper' = beep
  /\ scale' = 0
  /\ unmasked' = beep
  /\ driven' = IF beep THEN driven \cup {"beeper"} ELSE driven \ {"beeper"}
  /\ cw_set_frequency(freq)
  /\ UNCHANGED << key, pin, flagged, command_mode, span, late >>

(* The command 't'. *)
SetTone(freq) ==
  /\ freq > 8
  /\ cw_set_frequency(freq)
  /\ UNCHANGED << key, pin, driven, timer3, beeper, command_mode, span, late >>

set_command_mode(mode) ==
  /\ command_mode' = mode
  /\ driven' = IF mode THEN driven \ {"keyer", "didah"}
                       ELSE driven \cup {"keyer", "didah"}
  /\ span' = IF key THEN span \cup {mode} ELSE span
  /\ UNCHANGED << key, pin, timer3, tone, beeper, late >>

Next ==
  \/ cw_led_on \/ cw_led_off
  \/ Match \/ toggle_bit
  \/ \E beep \in BOOLEAN, freq \in Tones : cw_set_beeper(beep, freq)
  \/ \E freq \in Tones : SetTone(freq)
  \/ \E mode \in BOOLEAN : set_command_mode(mode)

Spec == Init /\ [][Next]_vars
-------------------------------------------------------------------------------
(* Between elements timer 3 stands still.  The beeper's pin rests low but  *)
(* for one toggle at most, flagged before the timer was stopped and served *)
(* after cw_led_off: it then stays high up to the end of the next element  *)
(* (cw.c:881 and cw.c:937).                                                *)
SilentUnlessKeyed ==
  ~key => /\ scale = 0
          /\ late <= 1
          /\ pin <=> (late = 1)

(* Quiet is quiet: without the beeper its pin never goes up, although its  *)
(* timer runs with every element (cw.c:1031), and although something may   *)
(* be flagged from before.                                                 *)
QuietIsQuiet == [][pin' /\ ~pin => beeper]_vars

(* An element keyed in command mode from its first moment on reaches       *)
(* neither the transmitter nor the dit and dah outputs, whatever preset or *)
(* beeper is set under it, and one keyed outside reaches both as long as   *)
(* it lasts (cw-kbd.c:919 and cw-kbd.c:926).  This says nothing of the     *)
(* element under way when the mode changes, and cannot: the outputs are    *)
(* enabled with the key down, so when command mode is left the rest of its *)
(* element is on the air, and an element that is cut off by entering it    *)
(* ends early there.                                                       *)
OffAir ==
  key => /\ span = {TRUE} => {"keyer", "didah"} \cap driven = {}
         /\ span = {FALSE} => {"keyer", "didah"} \subseteq driven

(* The next element sounds within a thousandth of the frequency that is    *)
(* stored, in units of ten hertz, and the counter's 16 bits suffice for    *)
(* every byte there is (cw.c:903 to cw.c:909).                             *)
ToneTrue ==
  /\ top \in 0..TopMax
  /\ 2 * beeper_clock * (top + 1) * 10 * hz - F_CPU
       \in -(F_CPU \div 1000)..(F_CPU \div 1000)
===============================================================================
