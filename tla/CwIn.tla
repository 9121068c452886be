--------------------------------- MODULE CwIn ---------------------------------
(***************************************************************************)
(* The keying half of cw.c: two paddles on INT0 and INT1 and the event     *)
(* TICK_CW_PARSE, every millisecond, turn presses into dits, dahs and      *)
(* spaces for the element queue.                                           *)
(*                                                                         *)
(* The code of the two paddles is symmetric, so one operator stands for    *)
(* both: p is a paddle, q the opposite one, cstate = p is keying_p_press.  *)
(* A paddle moves whenever it likes.  An edge sets the interrupt flag,     *)
(* entering the handler clears it, and the handler then reads the pin as   *)
(* it is by then: edges coalesce, and one press may be read as a release.  *)
(***************************************************************************)
EXTENDS Integers

CONSTANTS Modes,       (* keying modes, by name                            *)
          LeftKeys,    (* what the left paddle may key, subset of DIT, DAH *)
          DitLens,     (* milliseconds of a dit: 12 to 240 in the code     *)
          Changes,     (* the settings that change while paddles are used: *)
                       (* subset of "mode", "left", "speed", "space"       *)
          Bounces,     (* FALSE: a paddle waits until its edge is handled  *)
          IdleSleep,   (* idle ticks after which the event stops: 1024     *)
          MaxTicks     (* keyed_ticks is an int16_t: 32767                 *)

DIT == 0
DAH == 1
SPACE == 2
None == 3              (* nothing was enqueued                             *)
Paddles == {"left", "right"}
AllModes == {"straight", "ultimatic", "bug", "paddle", "iambic_a", "iambic_b"}

ASSUME SettingsAssumption == /\ Modes \subseteq AllModes
                             /\ LeftKeys \subseteq {DIT, DAH}
                             /\ DitLens \subseteq Nat \ {0}
ASSUME TicksAssumption ==
  /\ MaxTicks \in Nat
  /\ IdleSleep \in Nat
  /\ \A len \in DitLens : 6 * len < MaxTicks /\ 2 * len < IdleSleep

VARIABLES pin,             (* pin[p]: paddle p is pressed                  *)
          flag,            (* flag[p]: its interrupt is pending            *)
          isr,             (* the paddle whose handler was entered         *)
          keying_mode, left_didah, dit_len, word_space,
          parse,           (* TICK_CW_PARSE is registered                  *)
          cstate, keyed_ticks, last_keyed, enqueued_spaces, tick_events,
          port,            (* port[d]: the output pin of element d is high *)
          swapped,         (* history: swapped[d]: left_didah was changed  *)
                           (* while port[d] was high, and no handler has   *)
                           (* set the pin since                            *)
          emitted,         (* the element the last step enqueued           *)
          lastOut,         (* history: the last dit or dah enqueued        *)
          open             (* history: no space was enqueued since         *)

edges == << pin, flag, isr >>
settings == << keying_mode, left_didah, dit_len, word_space >>
counters == << keyed_ticks, last_keyed, enqueued_spaces >>
pins == << port, swapped >>
outputs == << emitted, lastOut, open >>
vars == << edges, settings, parse, cstate, counters, tick_events, pins,
           outputs >>

Opposite(p) == IF p = "left" THEN "right" ELSE "left"
Other(d) == IF d = DIT THEN DAH ELSE DIT
Keyed(p) == IF p = "left" THEN left_didah ELSE Other(left_didah)

(* didah_len, as cw_set_speed computes it. *)
didah_len(d) == (CASE d = DIT -> 2 [] d = DAH -> 4 [] d = SPACE -> 6) * dit_len

(* keying_mode & keying_mode_dumb, & keying_mode_iambic and                *)
(* & keying_mode_iambic_b: the masks 0x04, 0x10 and 0x12 on the values     *)
(* straight 0x01, ultimatic 0x02, bug 0x05, paddle 0x06, a 0x11, b 0x12.   *)
Dumb == keying_mode \in {"bug", "paddle"}
Iambic == keying_mode \in {"iambic_a", "iambic_b"}
HasBitOfB == keying_mode \in {"iambic_a", "iambic_b", "ultimatic", "paddle"}

(* int16_t increment. *)
Inc(k) == IF k = MaxTicks THEN -MaxTicks - 1 ELSE k + 1

Init ==
  /\ pin \in [Paddles -> BOOLEAN]
  /\ flag = [p \in Paddles |-> FALSE]
  /\ isr = "none"
  /\ keying_mode \in Modes
  /\ left_didah \in LeftKeys
  /\ dit_len \in DitLens
  /\ word_space \in BOOLEAN
  /\ parse = FALSE
  /\ cstate = "idle"
  /\ keyed_ticks = [d \in {DIT, DAH, SPACE} |-> 0]
  /\ last_keyed = DIT
  /\ enqueued_spaces = 0
  /\ tick_events = 0
  /\ port = [d \in {DIT, DAH} |-> FALSE]
  /\ swapped = [d \in {DIT, DAH} |-> FALSE]
  /\ emitted = None
  /\ lastOut = None
  /\ open = FALSE

(* didah_enqueue(e), or no call when e is None. *)
Enqueue(e) ==
  /\ emitted' = e
  /\ lastOut' = IF e \in {DIT, DAH} THEN e ELSE lastOut
  /\ open' = IF e = None THEN open ELSE e # SPACE

Idle == cstate = "idle"
-------------------------------------------------------------------------------
(* cw_in_advance_tick(keying_x_tick). *)

Counts == enqueued_spaces < 2

(* With nothing pressed: insert the space that ends a character two dits   *)
(* after the last release, one that ends a word after six, and stop the    *)
(* tick when it has been idle for long.                                    *)
IdleTick ==
  /\ Idle
  /\ LET n == tick_events + 1
     IN  /\ tick_events' = IF n = IdleSleep THEN 0 ELSE n
         /\ parse' = (n # IdleSleep)
  /\ last_keyed' = SPACE
  /\ LET k       == Inc(keyed_ticks[SPACE])
         word    == Counts /\ k = didah_len(SPACE)
         letter  == Counts /\ k = didah_len(DIT)
     IN  /\ Enqueue(IF letter \/ (word /\ word_space) THEN SPACE ELSE None)
         /\ enqueued_spaces' = IF letter \/ word THEN enqueued_spaces + 1
                                                 ELSE enqueued_spaces
         /\ keyed_ticks' = [keyed_ticks EXCEPT ![SPACE] =
                              IF word THEN 0 ELSE IF Counts THEN k ELSE @]
  /\ UNCHANGED cstate

(* Fault: the counter is not reset when the element is enqueued. *)
HeldTickCountingOn(p) ==
  /\ cstate = p
  /\ LET d   == Keyed(p)
         due == keyed_ticks[d] = didah_len(d)
     IN  /\ keyed_ticks' = [keyed_ticks EXCEPT ![d] = Inc(@)]
         /\ Enqueue(IF due THEN d ELSE None)
         /\ last_keyed' = IF due THEN d ELSE last_keyed
  /\ UNCHANGED << cstate, enqueued_spaces, tick_events, parse >>

(* One paddle down: repeat its element, except in paddle mode. *)
HeldTick(p) ==
  /\ cstate = p
  /\ LET d   == Keyed(p)
         due == keyed_ticks[d] = didah_len(d)
     IN  IF keying_mode = "paddle"
         THEN Enqueue(None) /\ UNCHANGED << keyed_ticks, last_keyed >>
         ELSE /\ keyed_ticks' = [keyed_ticks EXCEPT ![d] =
                                   IF due THEN 0 ELSE Inc(@)]
              /\ Enqueue(IF due THEN d ELSE None)
              /\ last_keyed' = IF due THEN d ELSE last_keyed
  /\ UNCHANGED << cstate, enqueued_spaces, tick_events, parse >>

(* Fault: the squeeze repeats one element in every mode. *)
SqueezedTickRepeating ==
  /\ cstate = "both"
  /\ LET due == keyed_ticks[last_keyed] = didah_len(last_keyed)
     IN  /\ Enqueue(IF due THEN last_keyed ELSE None)
         /\ keyed_ticks' = [keyed_ticks EXCEPT ![last_keyed] =
                              IF due THEN 0 ELSE Inc(@)]
  /\ UNCHANGED << last_keyed, cstate, enqueued_spaces, tick_events, parse >>

(* Both down: in the iambic modes the elements alternate. *)
SqueezedTick ==
  /\ cstate = "both"
  /\ LET due    == keyed_ticks[last_keyed] = didah_len(last_keyed)
         next   == IF due /\ Iambic THEN Other(last_keyed) ELSE last_keyed
         ticked == [keyed_ticks EXCEPT ![last_keyed] = Inc(@)]
     IN  /\ Enqueue(IF due THEN last_keyed ELSE None)
         /\ last_keyed' = next
         /\ keyed_ticks' = IF due THEN [ticked EXCEPT ![next] = 0] ELSE ticked
  /\ UNCHANGED << cstate, enqueued_spaces, tick_events, parse >>

cw_tick ==
  /\ parse
  /\ isr = "none"
  /\ IdleTick \/ (\E p \in Paddles : HeldTick(p)) \/ SqueezedTick
  /\ UNCHANGED << edges, settings, pins >>
-------------------------------------------------------------------------------
(* cw_in_advance_tick with a press or a release of paddle p. *)

First(p) ==
  LET d == Keyed(p)
  IN  /\ Idle
      /\ cstate' = p
      /\ keyed_ticks' = [keyed_ticks EXCEPT ![d] = 0]
      /\ Enqueue(d)
      /\ last_keyed' = d
      /\ UNCHANGED enqueued_spaces

(* In bug and paddle mode the second press replaces the first; in the      *)
(* other modes it makes a squeeze.                                         *)
Second(p) ==
  LET q == Opposite(p)
      d == Keyed(p)
      next == IF Iambic THEN Keyed(q) ELSE d
  IN  /\ cstate = q
      /\ cstate' = IF Dumb THEN p ELSE "both"
      /\ Enqueue(d)
      /\ last_keyed' = next
      /\ keyed_ticks' = [keyed_ticks EXCEPT ![next] = 0]
      /\ UNCHANGED enqueued_spaces

Ignored == Enqueue(None) /\ UNCHANGED << cstate, counters >>

Press(p) ==
  \/ First(p)
  \/ Second(p)
  \/ cstate \in {p, "both"} /\ Ignored

(* Fault: the counters of the idle ticks go on where they were. *)
LiftCountingOn(p) ==
  /\ cstate = p
  /\ cstate' = "idle"
  /\ Enqueue(None)
  /\ UNCHANGED counters

(* The only paddle down is released. *)
Lift(p) ==
  /\ cstate = p
  /\ cstate' = "idle"
  /\ enqueued_spaces' = 0
  /\ keyed_ticks' = [keyed_ticks EXCEPT ![SPACE] = 0]
  /\ Enqueue(None)
  /\ UNCHANGED last_keyed

(* Fault: the release of either paddle of a squeeze ends the keying. *)
UnsqueezeToIdle(p) ==
  /\ cstate = "both"
  /\ cstate' = "idle"
  /\ Enqueue(None)
  /\ UNCHANGED counters

(* Fault: the paddle released is taken for the one still down. *)
UnsqueezeSwapped(p) ==
  /\ cstate = "both"
  /\ cstate' = p
  /\ Enqueue(IF HasBitOfB THEN last_keyed ELSE None)
  /\ UNCHANGED counters

(* Fault: the element due is not enqueued in any mode. *)
UnsqueezeCutting(p) ==
  /\ cstate = "both"
  /\ cstate' = Opposite(p)
  /\ Enqueue(None)
  /\ UNCHANGED counters

(* One paddle of a squeeze is released: the element of the other one is    *)
(* due a dit later, and the modes with the bit of B enqueue the one that   *)
(* was due next.                                                           *)
Unsqueeze(p) ==
  LET q == Opposite(p)
      d == Keyed(q)
  IN  /\ cstate = "both"
      /\ cstate' = q
      /\ keyed_ticks' = [keyed_ticks EXCEPT ![d] =
                           didah_len(d) - didah_len(DIT)]
      /\ Enqueue(IF HasBitOfB THEN last_keyed ELSE None)
      /\ UNCHANGED << last_keyed, enqueued_spaces >>

Release(p) ==
  \/ Lift(p)
  \/ Unsqueeze(p)
  \/ cstate \notin {p, "both"} /\ Ignored

(* ISR(INT0_vect), ISR(INT1_vect): the hardware clears the flag on entry,  *)
(* INT0 before INT1, and the handler reads the pin later.                  *)
EnterISR(p) ==
  /\ isr = "none"
  /\ flag[p]
  /\ p = "right" => ~flag["left"]
  /\ flag' = [flag EXCEPT ![p] = FALSE]
  /\ isr' = p
  /\ Enqueue(None)
  /\ UNCHANGED << pin, settings, parse, cstate, counters, tick_events, pins >>

(* Fault: the output is only ever switched on. *)
ISRLeavingPort(p) ==
  /\ isr = p
  /\ isr' = "none"
  /\ parse' = TRUE
  /\ port' = [port EXCEPT ![Keyed(p)] = @ \/ pin[p]]
  /\ swapped' = [swapped EXCEPT ![Keyed(p)] = FALSE]
  /\ IF pin[p] THEN Press(p) ELSE Release(p)
  /\ tick_events' = 0
  /\ UNCHANGED << pin, flag, settings >>

(* Fault: an edge does not register the event. *)
ISRNotRegistering(p) ==
  /\ isr = p
  /\ isr' = "none"
  /\ port' = [port EXCEPT ![Keyed(p)] = pin[p]]
  /\ swapped' = [swapped EXCEPT ![Keyed(p)] = FALSE]
  /\ IF pin[p] THEN Press(p) ELSE Release(p)
  /\ tick_events' = 0
  /\ UNCHANGED << pin, flag, settings, parse >>

ISR(p) ==
  /\ isr = p
  /\ isr' = "none"
  /\ parse' = TRUE
  /\ port' = [port EXCEPT ![Keyed(p)] = pin[p]]
  /\ swapped' = [swapped EXCEPT ![Keyed(p)] = FALSE]
  /\ IF pin[p] THEN Press(p) ELSE Release(p)
  /\ tick_events' = 0
  /\ UNCHANGED << pin, flag, settings >>

(* Nothing is left to handle for paddle p. *)
Settled(p) == ~flag[p] /\ isr # p

Move(p) ==
  /\ Bounces \/ Settled(p)
  /\ pin' = [pin EXCEPT ![p] = ~@]
  /\ flag' = [flag EXCEPT ![p] = TRUE]
  /\ Enqueue(None)
  /\ UNCHANGED << isr, settings, parse, cstate, counters, tick_events, pins >>
-------------------------------------------------------------------------------
(* The settings commands, from a tick callback. *)
Set(what) ==
  /\ what \in Changes
  /\ isr = "none"
  /\ Enqueue(None)
  /\ UNCHANGED << edges, parse, cstate, counters, tick_events, port >>

cw_set_keying_mode ==
  /\ Set("mode")
  /\ keying_mode' \in Modes
  /\ UNCHANGED << left_didah, dit_len, word_space, swapped >>

cw_set_left_key ==
  /\ Set("left")
  /\ left_didah' \in LeftKeys
  /\ swapped' = [d \in {DIT, DAH} |->
                   swapped[d] \/ (left_didah' # left_didah /\ port[d])]
  /\ UNCHANGED << keying_mode, dit_len, word_space >>

cw_set_speed ==
  /\ Set("speed")
  /\ dit_len' \in DitLens
  /\ UNCHANGED << keying_mode, left_didah, word_space, swapped >>

cw_set_word_space ==
  /\ Set("space")
  /\ word_space' \in BOOLEAN
  /\ UNCHANGED << keying_mode, left_didah, dit_len, swapped >>

Next ==
  \/ cw_tick
  \/ \E p \in Paddles : Move(p)
  \/ \E p \in Paddles : EnterISR(p)
  \/ \E p \in Paddles : ISR(p)
  \/ cw_set_keying_mode
  \/ cw_set_left_key
  \/ cw_set_speed
  \/ cw_set_word_space

Spec == Init /\ [][Next]_vars

(* Both paddles are up at power-on: one held by then has raised no edge.   *)
InitRested == Init /\ pin = [p \in Paddles |-> FALSE]
RestedSpec == InitRested /\ [][Next]_vars

(* A registered event keeps firing and a pending interrupt is served. *)
FairSpec ==
  /\ RestedSpec
  /\ WF_vars(cw_tick)
  /\ \A p \in Paddles : WF_vars(EnterISR(p)) /\ WF_vars(ISR(p))
-------------------------------------------------------------------------------
TypeOK ==
  /\ pin \in [Paddles -> BOOLEAN]
  /\ flag \in [Paddles -> BOOLEAN]
  /\ isr \in Paddles \cup {"none"}
  /\ keying_mode \in Modes
  /\ left_didah \in LeftKeys
  /\ dit_len \in DitLens
  /\ word_space \in BOOLEAN
  /\ parse \in BOOLEAN
  /\ cstate \in Paddles \cup {"idle", "both"}
  /\ keyed_ticks \in [{DIT, DAH, SPACE} -> (-MaxTicks - 1)..MaxTicks]
  /\ last_keyed \in {DIT, DAH, SPACE}
  /\ (cstate = "both" => last_keyed \in {DIT, DAH})
  /\ enqueued_spaces \in 0..2
  /\ tick_events \in 0..(IdleSleep - 1)
  /\ port \in [{DIT, DAH} -> BOOLEAN]
  /\ swapped \in [{DIT, DAH} -> BOOLEAN]
  /\ emitted \in {DIT, DAH, SPACE, None}
  /\ lastOut \in {DIT, DAH, None}
  /\ open \in BOOLEAN

(* A paddle that is up is not being keyed: whatever edges were merged,     *)
(* read late or read twice, and whatever mode was chosen in between, no    *)
(* element is repeated for a paddle nobody holds.                          *)
NoPhantomKey ==
  \A p \in Paddles :
    Settled(p) /\ ~pin[p] => cstate \notin {p, "both"}

(* Both ways, for the modes in which a second press does not replace the   *)
(* first: a handled paddle is keyed if and only if it is down.             *)
TracksPaddles ==
  \A p \in Paddles :
    ~Dumb /\ Settled(p) => (pin[p] <=> cstate \in {p, "both"})

(* The tick is stopped only between characters: a character left open      *)
(* would be decoded together with the next one.                            *)
ClosedBeforeSleep == ~parse => Idle /\ ~open

(* In a squeeze the iambic modes go on with the other element than the     *)
(* last, and the other modes with the last element again.                  *)
SqueezeOrder ==
  cstate = "both" => last_keyed = IF Iambic THEN Other(lastOut) ELSE lastOut

(* Leaving a squeeze in iambic mode B enqueues the element that completes  *)
(* the alternation.                                                        *)
SqueezeCompletes ==
  [][cstate = "both" /\ cstate' # "both" /\ keying_mode = "iambic_b"
       => emitted' = Other(lastOut)]_vars

(* An output pin is not left high by a paddle that is up: what is wired to *)
(* it would go on being keyed.  One thing leaves it high, and nothing else *)
(* does: the left paddle's element changed between a press and its release *)
(* (the commands 'd' and 'p', the button), for the release then clears the *)
(* pin of the other element.  The next edge of the paddle that keys it by  *)
(* then puts it right.                                                     *)
NoStuckPort ==
  \A p \in Paddles :
    Settled(p) /\ port[Keyed(p)] /\ ~swapped[Keyed(p)] => pin[p]

(* A held paddle has its element enqueued once in every cycle of it (the   *)
(* comment at cw.c:540): its counter does not run past the cycle.          *)
RepeatsPerCycle ==
  \A p \in Paddles :
    cstate = p /\ keying_mode # "paddle"
    => keyed_ticks[Keyed(p)] <= didah_len(Keyed(p))

(* cw.c:838-839 on a squeeze: ticks enqueue, a release goes back to the    *)
(* press of the paddle still held.  Completing the element at the release  *)
(* is iambic mode B (cw.h:71).                                             *)
OnlyModeBCompletes ==
  [][cstate = "both" /\ cstate' # "both" /\ keying_mode # "iambic_b"
       => emitted' = None]_vars

(* A paddle that is held alone, and known to be, repeats its element for   *)
(* as long as the other one is left up.                                    *)
HeldRepeats ==
  \A p \in Paddles :
    <>[](cstate = p /\ keying_mode # "paddle"
         /\ \A q \in Paddles : (pin[q] <=> q = p))
    => []<>(emitted = Keyed(p))
===============================================================================
