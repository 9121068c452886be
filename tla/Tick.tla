--------------------------------- MODULE Tick ---------------------------------
(***************************************************************************)
(* tick.c with the main loop of cw-kbd.c: the millisecond tick that drives *)
(* the whole firmware, and the sleep modes that may stop it.               *)
(*                                                                         *)
(* Handlers run with interrupts disabled, so a handler is a critical       *)
(* section; main is interrupted between any two of its steps.  One pass of *)
(* ms_tick looks at the events one by one, and the callback of an event    *)
(* may itself register and unregister events, its own included.            *)
(***************************************************************************)
EXTENDS Integers

CONSTANTS TICK_EVENTS,   (* number of events: 7 in the code                *)
          M,             (* millis counts modulo M: 2^16 in the code       *)
          Freqs          (* the periods the firmware registers             *)

ASSUME EventsAssumption == TICK_EVENTS \in Nat
ASSUME MillisAssumption == M \in Nat \ {0}
(* 1 .. 60000 in the code: neither 0 nor a full turn of millis. *)
ASSUME FreqsAssumption == Freqs \subseteq 1..(M - 1)

VARIABLES millis,
          func,            (* func[e]: tick_q[e].func is not NULL          *)
          freq, next_fire, (* the other fields of tick_q                   *)
          waiting_events,  (* the set of events whose bit is set           *)
          timerOn,         (* timer 0 is clocked                           *)
          ctx,             (* who runs: "main", an external interrupt's    *)
                           (* "handler", "tick" or a tick "callback"       *)
          slot,            (* the i of ms_tick                             *)
          pc               (* where main is in its loop                    *)

timers == << millis, func, freq, next_fire, waiting_events, timerOn >>
vars == << timers, ctx, slot, pc >>

Events == 0..(TICK_EVENTS - 1)
Handling == ctx \in {"handler", "callback"}
Asleep == pc \in {"idling", "down"}

(* uint16_t arithmetic: x is at most 2 * M - 1 here. *)
Wrap(x) == IF x >= M THEN x - M ELSE x

(* When hw_init returns: it started the timer, nothing is registered yet. *)
Init ==
  /\ millis = 0
  /\ func = [e \in Events |-> FALSE]
  /\ freq = [e \in Events |-> 0]
  /\ next_fire = [e \in Events |-> 0]
  /\ waiting_events = {}
  /\ timerOn = TRUE
  /\ ctx = "main"
  /\ slot = 0
  /\ pc = "check"
-------------------------------------------------------------------------------
(* Registration, by a handler or by a callback. *)

(* Fault: the deadline is not relative to the present. *)
RegisterAbsolute(e, f) ==
  /\ Handling
  /\ freq' = [freq EXCEPT ![e] = f]
  /\ next_fire' = [next_fire EXCEPT ![e] = f]
  /\ func' = [func EXCEPT ![e] = TRUE]
  /\ timerOn' = TRUE
  /\ waiting_events' = waiting_events \cup {e}
  /\ UNCHANGED << millis, ctx, slot, pc >>

(* Fault: the bit is set first, so the timer is never found stopped. *)
RegisterWithoutStart(e, f) ==
  /\ Handling
  /\ freq' = [freq EXCEPT ![e] = f]
  /\ next_fire' = [next_fire EXCEPT ![e] = Wrap(millis + f)]
  /\ func' = [func EXCEPT ![e] = TRUE]
  /\ waiting_events' = waiting_events \cup {e}
  /\ UNCHANGED << millis, timerOn, ctx, slot, pc >>

ms_tick_register(e, f) ==
  /\ Handling
  /\ freq' = [freq EXCEPT ![e] = f]
  /\ next_fire' = [next_fire EXCEPT ![e] = Wrap(millis + f)]
  /\ func' = [func EXCEPT ![e] = TRUE]
  /\ timerOn' = (timerOn \/ waiting_events = {})
  /\ waiting_events' = waiting_events \cup {e}
  /\ UNCHANGED << millis, ctx, slot, pc >>

(* Fault: the bit of the event stays set. *)
UnregisterKeepingBit(e) ==
  /\ Handling
  /\ func' = [func EXCEPT ![e] = FALSE]
  /\ UNCHANGED << millis, freq, next_fire, waiting_events, timerOn,
                  ctx, slot, pc >>

(* Fault: the timer is stopped whatever else is registered. *)
UnregisterStopping(e) ==
  /\ Handling
  /\ func' = [func EXCEPT ![e] = FALSE]
  /\ waiting_events' = waiting_events \ {e}
  /\ timerOn' = FALSE
  /\ UNCHANGED << millis, freq, next_fire, ctx, slot, pc >>

ms_tick_unregister(e) ==
  /\ Handling
  /\ func' = [func EXCEPT ![e] = FALSE]
  /\ waiting_events' = waiting_events \ {e}
  /\ timerOn' = (timerOn /\ waiting_events' # {})
  /\ UNCHANGED << millis, freq, next_fire, ctx, slot, pc >>
-------------------------------------------------------------------------------
(* The tick interrupt: one pass of ms_tick over the events. *)

Woken == IF Asleep THEN "check" ELSE pc

(* SLEEP_MODE_PWR_DOWN stops the clock of timer 0. *)
EnterTick ==
  /\ ctx = "main"
  /\ timerOn
  /\ pc # "down"
  /\ millis' = Wrap(millis + 1)
  /\ ctx' = "tick"
  /\ slot' = 0
  /\ pc' = Woken
  /\ UNCHANGED << func, freq, next_fire, waiting_events, timerOn >>

Due(e) == func[e] /\ next_fire[e] = millis

Skip ==
  /\ ctx = "tick"
  /\ slot \in Events
  /\ ~Due(slot)
  /\ slot' = slot + 1
  /\ UNCHANGED << timers, ctx, pc >>

(* Fault: the deadline is left where it was. *)
FireOnce ==
  /\ ctx = "tick"
  /\ slot \in Events
  /\ Due(slot)
  /\ ctx' = "callback"
  /\ UNCHANGED << timers, slot, pc >>

Fire ==
  /\ ctx = "tick"
  /\ slot \in Events
  /\ Due(slot)
  /\ next_fire' = [next_fire EXCEPT ![slot] = Wrap(@ + freq[slot])]
  /\ ctx' = "callback"
  /\ UNCHANGED << millis, func, freq, waiting_events, timerOn, slot, pc >>

Return ==
  /\ ctx = "callback"
  /\ ctx' = "tick"
  /\ slot' = slot + 1
  /\ UNCHANGED << timers, pc >>

ExitTick ==
  /\ ctx = "tick"
  /\ slot = TICK_EVENTS
  /\ ctx' = "main"
  /\ UNCHANGED << timers, slot, pc >>

(* An external interrupt: a paddle, the button or USB. *)
EnterHandler ==
  /\ ctx = "main"
  /\ ctx' = "handler"
  /\ pc' = Woken
  /\ UNCHANGED << timers, slot >>

ExitHandler ==
  /\ ctx = "handler"
  /\ ctx' = "main"
  /\ UNCHANGED << timers, slot, pc >>

(* main: if (waiting_events) idle(); else power_down();  Interrupts may    *)
(* come between the test and the sleep instruction.                        *)
MainTest ==
  /\ ctx = "main"
  /\ pc = "check"
  /\ pc' = IF waiting_events # {} THEN "toIdle" ELSE "toDown"
  /\ UNCHANGED << timers, ctx, slot >>

MainSleep ==
  /\ ctx = "main"
  /\ \/ pc = "toIdle" /\ pc' = "idling"
     \/ pc = "toDown" /\ pc' = "down"
  /\ UNCHANGED << timers, ctx, slot >>

Calls(e) == ms_tick_unregister(e) \/ \E f \in Freqs : ms_tick_register(e, f)

Next ==
  \/ EnterTick \/ Skip \/ Fire \/ Return \/ ExitTick
  \/ EnterHandler \/ ExitHandler
  \/ MainTest \/ MainSleep
  \/ \E e \in Events : Calls(e)

Spec == Init /\ [][Next]_vars

(* Handlers and callbacks end, main goes on when nothing interrupts it,    *)
(* and the compare interrupt stays pending until it is served.  Whether an *)
(* external interrupt ever comes is up to the world: EnterHandler is not   *)
(* fair.                                                                   *)
FairSpec ==
  /\ Spec
  /\ WF_vars(Skip) /\ WF_vars(Fire) /\ WF_vars(Return) /\ WF_vars(ExitTick)
  /\ WF_vars(ExitHandler)
  /\ SF_vars(EnterTick)
  /\ SF_vars(MainTest) /\ SF_vars(MainSleep)
-------------------------------------------------------------------------------
TypeOK ==
  /\ millis \in 0..(M - 1)
  /\ func \in [Events -> BOOLEAN]
  /\ freq \in [Events -> Freqs \cup {0}]
  /\ next_fire \in [Events -> 0..(M - 1)]
  /\ waiting_events \subseteq Events
  /\ timerOn \in BOOLEAN
  /\ ctx \in {"main", "handler", "tick", "callback"}
  /\ slot \in 0..TICK_EVENTS
  /\ (ctx = "callback" => slot \in Events)
  /\ pc \in {"check", "toIdle", "toDown", "idling", "down"}

Registered == {e \in Events : func[e]}

(* tick.c keeps the same fact twice, in the func pointers the pass reads   *)
(* and in the bits the sleep decision and the timer control read; the two  *)
(* agree, and while anything is registered timer 0 is clocked.             *)
BitsMatch == waiting_events = Registered
TimerRuns == waiting_events # {} => timerOn

RecordsAgree == BitsMatch /\ TimerRuns

(* Milliseconds from m forward to d, both on the circle of millis. *)
Between(m, d) == IF d >= m THEN d - m ELSE d - m + M

Ahead(e) == Between(millis, next_fire[e])

(* The pass of this millisecond has yet to look at event e. *)
Unvisited(e) == \/ ctx = "tick" /\ slot <= e
                \/ ctx = "callback" /\ slot < e

(* ms_tick tests next_fire == millis, so a deadline that is ever left      *)
(* behind fires a whole turn of millis late.  It never is: the deadline of *)
(* a registered event is at most one period ahead and is reached only      *)
(* while the pass still has the event to visit, whatever the callbacks     *)
(* that ran earlier in the pass registered.                                *)
OnTime ==
  \A e \in Registered :
    /\ Ahead(e) <= freq[e]
    /\ Ahead(e) = 0 => Unvisited(e)

(* The 16-bit deadlines behave as periodic countdown timers. *)
Timers == INSTANCE PeriodicTimers
  WITH armed  <- Registered,
       period <- [e \in Events |-> IF func[e] THEN freq[e] ELSE 0],
       left   <- [e \in Events |-> IF func[e] THEN Ahead(e) ELSE 0]

(* tick.c implements periodic timers: no event is early, late or lost, and *)
(* events due together fire in the order of enum tick_events.              *)
ImplementsTimers == Timers!Spec

(* main tests waiting_events with interrupts enabled and sleeps some       *)
(* instructions later (cw-kbd.c:1074): an event registered in between is   *)
(* slept over in power down, where timer 0 has no clock.                   *)
SleptOver == pc = "down" /\ waiting_events # {}

(* An event that stays registered and that nobody registers again keeps    *)
(* firing: neither idling nor the calls made for the other events stop the *)
(* tick for good.  The one thing that does is to be slept over in the last *)
(* sleep of all, which no external interrupt ends any more; any interrupt  *)
(* of a paddle, the button or USB sets the tick going again.               *)
KeepsFiring ==
  \A e \in Events :
    (/\ <>[](func[e])
     /\ <>[][~Calls(e)]_vars)
    => []<><<Fire /\ slot = e>>_vars \/ <>[]SleptOver
===============================================================================
