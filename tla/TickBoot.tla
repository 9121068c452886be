------------------------------- MODULE TickBoot --------------------------------
(***************************************************************************)
(* The only call of ms_tick_register with interrupts enabled: after        *)
(* hw_init, main queues its greeting with cw_string, and a character that  *)
(* finds TICK_CW_ADVANCE unregistered registers it, step by step, with     *)
(* ticks, handlers and callbacks in between.  The loop of main follows.    *)
(***************************************************************************)
EXTENDS Tick

CONSTANTS CW_ADVANCE,    (* the event main registers                       *)
          Hyper          (* and its period: 1 in the code                  *)

ASSUME AdvanceAssumption == CW_ADVANCE \in Events /\ Hyper \in Freqs

VARIABLES boot,          (* where main is in cw_string                     *)
          loaded,        (* the value main computes between two accesses   *)
          raced          (* history: one of the windows was hit            *)

booting == << boot, loaded, raced >>
bootVars == << vars, booting >>

BootInit ==
  /\ Init
  /\ boot = "string"
  /\ loaded = 0
  /\ raced = FALSE
-------------------------------------------------------------------------------
MainAt(step) == ctx = "main" /\ boot = step

(* cw_nq: the next character, if there is one. *)
BootChar ==
  /\ MainAt("string")
  /\ boot' \in (IF func[CW_ADVANCE] THEN {"string", "done"} ELSE {"freq", "done"})
  /\ UNCHANGED << vars, loaded, raced >>

BootFreq ==
  /\ MainAt("freq")
  /\ freq' = [freq EXCEPT ![CW_ADVANCE] = Hyper]
  /\ boot' = "read"
  /\ UNCHANGED << millis, func, next_fire, waiting_events, timerOn, ctx, slot,
                  pc, loaded, raced >>

(* Fault: the deadline is not relative to the present. *)
BootReadAbsolute ==
  /\ MainAt("read")
  /\ loaded' = Hyper
  /\ boot' = "write"
  /\ UNCHANGED << vars, raced >>

BootRead ==
  /\ MainAt("read")
  /\ loaded' = Wrap(millis + Hyper)
  /\ boot' = "write"
  /\ UNCHANGED << vars, raced >>

BootWrite ==
  /\ MainAt("write")
  /\ next_fire' = [next_fire EXCEPT ![CW_ADVANCE] = loaded]
  /\ boot' = "func"
  /\ UNCHANGED << millis, func, freq, waiting_events, timerOn, ctx, slot, pc,
                  loaded, raced >>

BootFunc ==
  /\ MainAt("func")
  /\ func' = [func EXCEPT ![CW_ADVANCE] = TRUE]
  /\ boot' = "test"
  /\ UNCHANGED << millis, freq, next_fire, waiting_events, timerOn, ctx, slot,
                  pc, loaded, raced >>

(* Fault: hw_init started the timer already. *)
BootTestNothing ==
  /\ MainAt("test")
  /\ boot' = "load"
  /\ UNCHANGED << vars, loaded, raced >>

BootTest ==
  /\ MainAt("test")
  /\ timerOn' = (timerOn \/ waiting_events = {})
  /\ boot' = "load"
  /\ UNCHANGED << millis, func, freq, next_fire, waiting_events, ctx, slot, pc,
                  loaded, raced >>

(* waiting_events |= _BV(prio) is a load and a store. *)
BootLoad ==
  /\ MainAt("load")
  /\ loaded' = waiting_events
  /\ boot' = "store"
  /\ UNCHANGED << vars, raced >>

BootStore ==
  /\ MainAt("store")
  /\ waiting_events' = loaded \cup {CW_ADVANCE}
  /\ loaded' = 0
  /\ boot' = "string"
  /\ UNCHANGED << millis, func, freq, next_fire, timerOn, ctx, slot, pc, raced >>

BootStep ==
  \/ BootChar
  \/ BootFreq \/ BootRead \/ BootWrite \/ BootFunc
  \/ BootTest \/ BootLoad \/ BootStore
-------------------------------------------------------------------------------
(* An interrupt hits a window when                                         *)
(*  - the deadline passes before the event is there to be seen,            *)
(*  - the timer is stopped, with nothing registered any more, after main   *)
(*    has seen to it that it runs,                                         *)
(*  - the bits change after main has loaded them, or                       *)
(*  - a handler registers the same event itself.                           *)
Windows ==
  \/ boot \in {"write", "func"} /\ millis' # millis /\ millis' = loaded
  \/ boot \in {"load", "store"} /\ timerOn /\ ~timerOn'
  \/ boot = "store" /\ waiting_events' # waiting_events
  \/ boot \notin {"string", "done"} /\ func'[CW_ADVANCE]  # func[CW_ADVANCE]

(* Main does not enter its loop before it has queued the greeting. *)
Interrupted ==
  /\ Next
  /\ pc' \in {"toIdle", "toDown"} => boot = "done"
  /\ raced' = (raced \/ Windows)
  /\ UNCHANGED << boot, loaded >>

BootSpec == BootInit /\ [][BootStep \/ Interrupted]_bootVars
-------------------------------------------------------------------------------
(* Registering without a critical section is harmless outside the windows: *)
(* whatever interrupts main elsewhere, when it is through the records of   *)
(* tick.c agree, the timer runs and every deadline is kept                 *)
(* (cw-kbd.c:1066 and tick.c:60).                                          *)
BootHarmless ==
  ~raced /\ boot \in {"string", "done"} => RecordsAgree /\ OnTime
===============================================================================
