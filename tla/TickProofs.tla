------------------------------ MODULE TickProofs ------------------------------
(***************************************************************************)
(* Proofs about module Tick for every number of events, every width of     *)
(* millis and every set of periods shorter than a turn of millis, and      *)
(* then about module TickBoot, whose main registers an event in steps.     *)
(***************************************************************************)
EXTENDS TickBoot, TLAPS

(* Together with the type invariant and the agreement of the two records,  *)
(* OnTime needs that a registered event has a period the firmware uses:    *)
(* an event with period 0 would be left behind by its own firing.          *)
Periodic == \A e \in Registered : freq[e] \in Freqs

IInv == TypeOK /\ BitsMatch /\ TimerRuns /\ Periodic /\ OnTime

LEMMA WrapInRange ==
  ASSUME NEW x \in 0..(2 * M - 1)
  PROVE  Wrap(x) \in 0..(M - 1)
BY MillisAssumption DEF Wrap

-------------------------------------------------------------------------------
LEMMA TypeInit == Init => TypeOK
BY EventsAssumption, MillisAssumption DEF Init, TypeOK, Events

LEMMA TypeRegister ==
  ASSUME TypeOK, NEW e \in Events, NEW f \in Freqs, ms_tick_register(e, f)
  PROVE  TypeOK'
<1>1. Wrap(millis + f) \in 0..(M - 1)
  BY FreqsAssumption, MillisAssumption, WrapInRange DEF TypeOK
<1>. QED  BY <1>1 DEF TypeOK, ms_tick_register, Handling

LEMMA TypeFire ==
  ASSUME TypeOK, Fire
  PROVE  TypeOK'
<1>1. next_fire[slot] \in 0..(M - 1) /\ freq[slot] \in Freqs \cup {0}
  BY DEF TypeOK, Fire
<1>2. next_fire[slot] + freq[slot] \in 0..(2 * M - 1)
  <2>1. freq[slot] \in 0..(M - 1)
    <3>1. \A f \in Freqs : f \in 0..(M - 1)
      BY FreqsAssumption, MillisAssumption
    <3>2. 0 \in 0..(M - 1)
      BY MillisAssumption
    <3>. QED  BY <1>1, <3>1, <3>2
  <2>. QED  BY <1>1, <2>1, MillisAssumption
<1>3. Wrap(next_fire[slot] + freq[slot]) \in 0..(M - 1)
  BY <1>2, WrapInRange
<1>. QED  BY <1>3 DEF TypeOK, Fire

LEMMA TypeEnterTick ==
  ASSUME TypeOK, EnterTick
  PROVE  TypeOK'
<1>1. Wrap(millis + 1) \in 0..(M - 1)
  BY MillisAssumption, WrapInRange DEF TypeOK
<1>. QED  BY <1>1, EventsAssumption DEF TypeOK, EnterTick, Woken, Asleep

LEMMA TypeStep == TypeOK /\ [Next]_vars => TypeOK'
<1>. SUFFICES ASSUME TypeOK, [Next]_vars
              PROVE  TypeOK'
  OBVIOUS
<1>1. CASE EnterTick
  BY <1>1, TypeEnterTick
<1>2. CASE Skip
  BY <1>2, EventsAssumption DEF TypeOK, Skip, timers, Events
<1>3. CASE Fire
  BY <1>3, TypeFire
<1>4. CASE Return
  BY <1>4, EventsAssumption DEF TypeOK, Return, timers, Events
<1>5. CASE ExitTick
  BY <1>5 DEF TypeOK, ExitTick, timers
<1>6. CASE EnterHandler
  BY <1>6 DEF TypeOK, EnterHandler, timers, Woken, Asleep
<1>7. CASE ExitHandler
  BY <1>7 DEF TypeOK, ExitHandler, timers
<1>8. CASE MainTest
  BY <1>8 DEF TypeOK, MainTest, timers
<1>9. CASE MainSleep
  BY <1>9 DEF TypeOK, MainSleep, timers
<1>10. ASSUME NEW e \in Events, NEW f \in Freqs, ms_tick_register(e, f)
       PROVE  TypeOK'
  BY <1>10, TypeRegister
<1>11. ASSUME NEW e \in Events, ms_tick_unregister(e)
       PROVE  TypeOK'
  BY <1>11 DEF TypeOK, ms_tick_unregister, Handling
<1>12. CASE UNCHANGED vars
  BY <1>12 DEF TypeOK, vars, timers
<1>. QED  BY <1>1, <1>2, <1>3, <1>4, <1>5, <1>6, <1>7, <1>8, <1>9, <1>10,
             <1>11, <1>12 DEF Next, Calls

(* The fields of tick.c keep their ranges. *)
THEOREM TypeCorrect == Spec => []TypeOK
BY TypeInit, TypeStep, PTL DEF Spec

-------------------------------------------------------------------------------
(* The bits, the timer and the periods: only the two calls touch them. *)
Records == BitsMatch /\ TimerRuns /\ Periodic

LEMMA RecordsInit == Init => Records
BY DEF Init, Records, BitsMatch, TimerRuns, Periodic, Registered

LEMMA RecordsRegister ==
  ASSUME TypeOK, Records, NEW e \in Events, NEW f \in Freqs,
         ms_tick_register(e, f)
  PROVE  Records'
<1>1. Registered' = Registered \cup {e}
  BY DEF TypeOK, ms_tick_register, Registered
<1>2. Periodic'
  BY <1>1 DEF TypeOK, Records, Periodic, Registered, ms_tick_register
<1>. QED  BY <1>1, <1>2
          DEF TypeOK, Records, BitsMatch, TimerRuns, ms_tick_register

LEMMA RecordsUnregister ==
  ASSUME TypeOK, Records, NEW e \in Events, ms_tick_unregister(e)
  PROVE  Records'
<1>1. Registered' = Registered \ {e}
  BY DEF TypeOK, ms_tick_unregister, Registered
<1>2. Periodic'
  BY <1>1 DEF TypeOK, Records, Periodic, ms_tick_unregister
<1>3. BitsMatch'
  BY <1>1 DEF Records, BitsMatch, ms_tick_unregister
<1>4. TimerRuns'
  BY DEF Records, TimerRuns, ms_tick_unregister
<1>. QED  BY <1>2, <1>3, <1>4 DEF Records

LEMMA RecordsStep == TypeOK /\ Records /\ [Next]_vars => Records'
<1>. SUFFICES ASSUME TypeOK, Records, [Next]_vars
              PROVE  Records'
  OBVIOUS
<1>. USE DEF Records, BitsMatch, TimerRuns, Periodic, Registered
<1>1. ASSUME UNCHANGED << func, freq, waiting_events, timerOn >>
      PROVE  Records'
  BY <1>1
<1>2. CASE EnterTick \/ Fire
  BY <1>1, <1>2 DEF EnterTick, Fire
<1>3. CASE Skip \/ Return \/ ExitTick
  BY <1>1, <1>3 DEF Skip, Return, ExitTick, timers
<1>4. CASE EnterHandler \/ ExitHandler \/ MainTest \/ MainSleep
  BY <1>1, <1>4 DEF EnterHandler, ExitHandler, MainTest, MainSleep, timers
<1>5. ASSUME NEW e \in Events, Calls(e)
      PROVE  Records'
  BY <1>5, RecordsRegister, RecordsUnregister DEF Calls
<1>6. CASE UNCHANGED vars
  BY <1>1, <1>6 DEF vars, timers
<1>. QED  BY <1>2, <1>3, <1>4, <1>5, <1>6 DEF Next

-------------------------------------------------------------------------------
(* Distances on the circle of millis. *)
LEMMA BetweenRange ==
  ASSUME NEW m \in 0..(M - 1), NEW d \in 0..(M - 1)
  PROVE  /\ Between(m, d) \in 0..(M - 1)
         /\ Between(m, d) = 0 <=> m = d
BY MillisAssumption DEF Between

LEMMA BetweenTick ==
  ASSUME NEW m \in 0..(M - 1), NEW d \in 0..(M - 1), Between(m, d) # 0
  PROVE  Between(Wrap(m + 1), d) = Between(m, d) - 1
BY MillisAssumption DEF Between, Wrap

LEMMA BetweenFresh ==
  ASSUME NEW m \in 0..(M - 1), NEW f \in 1..(M - 1)
  PROVE  Between(m, Wrap(m + f)) = f
BY MillisAssumption DEF Between, Wrap

-------------------------------------------------------------------------------
(* How each step moves the deadlines.  Deadline(e) is what OnTime says of  *)
(* one event.                                                              *)
Deadline(e) == /\ Ahead(e) <= freq[e]
               /\ Ahead(e) = 0 => Unvisited(e)

LEMMA AheadRegister ==
  ASSUME TypeOK, NEW e \in Events, NEW f \in Freqs, ms_tick_register(e, f)
  PROVE  /\ Ahead(e)' = f
         /\ \A d \in Events \ {e} : Ahead(d)' = Ahead(d)
<1>1. next_fire'[e] = Wrap(millis + f) /\ millis' = millis
  BY DEF TypeOK, ms_tick_register
<1>2. Ahead(e)' = f
  BY <1>1, FreqsAssumption, BetweenFresh DEF TypeOK, Ahead
<1>3. \A d \in Events \ {e} : next_fire'[d] = next_fire[d]
  BY DEF TypeOK, ms_tick_register
<1>. QED  BY <1>1, <1>2, <1>3 DEF Ahead

LEMMA AheadFire ==
  ASSUME TypeOK, Periodic, Fire
  PROVE  /\ Ahead(slot) = 0
         /\ Ahead(slot)' = freq[slot]
         /\ \A d \in Events \ {slot} : Ahead(d)' = Ahead(d)
<1>1. /\ slot \in Events
      /\ next_fire[slot] = millis
      /\ freq[slot] \in 1..(M - 1)
  BY FreqsAssumption DEF Fire, Due, Periodic, Registered
<1>2. millis' = millis /\ slot' = slot
  BY DEF Fire
<1>3. next_fire'[slot] = Wrap(millis + freq[slot])
  BY <1>1 DEF TypeOK, Fire
<1>4. Ahead(slot) = 0
  BY <1>1, BetweenRange DEF TypeOK, Ahead
<1>5. Ahead(slot)' = freq[slot]
  BY <1>1, <1>2, <1>3, BetweenFresh DEF TypeOK, Ahead
<1>6. \A d \in Events \ {slot} : next_fire'[d] = next_fire[d]
  BY DEF TypeOK, Fire
<1>. QED  BY <1>2, <1>4, <1>5, <1>6 DEF Ahead

LEMMA AheadEnterTick ==
  ASSUME TypeOK, OnTime, EnterTick
  PROVE  \A e \in Registered : /\ Ahead(e) # 0
                               /\ Ahead(e)' = Ahead(e) - 1
<1>. SUFFICES ASSUME NEW e \in Registered
              PROVE  Ahead(e) # 0 /\ Ahead(e)' = Ahead(e) - 1
  OBVIOUS
<1>1. Ahead(e) # 0
  BY DEF OnTime, EnterTick, Unvisited
<1>2. /\ next_fire[e] \in 0..(M - 1)
      /\ millis \in 0..(M - 1)
      /\ millis' = Wrap(millis + 1)
      /\ next_fire' = next_fire
  BY DEF TypeOK, EnterTick, Registered
<1>. QED  BY <1>1, <1>2, BetweenTick DEF Ahead

LEMMA OnTimeInit == Init => OnTime
BY DEF Init, OnTime, Registered

LEMMA OnTimeRegister ==
  ASSUME TypeOK, OnTime, NEW e \in Events, NEW f \in Freqs,
         ms_tick_register(e, f)
  PROVE  OnTime'
<1>1. Registered' = Registered \cup {e}
  BY DEF TypeOK, ms_tick_register, Registered
<1>2. freq'[e] = f /\ \A d \in Events \ {e} : freq'[d] = freq[d]
  BY DEF TypeOK, ms_tick_register
<1>3. ctx' = ctx /\ slot' = slot
  BY DEF ms_tick_register
<1>4. Deadline(e)'
  BY <1>2, AheadRegister, FreqsAssumption, MillisAssumption DEF Deadline
<1>5. \A d \in Registered \ {e} : Deadline(d)'
  BY <1>2, <1>3, AheadRegister DEF OnTime, Deadline, Unvisited, Registered
<1>. QED  BY <1>1, <1>4, <1>5 DEF OnTime, Deadline

LEMMA OnTimeFire ==
  ASSUME TypeOK, Periodic, OnTime, Fire
  PROVE  OnTime'
<1>1. Registered' = Registered /\ freq' = freq
  BY DEF Fire, Registered
<1>2. slot' = slot /\ ctx = "tick" /\ ctx' = "callback" /\ slot \in Registered
  BY DEF Fire, Due, Registered
<1>3. Deadline(slot)'
  <2>1. freq[slot] \in 1..(M - 1)
    BY <1>2, FreqsAssumption DEF Periodic
  <2>2. Ahead(slot)' = freq[slot]
    BY AheadFire
  <2>3. freq'[slot'] = freq[slot]
    BY <1>1, <1>2
  <2>. QED  BY <2>1, <2>2, <2>3, MillisAssumption DEF Deadline
<1>4. \A d \in Registered \ {slot} : Deadline(d)'
  <2>. SUFFICES ASSUME NEW d \in Registered \ {slot}
                PROVE  Deadline(d)'
    OBVIOUS
  <2>1. Ahead(d)' = Ahead(d)
    BY AheadFire DEF Registered
  <2>2. Unvisited(d) => Unvisited(d)'
    BY <1>2, EventsAssumption DEF TypeOK, Unvisited, Registered, Events
  <2>. QED  BY <1>1, <2>1, <2>2 DEF OnTime, Deadline
<1>. QED  BY <1>1, <1>2, <1>3, <1>4 DEF OnTime, Deadline

LEMMA OnTimeStep == TypeOK /\ Periodic /\ OnTime /\ [Next]_vars => OnTime'
<1>. SUFFICES ASSUME TypeOK, Periodic, OnTime, [Next]_vars
              PROVE  OnTime'
  OBVIOUS
<1>1. CASE EnterTick
  <2>1. Registered' = Registered /\ freq' = freq
    BY <1>1 DEF EnterTick, Registered
  <2>2. \A e \in Registered : Ahead(e) \in 0..(M - 1) /\ freq[e] \in 1..(M - 1)
    BY BetweenRange, FreqsAssumption DEF TypeOK, Periodic, Registered, Ahead
  <2>3. \A e \in Registered : Unvisited(e)'
    BY <1>1, EventsAssumption DEF EnterTick, Unvisited, Registered, Events
  <2>4. \A e \in Registered : Ahead(e) <= freq[e]
    BY DEF OnTime
  <2>5. \A e \in Registered : Ahead(e)' <= freq[e]
    BY <1>1, <2>2, <2>4, AheadEnterTick, MillisAssumption
  <2>. QED  BY <2>1, <2>3, <2>5 DEF OnTime
<1>2. CASE Fire
  BY <1>2, OnTimeFire
<1>3. ASSUME NEW e \in Events, NEW f \in Freqs, ms_tick_register(e, f)
      PROVE  OnTime'
  BY <1>3, OnTimeRegister
<1>4. ASSUME NEW e \in Events, ms_tick_unregister(e)
      PROVE  OnTime'
  BY <1>4 DEF TypeOK, OnTime, ms_tick_unregister, Registered, Ahead, Unvisited
<1>5. ASSUME UNCHANGED << millis, func, freq, next_fire >>,
             \A e \in Events : Unvisited(e) /\ Ahead(e) = 0 => Unvisited(e)'
      PROVE  OnTime'
  BY <1>5 DEF OnTime, Registered, Ahead
<1>6. CASE Skip
  <2>1. \A e \in Registered : Unvisited(e) /\ Ahead(e) = 0 => Unvisited(e)'
    <3>. SUFFICES ASSUME NEW e \in Registered, Unvisited(e), Ahead(e) = 0
                  PROVE  Unvisited(e)'
      OBVIOUS
    <3>1. e # slot
      BY <1>6, BetweenRange DEF Skip, Due, TypeOK, Ahead, Registered
    <3>. QED  BY <1>6, <3>1, EventsAssumption
              DEF Skip, Unvisited, Registered, Events
  <2>. QED  BY <1>6, <2>1 DEF Skip, timers, OnTime, Registered, Ahead
<1>7. CASE Return
  <2>1. \A e \in Events : Unvisited(e) => Unvisited(e)'
    BY <1>7, EventsAssumption DEF Return, Unvisited, TypeOK, Events
  <2>. QED  BY <1>5, <1>7, <2>1 DEF Return, timers
<1>8. CASE ExitTick
  <2>1. \A e \in Events : ~Unvisited(e)
    BY <1>8, EventsAssumption DEF ExitTick, Unvisited, Events
  <2>. QED  BY <1>5, <1>8, <2>1 DEF ExitTick, timers
<1>9. CASE EnterHandler \/ ExitHandler
  BY <1>5, <1>9 DEF EnterHandler, ExitHandler, Unvisited, timers
<1>10. CASE MainTest \/ MainSleep
  BY <1>5, <1>10 DEF MainTest, MainSleep, Unvisited, timers
<1>11. CASE UNCHANGED vars
  BY <1>5, <1>11 DEF vars, Unvisited, timers
<1>. QED  BY <1>1, <1>2, <1>3, <1>4, <1>6, <1>7, <1>8, <1>9, <1>10, <1>11
          DEF Next, Calls

LEMMA InvariantInit == Init => IInv
BY TypeInit, RecordsInit, OnTimeInit DEF IInv, Records

LEMMA InvariantStep == IInv /\ [Next]_vars => IInv'
BY TypeStep, RecordsStep, OnTimeStep DEF IInv, Records

(* The sleep decision and the timer control never disagree with the pass   *)
(* about what is registered.                                               *)
THEOREM RecordsStayAgreed == Spec => []RecordsAgree
<1>1. IInv => RecordsAgree
  BY DEF IInv, RecordsAgree
<1>. QED  BY <1>1, InvariantInit, InvariantStep, PTL DEF Spec

(* No registered event is ever left behind by the circle of millis. *)
THEOREM NeverLeftBehind == Spec => []OnTime
<1>1. IInv => OnTime
  BY DEF IInv
<1>. QED  BY <1>1, InvariantInit, InvariantStep, PTL DEF Spec

-------------------------------------------------------------------------------
(* Refinement: the deadlines seen as countdowns. *)
ArmedPeriod == [e \in Events |-> IF func[e] THEN freq[e] ELSE 0]
Left == [e \in Events |-> IF func[e] THEN Ahead(e) ELSE 0]

LEMMA TimersInit == Init => Timers!Init
BY DEF Init, Timers!Init, Registered

LEMMA TimersRegister ==
  ASSUME IInv, NEW e \in Events, NEW f \in Freqs, ms_tick_register(e, f)
  PROVE  Timers!Arm(e, f)
<1>1. func' = [func EXCEPT ![e] = TRUE] /\ freq' = [freq EXCEPT ![e] = f]
  BY DEF ms_tick_register
<1>2. Registered' = Registered \cup {e}
  BY <1>1 DEF IInv, TypeOK, Registered
<1>3. ArmedPeriod' = [ArmedPeriod EXCEPT ![e] = f]
  BY <1>1 DEF IInv, TypeOK, ArmedPeriod
<1>4. /\ Ahead(e)' = f
      /\ \A d \in Events \ {e} : Ahead(d)' = Ahead(d)
  BY AheadRegister DEF IInv
<1>5. Left' = [Left EXCEPT ![e] = f]
  BY <1>1, <1>4 DEF IInv, TypeOK, Left
<1>. QED  BY <1>2, <1>3, <1>5 DEF Timers!Arm, ArmedPeriod, Left

LEMMA TimersUnregister ==
  ASSUME IInv, NEW e \in Events, ms_tick_unregister(e)
  PROVE  Timers!Cancel(e)
<1>1. /\ func' = [func EXCEPT ![e] = FALSE]
      /\ UNCHANGED << millis, freq, next_fire >>
  BY DEF ms_tick_unregister
<1>2. Registered' = Registered \ {e}
  BY <1>1 DEF IInv, TypeOK, Registered
<1>3. ArmedPeriod' = [ArmedPeriod EXCEPT ![e] = 0]
  BY <1>1 DEF IInv, TypeOK, ArmedPeriod
<1>4. Left' = [Left EXCEPT ![e] = 0]
  BY <1>1 DEF IInv, TypeOK, Left, Ahead
<1>. QED  BY <1>2, <1>3, <1>4 DEF Timers!Cancel, ArmedPeriod, Left

LEMMA TimersEnterTick ==
  ASSUME IInv, EnterTick
  PROVE  Timers!Elapse
<1>1. UNCHANGED << func, freq >>
  BY DEF EnterTick
<1>2. Registered' = Registered /\ ArmedPeriod' = ArmedPeriod
  BY <1>1 DEF Registered, ArmedPeriod
<1>3. \A e \in Registered : Ahead(e) # 0 /\ Ahead(e)' = Ahead(e) - 1
  BY AheadEnterTick DEF IInv
<1>4. \A e \in Events : ~(e \in Registered /\ Left[e] = 0)
  BY <1>3 DEF Left, Registered
<1>5. Left' = [e \in Events |-> IF e \in Registered THEN Left[e] - 1 ELSE 0]
  BY <1>1, <1>3 DEF Left, Registered
<1>. QED  BY <1>2, <1>4, <1>5
          DEF Timers!Elapse, Timers!Expired, ArmedPeriod, Left

LEMMA TimersFire ==
  ASSUME IInv, Fire, NEW e \in Events, e = slot
  PROVE  Timers!Fire(e)
<1>1. UNCHANGED << func, freq, slot >> /\ e \in Registered /\ ctx = "tick"
  BY DEF Fire, Due, Registered
<1>2. Registered' = Registered /\ ArmedPeriod' = ArmedPeriod
  BY <1>1 DEF Registered, ArmedPeriod
<1>3. /\ Ahead(e) = 0
      /\ Ahead(e)' = freq[e]
      /\ \A d \in Events \ {e} : Ahead(d)' = Ahead(d)
  BY <1>1, AheadFire DEF IInv
<1>4. e \in Registered /\ Left[e] = 0
  BY <1>1, <1>3 DEF Left, Registered
<1>5. \A d \in Events : d < e => ~(d \in Registered /\ Left[d] = 0)
  BY <1>1, EventsAssumption
     DEF IInv, OnTime, Unvisited, Left, Registered, Events
<1>6. Left' = [Left EXCEPT ![e] = ArmedPeriod[e]]
  BY <1>1, <1>3 DEF Left, ArmedPeriod, Registered
<1>. QED  BY <1>2, <1>4, <1>5, <1>6
          DEF Timers!Fire, Timers!Expired, ArmedPeriod, Left

LEMMA TimersStep == IInv /\ [Next]_vars => [Timers!Next]_(Timers!vars)
<1>. SUFFICES ASSUME IInv, [Next]_vars
              PROVE  [Timers!Next]_(Timers!vars)
  OBVIOUS
<1>1. CASE EnterTick
  BY <1>1, TimersEnterTick DEF Timers!Next
<1>2. CASE Fire
  <2>1. PICK e \in Events : e = slot
    BY <1>2 DEF Fire
  <2>2. Timers!Fire(e)
    BY <1>2, <2>1, TimersFire
  <2>. QED  BY <2>2 DEF Timers!Next
<1>3. ASSUME NEW e \in Events, NEW f \in Freqs, ms_tick_register(e, f)
      PROVE  Timers!Next
  BY <1>3, TimersRegister DEF Timers!Next
<1>4. ASSUME NEW e \in Events, ms_tick_unregister(e)
      PROVE  Timers!Next
  BY <1>4, TimersUnregister DEF Timers!Next
<1>5. ASSUME UNCHANGED << millis, func, freq, next_fire >>
      PROVE  UNCHANGED Timers!vars
  BY <1>5 DEF Timers!vars, Registered, Ahead
<1>6. CASE Skip \/ Return \/ ExitTick
  BY <1>5, <1>6 DEF Skip, Return, ExitTick, timers
<1>7. CASE EnterHandler \/ ExitHandler \/ MainTest \/ MainSleep
  BY <1>5, <1>7 DEF EnterHandler, ExitHandler, MainTest, MainSleep, timers
<1>8. CASE UNCHANGED vars
  BY <1>5, <1>8 DEF vars, timers
<1>. QED  BY <1>1, <1>2, <1>3, <1>4, <1>6, <1>7, <1>8 DEF Next, Calls

(* tick.c is a set of periodic timers: every event fires exactly a period  *)
(* after it was registered or last fired, in order of priority.            *)
THEOREM TickIsPeriodicTimers == Spec => ImplementsTimers
<1>1. Spec => []IInv
  BY InvariantInit, InvariantStep, PTL DEF Spec
<1>. QED  BY <1>1, TimersInit, TimersStep, PTL
          DEF Spec, ImplementsTimers, Timers!Spec

-------------------------------------------------------------------------------
(* The registration by main.  Until its last step the bit of its event may *)
(* be missing, and the values main holds are good as long as no interrupt  *)
(* hits a window.                                                          *)
Registering == boot \in {"test", "load", "store"}

BootTypeOK ==
  /\ boot \in {"string", "done", "freq", "read", "write", "func", "test",
               "load", "store"}
  /\ raced \in BOOLEAN
  /\ boot \in {"write", "func"} => loaded \in 0..(M - 1)
  /\ boot = "store" => loaded \subseteq Events

BitsOwed == IF Registering THEN waiting_events \cup {CW_ADVANCE} = Registered
                           ELSE BitsMatch

Held ==
  /\ boot \in {"freq", "read", "write", "func"} => ~func[CW_ADVANCE]
  /\ boot \in {"read", "write", "func"} => freq[CW_ADVANCE] = Hyper
  /\ boot \in {"write", "func"} => Between(millis, loaded) \in 1..Hyper
  /\ boot = "func" => next_fire[CW_ADVANCE] = loaded
  /\ boot \in {"load", "store"} => timerOn
  /\ boot = "store" => loaded = waiting_events

Sound == TimerRuns /\ Periodic /\ OnTime /\ BitsOwed /\ Held

BootInv == TypeOK /\ BootTypeOK /\ (~raced => Sound)

LEMMA BootInvInit == BootInit => BootInv
<1>. SUFFICES ASSUME BootInit PROVE BootInv
  OBVIOUS
<1>1. IInv
  BY InvariantInit DEF BootInit
<1>2. BootTypeOK /\ BitsOwed /\ Held
  BY <1>1 DEF BootInit, BootTypeOK, BitsOwed, Held, Registering, IInv
<1>. QED  BY <1>1, <1>2 DEF BootInv, Sound, IInv

(* The types of the steps of main. *)
LEMMA BootTypeStep == TypeOK /\ BootTypeOK /\ BootStep => TypeOK' /\ BootTypeOK'
<1>. SUFFICES ASSUME TypeOK, BootTypeOK, BootStep
              PROVE  TypeOK' /\ BootTypeOK'
  OBVIOUS
<1>0. CW_ADVANCE \in Events /\ Hyper \in Freqs /\ Hyper \in 1..(M - 1)
  BY AdvanceAssumption, FreqsAssumption
<1>1. CASE BootChar
  BY <1>1 DEF BootChar, TypeOK, BootTypeOK, vars, timers
<1>2. CASE BootFreq
  BY <1>0, <1>2 DEF BootFreq, TypeOK, BootTypeOK
<1>3. CASE BootRead
  <2>1. Wrap(millis + Hyper) \in 0..(M - 1)
    BY <1>0, MillisAssumption, WrapInRange DEF TypeOK
  <2>. QED  BY <1>3, <2>1 DEF BootRead, TypeOK, BootTypeOK, vars, timers
<1>4. CASE BootWrite
  BY <1>0, <1>4 DEF BootWrite, TypeOK, BootTypeOK, MainAt
<1>5. CASE BootFunc
  BY <1>0, <1>5 DEF BootFunc, TypeOK, BootTypeOK
<1>6. CASE BootTest
  BY <1>6 DEF BootTest, TypeOK, BootTypeOK
<1>7. CASE BootLoad
  BY <1>7 DEF BootLoad, TypeOK, BootTypeOK, vars, timers
<1>8. CASE BootStore
  BY <1>0, <1>8 DEF BootStore, TypeOK, BootTypeOK, MainAt
<1>. QED  BY <1>1, <1>2, <1>3, <1>4, <1>5, <1>6, <1>7, <1>8 DEF BootStep

(* The event of main is registered with the deadline main stored.          *)
LEMMA SoundFunc ==
  ASSUME TypeOK, Sound, BootFunc
  PROVE  Sound'
<1>0. CW_ADVANCE \in Events /\ Hyper \in Freqs /\ Hyper \in 1..(M - 1)
  BY AdvanceAssumption, FreqsAssumption
<1>1. /\ boot = "func" /\ boot' = "test" /\ ctx = "main"
      /\ UNCHANGED << millis, freq, next_fire, waiting_events, timerOn, ctx,
                      slot >>
  BY DEF BootFunc, MainAt
<1>2. Registered' = Registered \cup {CW_ADVANCE}
  BY <1>0 DEF BootFunc, TypeOK, Registered
<1>3. TimerRuns'
  BY <1>1 DEF Sound, TimerRuns
<1>4. Periodic'
  BY <1>0, <1>1, <1>2 DEF Sound, Periodic, Held
<1>5. OnTime'
  <2>1. Ahead(CW_ADVANCE) \in 1..Hyper /\ freq[CW_ADVANCE] = Hyper
    BY <1>1 DEF Sound, Held, Ahead
  <2>2. \A e \in Events : (Ahead(e)' = Ahead(e)) /\ (Unvisited(e)' <=> Unvisited(e))
    BY <1>1 DEF Ahead, Unvisited
  <2>3. Deadline(CW_ADVANCE)'
    BY <1>0, <1>1, <2>1, <2>2 DEF Deadline
  <2>4. \A d \in Registered : Deadline(d)'
    BY <1>1, <2>2 DEF Sound, OnTime, Deadline, Registered
  <2>. QED  BY <1>2, <2>3, <2>4 DEF OnTime, Deadline
<1>6. BitsOwed'
  BY <1>1, <1>2 DEF Sound, BitsOwed, BitsMatch, Registering
<1>7. Held'
  BY <1>1 DEF Held
<1>. QED  BY <1>3, <1>4, <1>5, <1>6, <1>7 DEF Sound

LEMMA SoundBootStep == TypeOK /\ BootTypeOK /\ Sound /\ BootStep => Sound'
<1>. SUFFICES ASSUME TypeOK, BootTypeOK, Sound, BootStep
              PROVE  Sound'
  OBVIOUS
<1>0. CW_ADVANCE \in Events /\ Hyper \in Freqs /\ Hyper \in 1..(M - 1)
  BY AdvanceAssumption, FreqsAssumption
<1>. USE DEF Sound
<1>1. ASSUME UNCHANGED << millis, func, freq, next_fire, ctx, slot >>
      PROVE  Periodic' /\ OnTime'
  BY <1>1 DEF Periodic, OnTime, Registered, Ahead, Unvisited
<1>2. CASE BootChar
  <2>1. TimerRuns' /\ BitsOwed' /\ Held'
    BY <1>2 DEF BootChar, MainAt, TimerRuns, BitsOwed, BitsMatch, Registering,
                Registered, Held, vars, timers
  <2>. QED  BY <1>1, <1>2, <2>1 DEF BootChar, vars, timers
<1>3. CASE BootFreq
  <2>1. /\ boot = "freq" /\ boot' = "read" /\ ~func[CW_ADVANCE]
        /\ UNCHANGED << millis, func, next_fire, waiting_events, timerOn, ctx,
                        slot >>
    BY <1>3 DEF BootFreq, MainAt, Held
  <2>2. freq'[CW_ADVANCE] = Hyper /\ \A e \in Registered : freq'[e] = freq[e]
    BY <1>0, <1>3, <2>1 DEF BootFreq, TypeOK, Registered
  <2>3. TimerRuns' /\ BitsOwed' /\ Held'
    BY <2>1, <2>2 DEF TimerRuns, BitsOwed, BitsMatch, Registering, Registered,
                      Held
  <2>4. Periodic'
    BY <2>1, <2>2 DEF Periodic, Registered
  <2>5. OnTime'
    BY <2>1, <2>2 DEF OnTime, Registered, Ahead, Unvisited
  <2>. QED  BY <2>3, <2>4, <2>5
<1>4. CASE BootRead
  <2>1. Between(millis, Wrap(millis + Hyper)) = Hyper
    BY <1>0, BetweenFresh DEF TypeOK
  <2>2. Held'
    BY <1>0, <1>4, <2>1 DEF BootRead, MainAt, Held, vars, timers
  <2>3. TimerRuns' /\ BitsOwed'
    BY <1>4 DEF BootRead, MainAt, TimerRuns, BitsOwed, BitsMatch, Registering,
                Registered, vars, timers
  <2>. QED  BY <1>1, <1>4, <2>2, <2>3 DEF BootRead, vars, timers
<1>5. CASE BootWrite
  <2>1. /\ boot = "write" /\ boot' = "func" /\ ~func[CW_ADVANCE]
        /\ UNCHANGED << millis, func, freq, waiting_events, timerOn, ctx, slot,
                        loaded >>
    BY <1>5 DEF BootWrite, MainAt, Held
  <2>2. /\ next_fire'[CW_ADVANCE] = loaded
        /\ \A e \in Registered : next_fire'[e] = next_fire[e]
    BY <1>0, <1>5, <2>1 DEF BootWrite, TypeOK, Registered
  <2>3. TimerRuns' /\ BitsOwed' /\ Held'
    BY <2>1, <2>2 DEF TimerRuns, BitsOwed, BitsMatch, Registering, Registered,
                      Held
  <2>4. Periodic'
    BY <2>1 DEF Periodic, Registered
  <2>5. OnTime'
    BY <2>1, <2>2 DEF OnTime, Registered, Ahead, Unvisited
  <2>. QED  BY <2>3, <2>4, <2>5
<1>6. CASE BootFunc
  BY <1>6, SoundFunc
<1>7. CASE BootTest
  <2>1. TimerRuns' /\ BitsOwed' /\ Held'
    BY <1>7 DEF BootTest, MainAt, TimerRuns, BitsOwed, Registering, Registered,
                Held
  <2>. QED  BY <1>1, <1>7, <2>1 DEF BootTest
<1>8. CASE BootLoad
  <2>1. TimerRuns' /\ BitsOwed' /\ Held'
    BY <1>8 DEF BootLoad, MainAt, TimerRuns, BitsOwed, Registering, Registered,
                Held, vars, timers
  <2>. QED  BY <1>1, <1>8, <2>1 DEF BootLoad, vars, timers
<1>9. CASE BootStore
  <2>1. TimerRuns' /\ BitsOwed' /\ Held'
    BY <1>9 DEF BootStore, MainAt, TimerRuns, BitsOwed, BitsMatch, Registering,
                Registered, Held
  <2>. QED  BY <1>1, <1>9, <2>1 DEF BootStore
<1>. QED  BY <1>2, <1>3, <1>4, <1>5, <1>6, <1>7, <1>8, <1>9 DEF BootStep

(* What an interrupt does to the records while a bit is owed.              *)
LEMMA CallsEffect ==
  ASSUME TypeOK, NEW e \in Events, Calls(e)
  PROVE  \/ /\ Registered' = Registered \cup {e}
            /\ waiting_events' = waiting_events \cup {e}
            /\ timerOn' = (timerOn \/ waiting_events = {})
            /\ \A d \in Events \ {e} : freq'[d] = freq[d]
            /\ freq'[e] \in Freqs
            /\ func'[e] = TRUE
         \/ /\ Registered' = Registered \ {e}
            /\ waiting_events' = waiting_events \ {e}
            /\ timerOn' = (timerOn /\ waiting_events' # {})
            /\ freq' = freq
            /\ func'[e] = FALSE
BY DEF TypeOK, Calls, ms_tick_register, ms_tick_unregister, Registered

LEMMA OthersEffect ==
  ASSUME TypeOK, Next, \A e \in Events : ~Calls(e)
  PROVE  UNCHANGED << func, freq, waiting_events, timerOn >>
BY DEF Next, EnterTick, Skip, Fire, Return, ExitTick, EnterHandler, ExitHandler,
       MainTest, MainSleep, timers

LEMMA PeriodicStep ==
  ASSUME TypeOK, Periodic, TimerRuns, Next
  PROVE  Periodic' /\ TimerRuns'
<1>1. ASSUME NEW e \in Events, Calls(e)
      PROVE  Periodic' /\ TimerRuns'
  <2>1. Periodic'
    BY <1>1, CallsEffect DEF Periodic, Registered
  <2>2. TimerRuns'
    BY <1>1, CallsEffect DEF TimerRuns
  <2>. QED  BY <2>1, <2>2
<1>2. CASE \A e \in Events : ~Calls(e)
  BY <1>2, OthersEffect DEF Periodic, TimerRuns, Registered
<1>. QED  BY <1>1, <1>2

LEMMA OwedStep ==
  ASSUME TypeOK, BitsOwed, Next, UNCHANGED boot,
         Registering => func'[CW_ADVANCE] = func[CW_ADVANCE]
  PROVE  BitsOwed'
<1>0. CW_ADVANCE \in Events
  BY AdvanceAssumption
<1>1. ASSUME NEW e \in Events, Calls(e)
      PROVE  BitsOwed'
  <2>1. CASE Registering
    <3>1. CW_ADVANCE \in Registered /\ func[CW_ADVANCE] = TRUE
      BY <2>1 DEF BitsOwed, Registered, TypeOK
    <3>2. func'[CW_ADVANCE] = TRUE
      BY <2>1, <3>1
    <3>3. waiting_events' \cup {CW_ADVANCE} = Registered'
      BY <1>1, <2>1, <3>1, <3>2, CallsEffect DEF BitsOwed
    <3>. QED  BY <2>1, <3>3 DEF BitsOwed, Registering
  <2>2. CASE ~Registering
    BY <1>1, <2>2, CallsEffect DEF BitsOwed, BitsMatch, Registering
  <2>. QED  BY <2>1, <2>2
<1>2. CASE \A e \in Events : ~Calls(e)
  BY <1>2, OthersEffect DEF BitsOwed, BitsMatch, Registering, Registered
<1>. QED  BY <1>1, <1>2

(* Outside the windows an interrupt leaves main what it holds.             *)
LEMMA HeldStep ==
  ASSUME TypeOK, BootTypeOK, Held, Next, UNCHANGED << boot, loaded >>, ~Windows
  PROVE  Held'
<1>0. CW_ADVANCE \in Events /\ Hyper \in Freqs /\ Hyper \in 1..(M - 1)
  BY AdvanceAssumption, FreqsAssumption
<1>1. boot \in {"freq", "read", "write", "func"} => ~func'[CW_ADVANCE]
  BY DEF Held, Windows
<1>2. ASSUME boot \in {"freq", "read", "write", "func"}
      PROVE  /\ freq'[CW_ADVANCE] = freq[CW_ADVANCE]
             /\ next_fire'[CW_ADVANCE] = next_fire[CW_ADVANCE]
  <2>0. ~func[CW_ADVANCE] /\ ~func'[CW_ADVANCE]
    BY <1>1, <1>2 DEF Held
  <2>1. ASSUME NEW e \in Events, NEW f \in Freqs, ms_tick_register(e, f)
        PROVE  /\ freq'[CW_ADVANCE] = freq[CW_ADVANCE]
               /\ next_fire'[CW_ADVANCE] = next_fire[CW_ADVANCE]
    <3>1. e # CW_ADVANCE
      BY <2>0, <2>1 DEF ms_tick_register, TypeOK
    <3>. QED  BY <1>0, <2>1, <3>1 DEF ms_tick_register, TypeOK
  <2>2. CASE Fire
    <3>1. slot # CW_ADVANCE
      BY <2>0, <2>2 DEF Fire, Due
    <3>. QED  BY <1>0, <2>2, <3>1 DEF Fire, TypeOK
  <2>3. CASE UNCHANGED << freq, next_fire >>
    BY <2>3
  <2>. QED  BY <2>1, <2>2, <2>3
            DEF Next, Calls, EnterTick, Skip, Return, ExitTick, EnterHandler,
                ExitHandler, MainTest, MainSleep, ms_tick_unregister, timers
<1>3. ASSUME boot \in {"write", "func"}
      PROVE  Between(millis', loaded) \in 1..Hyper
  <2>1. /\ loaded \in 0..(M - 1) /\ millis \in 0..(M - 1)
        /\ Between(millis, loaded) \in 1..Hyper
    BY <1>3 DEF Held, BootTypeOK, TypeOK
  <2>2. CASE millis' = millis
    BY <2>1, <2>2
  <2>3. CASE millis' # millis
    <3>1. millis' = Wrap(millis + 1) /\ millis' # loaded
      BY <1>3, <2>3 DEF Windows, Next, Calls, EnterTick, Fire, Skip, Return,
         ExitTick, EnterHandler, ExitHandler, MainTest, MainSleep,
         ms_tick_register, ms_tick_unregister, timers
    <3>2. Between(millis', loaded) = Between(millis, loaded) - 1
      BY <2>1, <3>1, BetweenTick
    <3>3. millis' \in 0..(M - 1)
      BY <2>1, <3>1, MillisAssumption, WrapInRange
    <3>4. Between(millis', loaded) # 0
      BY <2>1, <3>1, <3>3, BetweenRange
    <3>. QED  BY <1>0, <2>1, <3>2, <3>4
  <2>. QED  BY <2>2, <2>3
<1>4. boot \in {"load", "store"} => timerOn'
  BY DEF Held, Windows
<1>5. boot = "store" => waiting_events' = waiting_events
  BY DEF Windows
<1>. QED  BY <1>1, <1>2, <1>3, <1>4, <1>5 DEF Held

LEMMA BootInvStep == BootInv /\ [BootStep \/ Interrupted]_bootVars => BootInv'
<1>. SUFFICES ASSUME BootInv, [BootStep \/ Interrupted]_bootVars
              PROVE  BootInv'
  OBVIOUS
<1>1. CASE BootStep
  <2>1. raced' = raced
    BY <1>1 DEF BootStep, BootChar, BootFreq, BootRead, BootWrite, BootFunc,
                BootTest, BootLoad, BootStore
  <2>2. TypeOK' /\ BootTypeOK'
    BY <1>1, BootTypeStep DEF BootInv
  <2>3. ~raced' => Sound'
    BY <1>1, <2>1, SoundBootStep DEF BootInv
  <2>. QED  BY <2>2, <2>3 DEF BootInv
<1>2. CASE Interrupted
  <2>1. Next /\ UNCHANGED << boot, loaded >> /\ raced' = (raced \/ Windows)
    BY <1>2 DEF Interrupted
  <2>2. TypeOK'
    BY <2>1, TypeStep DEF BootInv
  <2>3. BootTypeOK'
    <3>1. raced' \in BOOLEAN
      BY <2>1 DEF BootInv, BootTypeOK
    <3>. QED  BY <2>1, <3>1 DEF BootInv, BootTypeOK
  <2>4. ASSUME ~raced'
        PROVE  Sound'
    <3>1. ~raced /\ ~Windows
      BY <2>1, <2>4, Zenon
    <3>2. TypeOK /\ BootTypeOK /\ Sound
      BY <3>1 DEF BootInv
    <3>3. Periodic' /\ TimerRuns'
      BY <2>1, <3>2, PeriodicStep DEF Sound
    <3>4. OnTime'
      BY <2>1, <3>2, OnTimeStep DEF Sound
    <3>5. Registering => func'[CW_ADVANCE] = func[CW_ADVANCE]
      BY <3>1 DEF Windows, Registering
    <3>6. BitsOwed'
      BY <2>1, <3>2, <3>5, OwedStep DEF Sound
    <3>7. Held'
      BY <2>1, <3>1, <3>2, HeldStep DEF Sound
    <3>. QED  BY <3>3, <3>4, <3>6, <3>7 DEF Sound
  <2>. QED  BY <2>2, <2>3, <2>4 DEF BootInv
<1>3. CASE UNCHANGED bootVars
  BY <1>3 DEF bootVars, booting, vars, timers, BootInv, TypeOK, BootTypeOK,
     Sound, TimerRuns, Periodic, OnTime, BitsOwed, BitsMatch, Registering,
     Registered, Held, Ahead, Unvisited
<1>. QED  BY <1>1, <1>2, <1>3

(* Main registers its event outside a critical section, in eight steps,    *)
(* and unless an interrupt hits one of the four windows, tick.c is as good *)
(* as if it had been called in one.                                        *)
THEOREM BootIsHarmless == BootSpec => []BootHarmless
<1>1. BootInv => BootHarmless
  BY DEF BootInv, Sound, BootHarmless, RecordsAgree, BitsOwed, Registering
<1>. QED  BY <1>1, BootInvInit, BootInvStep, PTL DEF BootSpec
===============================================================================
