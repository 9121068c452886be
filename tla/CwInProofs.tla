------------------------------ MODULE CwInProofs ------------------------------
(***************************************************************************)
(* Proofs about module CwIn, for every set of keying modes and speeds and  *)
(* for paddles that bounce as they like.                                   *)
(***************************************************************************)
EXTENDS CwIn, TLAPS

Elements == {DIT, DAH}
Ticks == (-MaxTicks - 1)..MaxTicks

(* The keying actions, by what triggers them. *)
Ticked == IdleTick \/ (\E p \in Paddles : HeldTick(p)) \/ SqueezedTick
Handling(p) == EnterISR(p) \/ ISR(p)

Settle == cw_set_keying_mode \/ cw_set_left_key
          \/ cw_set_speed \/ cw_set_word_space
-------------------------------------------------------------------------------
LEMMA PaddleFacts ==
  ASSUME NEW p \in Paddles
  PROVE  /\ Opposite(p) \in Paddles
         /\ Opposite(p) # p
         /\ \A x \in Paddles : x = p \/ x = Opposite(p)
         /\ p \notin {"idle", "both", "none"}
BY DEF Paddles, Opposite

LEMMA KeyedFacts ==
  ASSUME TypeOK, NEW p \in Paddles
  PROVE  /\ Keyed(p) \in Elements
         /\ Keyed(Opposite(p)) = Other(Keyed(p))
         /\ Keyed(Opposite(p)) \in Elements
         /\ Keyed(Opposite(p)) # Keyed(p)
BY SettingsAssumption
   DEF TypeOK, Keyed, Opposite, Other, Elements, Paddles, DIT, DAH

LEMMA OtherFacts ==
  ASSUME NEW d \in Elements
  PROVE  Other(d) \in Elements /\ Other(Other(d)) = d /\ Other(d) # d
BY DEF Other, Elements, DIT, DAH

LEMMA LenFacts ==
  ASSUME TypeOK
  PROVE  /\ didah_len(DIT) = 2 * dit_len
         /\ didah_len(DAH) = 4 * dit_len
         /\ didah_len(SPACE) = 6 * dit_len
         /\ dit_len \in Nat \ {0}
         /\ 6 * dit_len < MaxTicks
         /\ 2 * dit_len < IdleSleep
<1>1. dit_len \in DitLens /\ dit_len \in Nat \ {0}
  BY SettingsAssumption DEF TypeOK
<1>2. 6 * dit_len < MaxTicks /\ 2 * dit_len < IdleSleep
  BY <1>1, TicksAssumption
<1>3. /\ didah_len(DIT) = 2 * dit_len
      /\ didah_len(DAH) = 4 * dit_len
      /\ didah_len(SPACE) = 6 * dit_len
  BY DEF didah_len, DIT, DAH, SPACE
<1>. QED  BY <1>1, <1>2, <1>3

LEMMA IncType == ASSUME NEW k \in Ticks PROVE Inc(k) \in Ticks
BY TicksAssumption DEF Inc, Ticks

LEMMA EnqueueType ==
  ASSUME TypeOK, NEW e \in {DIT, DAH, SPACE, None}, Enqueue(e)
  PROVE  /\ emitted' \in {DIT, DAH, SPACE, None}
         /\ lastOut' \in {DIT, DAH, None}
         /\ open' \in BOOLEAN
BY DEF TypeOK, Enqueue

(* TypeOK, in the parts the actions disturb. *)
KeyingType ==
  /\ cstate \in Paddles \cup {"idle", "both"}
  /\ keyed_ticks \in [{DIT, DAH, SPACE} -> Ticks]
  /\ last_keyed \in {DIT, DAH, SPACE}
  /\ (cstate = "both" => last_keyed \in Elements)
  /\ enqueued_spaces \in 0..2
OutputType ==
  /\ emitted \in {DIT, DAH, SPACE, None}
  /\ lastOut \in {DIT, DAH, None}
  /\ open \in BOOLEAN
EdgeType ==
  /\ pin \in [Paddles -> BOOLEAN]
  /\ flag \in [Paddles -> BOOLEAN]
  /\ isr \in Paddles \cup {"none"}
  /\ port \in [Elements -> BOOLEAN]
  /\ swapped \in [Elements -> BOOLEAN]
SettingType ==
  /\ keying_mode \in Modes
  /\ left_didah \in LeftKeys
  /\ dit_len \in DitLens
  /\ word_space \in BOOLEAN
TimeType ==
  /\ parse \in BOOLEAN
  /\ tick_events \in 0..(IdleSleep - 1)

LEMMA TypeParts ==
  TypeOK <=> KeyingType /\ OutputType /\ EdgeType /\ SettingType /\ TimeType
BY DEF TypeOK, KeyingType, OutputType, EdgeType, SettingType, TimeType,
       Elements, Ticks

LEMMA TypePartsNext ==
  KeyingType' /\ OutputType' /\ EdgeType' /\ SettingType' /\ TimeType'
  => TypeOK'
BY DEF TypeOK, KeyingType, OutputType, EdgeType, SettingType, TimeType,
       Elements, Ticks

LEMMA IdleTickType ==
  TypeOK /\ IdleTick => KeyingType' /\ OutputType' /\ TimeType'
<1>. SUFFICES ASSUME TypeOK, IdleTick
              PROVE  KeyingType' /\ OutputType' /\ TimeType'
  OBVIOUS
<1>. DEFINE k == Inc(keyed_ticks[SPACE])
<1>1. k \in Ticks /\ 0 \in Ticks /\ keyed_ticks[SPACE] \in Ticks
  BY IncType, TypeParts, TicksAssumption DEF KeyingType, Ticks
<1>2. OutputType'
  BY EnqueueType DEF IdleTick, OutputType
<1>3. TimeType'
  BY TypeParts, TicksAssumption, LenFacts DEF IdleTick, TimeType
<1>4. keyed_ticks' \in [{DIT, DAH, SPACE} -> Ticks]
  BY <1>1, TypeParts DEF IdleTick, KeyingType
<1>5. enqueued_spaces' \in 0..2
  BY TypeParts DEF IdleTick, KeyingType, Counts
<1>6. cstate' = "idle" /\ last_keyed' = SPACE
  BY DEF IdleTick, Idle
<1>. QED  BY <1>2, <1>3, <1>4, <1>5, <1>6 DEF KeyingType

LEMMA HeldTickType ==
  ASSUME NEW p \in Paddles, TypeOK, HeldTick(p)
  PROVE  KeyingType' /\ OutputType' /\ TimeType'
<1>. DEFINE d == Keyed(p)
<1>1. d \in Elements /\ Inc(keyed_ticks[d]) \in Ticks /\ 0 \in Ticks
  BY KeyedFacts, IncType, TypeParts, TicksAssumption
     DEF KeyingType, Ticks, Elements
<1>2. OutputType'
  BY <1>1, EnqueueType DEF HeldTick, OutputType, Elements
<1>3. keyed_ticks' \in [{DIT, DAH, SPACE} -> Ticks]
  BY <1>1, TypeParts DEF HeldTick, KeyingType
<1>4. last_keyed' \in {DIT, DAH, SPACE} /\ cstate' = p
  BY <1>1, TypeParts DEF HeldTick, KeyingType, Elements
<1>5. TimeType' /\ enqueued_spaces' \in 0..2
  BY TypeParts DEF HeldTick, TimeType, KeyingType
<1>. QED  BY <1>2, <1>3, <1>4, <1>5, PaddleFacts DEF KeyingType

LEMMA SqueezedTickType ==
  TypeOK /\ SqueezedTick => KeyingType' /\ OutputType' /\ TimeType'
<1>. SUFFICES ASSUME TypeOK, SqueezedTick
              PROVE  KeyingType' /\ OutputType' /\ TimeType'
  OBVIOUS
<1>1. /\ last_keyed \in Elements
      /\ Inc(keyed_ticks[last_keyed]) \in Ticks
      /\ 0 \in Ticks
  BY IncType, TypeParts, TicksAssumption
     DEF SqueezedTick, KeyingType, Ticks, Elements
<1>2. OutputType'
  BY <1>1, EnqueueType DEF SqueezedTick, OutputType, Elements
<1>3. last_keyed' \in Elements
  BY <1>1, OtherFacts DEF SqueezedTick
<1>4. keyed_ticks' \in [{DIT, DAH, SPACE} -> Ticks]
  BY <1>1, <1>3, TypeParts DEF SqueezedTick, KeyingType
<1>5. TimeType' /\ enqueued_spaces' \in 0..2 /\ cstate' = "both"
  BY TypeParts DEF SqueezedTick, TimeType, KeyingType
<1>. QED  BY <1>2, <1>3, <1>4, <1>5 DEF KeyingType, Elements

LEMMA PressType ==
  ASSUME NEW p \in Paddles, TypeOK, Press(p)
  PROVE  KeyingType' /\ OutputType'
<1>. DEFINE q == Opposite(p)
            d == Keyed(p)
<1>1. /\ d \in Elements /\ Keyed(q) \in Elements
      /\ q \in Paddles /\ 0 \in Ticks
  BY KeyedFacts, PaddleFacts, TicksAssumption DEF Ticks
<1>2. CASE First(p)
  <2>1. OutputType'
    BY <1>1, <1>2, EnqueueType DEF First, OutputType, Elements
  <2>2. keyed_ticks' \in [{DIT, DAH, SPACE} -> Ticks]
    BY <1>1, <1>2, TypeParts DEF First, KeyingType
  <2>3. last_keyed' \in Elements /\ cstate' = p /\ enqueued_spaces' \in 0..2
    BY <1>1, <1>2, TypeParts DEF First, KeyingType
  <2>. QED  BY <2>1, <2>2, <2>3 DEF KeyingType, Elements
<1>3. CASE Second(p)
  <2>1. OutputType'
    BY <1>1, <1>3, EnqueueType DEF Second, OutputType, Elements
  <2>2. last_keyed' \in Elements
    BY <1>1, <1>3 DEF Second
  <2>3. keyed_ticks' = [keyed_ticks EXCEPT ![last_keyed'] = 0]
    BY <1>3 DEF Second
  <2>4. keyed_ticks' \in [{DIT, DAH, SPACE} -> Ticks]
    BY <1>1, <2>3, TypeParts DEF KeyingType
  <2>5. cstate' \in {p, "both"} /\ enqueued_spaces' \in 0..2
    BY <1>3, TypeParts DEF Second, KeyingType
  <2>. QED  BY <2>1, <2>2, <2>4, <2>5 DEF KeyingType, Elements
<1>4. CASE Ignored
  BY <1>4, TypeParts, EnqueueType
     DEF Ignored, OutputType, KeyingType, counters
<1>. QED  BY <1>2, <1>3, <1>4 DEF Press

LEMMA ReleaseType ==
  ASSUME NEW p \in Paddles, TypeOK, Release(p)
  PROVE  KeyingType' /\ OutputType'
<1>. DEFINE q == Opposite(p)
            d == Keyed(q)
<1>1. d \in Elements /\ q \in Paddles /\ 0 \in Ticks
  BY KeyedFacts, PaddleFacts, TicksAssumption DEF Ticks
<1>2. CASE Lift(p)
  <2>1. OutputType'
    BY <1>2, EnqueueType DEF Lift, OutputType
  <2>2. keyed_ticks' \in [{DIT, DAH, SPACE} -> Ticks]
    BY <1>1, <1>2, TypeParts DEF Lift, KeyingType
  <2>3. /\ last_keyed' \in {DIT, DAH, SPACE}
        /\ cstate' = "idle"
        /\ enqueued_spaces' \in 0..2
    BY <1>2, TypeParts DEF Lift, KeyingType
  <2>. QED  BY <2>1, <2>2, <2>3 DEF KeyingType
<1>3. CASE Unsqueeze(p)
  <2>1. last_keyed \in Elements
    BY <1>3, TypeParts DEF Unsqueeze, KeyingType
  <2>2. OutputType'
    BY <1>3, <2>1, EnqueueType DEF Unsqueeze, OutputType, Elements
  <2>3. d = DIT \/ d = DAH
    BY <1>1 DEF Elements
  <2>4. didah_len(d) - didah_len(DIT) \in Ticks
    BY <2>3, LenFacts, TicksAssumption DEF Ticks
  <2>5. keyed_ticks' \in [{DIT, DAH, SPACE} -> Ticks]
    BY <1>3, <2>4, TypeParts DEF Unsqueeze, KeyingType
  <2>6. cstate' = q /\ last_keyed' \in Elements /\ enqueued_spaces' \in 0..2
    BY <1>3, <2>1, TypeParts DEF Unsqueeze, KeyingType
  <2>. QED  BY <1>1, <2>2, <2>5, <2>6 DEF KeyingType, Elements
<1>4. CASE Ignored
  BY <1>4, TypeParts, EnqueueType
     DEF Ignored, OutputType, KeyingType, counters
<1>. QED  BY <1>2, <1>3, <1>4 DEF Release

LEMMA ISRType == ASSUME NEW p \in Paddles, TypeOK, ISR(p) PROVE TypeOK'
<1>1. KeyingType' /\ OutputType'
  BY PressType, ReleaseType DEF ISR
<1>2. pin' \in [Paddles -> BOOLEAN] /\ flag' \in [Paddles -> BOOLEAN]
  BY TypeParts DEF ISR, EdgeType
<1>3. pin[p] \in BOOLEAN /\ Keyed(p) \in Elements
  BY TypeParts, KeyedFacts DEF EdgeType
<1>4. port' \in [Elements -> BOOLEAN] /\ swapped' \in [Elements -> BOOLEAN]
  BY <1>3, TypeParts DEF ISR, EdgeType
<1>5. isr' = "none" /\ SettingType'
  BY TypeParts DEF ISR, SettingType, settings
<1>6. TimeType'
  BY TypeParts, LenFacts, TicksAssumption DEF ISR, TimeType
<1>7. EdgeType'
  BY <1>2, <1>4, <1>5 DEF EdgeType
<1>. QED  BY <1>1, <1>5, <1>6, <1>7, TypePartsNext

LEMMA EdgeTypes ==
  ASSUME NEW p \in Paddles, TypeOK, EnterISR(p) \/ Move(p)
  PROVE  TypeOK'
<1>1. OutputType'
  BY EnqueueType DEF EnterISR, Move, OutputType
<1>2. KeyingType' /\ SettingType' /\ TimeType'
  BY TypeParts DEF EnterISR, Move, KeyingType, SettingType, TimeType,
                   counters, settings
<1>3. pin' \in [Paddles -> BOOLEAN] /\ flag' \in [Paddles -> BOOLEAN]
  BY TypeParts DEF EnterISR, Move, EdgeType
<1>4. /\ isr' \in Paddles \cup {"none"}
      /\ port' \in [Elements -> BOOLEAN] /\ swapped' \in [Elements -> BOOLEAN]
  BY TypeParts DEF EnterISR, Move, EdgeType, pins
<1>. QED  BY <1>1, <1>2, <1>3, <1>4, TypePartsNext DEF EdgeType

LEMMA SettleType == ASSUME TypeOK, Settle PROVE TypeOK'
<1>1. OutputType'
  BY EnqueueType DEF Settle, Set, OutputType, cw_set_keying_mode,
                     cw_set_left_key, cw_set_speed, cw_set_word_space
<1>2. KeyingType' /\ TimeType'
  BY TypeParts DEF Settle, Set, cw_set_keying_mode, cw_set_left_key,
                   cw_set_speed, cw_set_word_space, KeyingType, TimeType,
                   counters
<1>4. UNCHANGED << pin, flag, isr, port >>
  BY DEF Settle, Set, cw_set_keying_mode, cw_set_left_key, cw_set_speed,
         cw_set_word_space, edges
<1>5. swapped' \in [Elements -> BOOLEAN]
  <2>1. CASE cw_set_left_key
    <3>1. \A d \in Elements : swapped[d] \in BOOLEAN /\ port[d] \in BOOLEAN
      BY TypeParts DEF EdgeType
    <3>2. \A d \in Elements :
            (swapped[d] \/ (left_didah' # left_didah /\ port[d])) \in BOOLEAN
      BY <3>1, Zenon
    <3>3. swapped' = [d \in Elements |->
                       swapped[d] \/ (left_didah' # left_didah /\ port[d])]
      BY <2>1 DEF cw_set_left_key, Elements
    <3>. QED  BY <3>2, <3>3, Zenon
  <2>2. CASE UNCHANGED swapped
    BY <2>2, TypeParts DEF EdgeType
  <2>. QED  BY <2>1, <2>2 DEF Settle, cw_set_keying_mode, cw_set_speed,
                              cw_set_word_space
<1>6. EdgeType'
  BY <1>4, <1>5, TypeParts DEF EdgeType
<1>3. SettingType'
  BY TypeParts DEF Settle, cw_set_keying_mode, cw_set_left_key,
                   cw_set_speed, cw_set_word_space, SettingType
<1>. QED  BY <1>1, <1>2, <1>3, <1>6, TypePartsNext

LEMMA InitType == Init => TypeOK
<1>. SUFFICES ASSUME Init PROVE TypeOK
  OBVIOUS
<1>1. IdleSleep - 1 \in Nat
  BY SettingsAssumption, TicksAssumption DEF Init
<1>2. TimeType
  <2>1. parse \in BOOLEAN
    BY DEF Init
  <2>2. tick_events \in 0..(IdleSleep - 1)
    BY <1>1 DEF Init
  <2>. QED  BY <2>1, <2>2 DEF TimeType
<1>5. SettingType
  BY DEF Init, SettingType
<1>3. OutputType /\ EdgeType
  BY DEF Init, OutputType, EdgeType, Elements
<1>4. KeyingType
  BY TicksAssumption DEF Init, KeyingType, Ticks, Paddles
<1>. QED  BY <1>2, <1>3, <1>4, <1>5, TypeParts

LEMMA NextType == TypeOK /\ [Next]_vars => TypeOK'
<1>. SUFFICES ASSUME TypeOK, [Next]_vars PROVE TypeOK'
  OBVIOUS
<1>1. CASE cw_tick
  <2>1. KeyingType' /\ OutputType' /\ TimeType'
    BY <1>1, IdleTickType, HeldTickType, SqueezedTickType DEF cw_tick
  <2>2. EdgeType' /\ SettingType'
    BY <1>1, TypeParts DEF cw_tick, EdgeType, SettingType, edges, settings, pins
  <2>. QED  BY <2>1, <2>2, TypePartsNext
<1>2. ASSUME NEW p \in Paddles, Move(p) \/ Handling(p) PROVE TypeOK'
  BY <1>2, EdgeTypes, ISRType DEF Handling
<1>3. CASE Settle
  BY <1>3, SettleType
<1>4. CASE UNCHANGED vars
  BY <1>4 DEF TypeOK, vars, edges, settings, counters, pins, outputs
<1>. QED  BY <1>1, <1>2, <1>3, <1>4 DEF Next, Settle, Handling

(* Whatever the settings and however the paddles bounce, no counter leaves *)
(* its width, no more than two spaces follow a character and a squeeze     *)
(* always has a dit or a dah to go on with.                                *)
THEOREM TypeCorrect == Spec => []TypeOK
BY InitType, NextType, PTL DEF Spec
-------------------------------------------------------------------------------
(* What a step may have been for a paddle that is settled after it. *)
LEMMA SettledSteps ==
  ASSUME TypeOK, [Next]_vars, NEW p \in Paddles, Settled(p)'
  PROVE  \/ pin'[p] = pin[p] /\ Settled(p) /\ UNCHANGED << cstate, port >>
         \/ pin'[p] = pin[p] /\ ISR(p)
         \/ pin'[p] = pin[p] /\ Settled(p) /\ ISR(Opposite(p))
<1>1. CASE cw_tick
  BY <1>1 DEF cw_tick, edges, pins, Settled, IdleTick, HeldTick, SqueezedTick
<1>2. CASE Settle
  BY <1>2 DEF Settle, Set, edges, Settled, cw_set_keying_mode,
              cw_set_left_key, cw_set_speed, cw_set_word_space
<1>3. CASE UNCHANGED vars
  BY <1>3 DEF vars, edges, pins, Settled
<1>4. ASSUME NEW x \in Paddles, Move(x)
      PROVE  /\ pin'[p] = pin[p] /\ Settled(p)
             /\ UNCHANGED << cstate, port >>
  BY <1>4 DEF Move, pins, Settled, TypeOK
<1>5. ASSUME NEW x \in Paddles, EnterISR(x)
      PROVE  /\ pin'[p] = pin[p] /\ Settled(p)
             /\ UNCHANGED << cstate, port >>
  BY <1>5 DEF EnterISR, pins, Settled, TypeOK, Paddles
<1>6. ASSUME NEW x \in Paddles, ISR(x)
      PROVE  \/ pin'[p] = pin[p] /\ ISR(p)
             \/ pin'[p] = pin[p] /\ Settled(p) /\ ISR(Opposite(p))
  <2>1. x = p \/ x = Opposite(p)
    BY PaddleFacts
  <2>2. pin' = pin /\ flag' = flag /\ isr = x
    BY <1>6 DEF ISR
  <2>. QED  BY <1>6, <2>1, <2>2, PaddleFacts DEF Settled
<1>. QED  BY <1>1, <1>2, <1>3, <1>4, <1>5, <1>6 DEF Next, Settle, Handling

(* An interrupt of paddle p decides whether p is being keyed. *)
LEMMA OwnISR ==
  ASSUME TypeOK, NEW p \in Paddles, ISR(p)
  PROVE  cstate' \in {p, "both"} <=> pin[p]
<1>1. CASE pin[p]
  BY <1>1, PaddleFacts DEF ISR, Press, First, Second, Ignored
<1>2. CASE ~pin[p]
  BY <1>2, PaddleFacts DEF ISR, Release, Lift, Unsqueeze, Ignored
<1>. QED  BY <1>1, <1>2

(* It may stop the keying of the other paddle, in the dumb modes. *)
LEMMA OtherISR ==
  ASSUME TypeOK, NEW p \in Paddles, ISR(Opposite(p))
  PROVE  /\ cstate' \in {p, "both"} => cstate \in {p, "both"}
         /\ cstate \in {p, "both"} => Dumb \/ cstate' \in {p, "both"}
<1>. DEFINE x == Opposite(p)
<1>1. x \in Paddles /\ Opposite(x) = p /\ x # p
  BY DEF Paddles, Opposite
<1>2. x \notin {"idle", "both", "none"} /\ p \notin {"idle", "both", "none"}
  BY <1>1, PaddleFacts
<1>3. CASE Press(x)
  <2>1. CASE First(x)
    BY <1>1, <1>2, <2>1 DEF First, Idle
  <2>2. CASE Second(x)
    <3>1. cstate = p
      BY <1>1, <2>2 DEF Second
    <3>2. ~Dumb => cstate' = "both"
      BY <2>2 DEF Second
    <3>. QED  BY <3>1, <3>2
  <2>3. CASE Ignored
    BY <2>3 DEF Ignored
  <2>. QED  BY <1>3, <2>1, <2>2, <2>3 DEF Press
<1>4. CASE Release(x)
  BY <1>1, <1>2, <1>4 DEF Release, Lift, Unsqueeze, Ignored
<1>. QED  BY <1>3, <1>4 DEF ISR

(* A paddle that is up and handled is not being keyed, in any mode, after  *)
(* any sequence of edges and changes of the settings.                      *)
THEOREM NothingPhantom == Spec => []NoPhantomKey
<1>1. Init => NoPhantomKey
  BY PaddleFacts DEF Init, NoPhantomKey
<1>2. TypeOK /\ NoPhantomKey /\ [Next]_vars => NoPhantomKey'
  <2>. SUFFICES ASSUME TypeOK, NoPhantomKey, [Next]_vars,
                       NEW p \in Paddles, Settled(p)', ~pin'[p]
                PROVE  cstate' \notin {p, "both"}
    BY DEF NoPhantomKey
  <2>1. CASE pin'[p] = pin[p] /\ Settled(p) /\ UNCHANGED << cstate, port >>
    BY <2>1 DEF NoPhantomKey
  <2>2. CASE pin'[p] = pin[p] /\ ISR(p)
    BY <2>2, OwnISR
  <2>3. CASE pin'[p] = pin[p] /\ Settled(p) /\ ISR(Opposite(p))
    BY <2>3, OtherISR DEF NoPhantomKey
  <2>. QED  BY <2>1, <2>2, <2>3, SettledSteps
<1>. QED  BY <1>1, <1>2, TypeCorrect, PTL DEF Spec

(* In the modes where a second press does not replace the first, a handled *)
(* paddle is keyed exactly while it is down.                               *)
THEOREM PaddlesTracked ==
  ASSUME Modes \cap {"bug", "paddle"} = {}
  PROVE  RestedSpec => []TracksPaddles
<1>1. ASSUME InitRested PROVE TracksPaddles
  <2>. SUFFICES ASSUME NEW p \in Paddles
                PROVE  pin[p] <=> cstate \in {p, "both"}
    BY DEF TracksPaddles
  <2>1. cstate \notin {p, "both"}
    BY <1>1, PaddleFacts DEF InitRested, Init
  <2>2. ~pin[p]
    BY <1>1 DEF InitRested, Init
  <2>. QED  BY <2>1, <2>2
<1>2. TypeOK /\ TracksPaddles /\ [Next]_vars => TracksPaddles'
  <2>. SUFFICES ASSUME TypeOK, TracksPaddles, [Next]_vars,
                       NEW p \in Paddles, Settled(p)'
                PROVE  pin'[p] <=> cstate' \in {p, "both"}
    BY DEF TracksPaddles
  <2>1. ~Dumb
    BY DEF Dumb, TypeOK
  <2>2. CASE pin'[p] = pin[p] /\ Settled(p) /\ UNCHANGED << cstate, port >>
    BY <2>1, <2>2 DEF TracksPaddles
  <2>3. CASE pin'[p] = pin[p] /\ ISR(p)
    BY <2>3, OwnISR
  <2>4. CASE pin'[p] = pin[p] /\ Settled(p) /\ ISR(Opposite(p))
    BY <2>1, <2>4, OtherISR DEF TracksPaddles
  <2>. QED  BY <2>2, <2>3, <2>4, SettledSteps
<1>. QED  BY <1>1, <1>2, TypeCorrect, PTL DEF RestedSpec, InitRested, Spec

(* What a step may have done to the left paddle's element.                 *)
LEMMA LeftSteps ==
  ASSUME TypeOK, [Next]_vars
  PROVE  \/ UNCHANGED << left_didah, swapped >>
         \/ \E x \in Paddles : ISR(x) /\ UNCHANGED left_didah
         \/ cw_set_left_key
<1>1. CASE cw_tick
  BY <1>1 DEF cw_tick, settings, pins
<1>2. ASSUME NEW x \in Paddles, Move(x) \/ EnterISR(x)
      PROVE  UNCHANGED << left_didah, swapped >>
  BY <1>2 DEF Move, EnterISR, settings, pins
<1>3. ASSUME NEW x \in Paddles, ISR(x)
      PROVE  UNCHANGED left_didah
  BY <1>3 DEF ISR, settings
<1>4. CASE cw_set_keying_mode \/ cw_set_speed \/ cw_set_word_space
  BY <1>4 DEF cw_set_keying_mode, cw_set_speed, cw_set_word_space
<1>5. CASE UNCHANGED vars
  BY <1>5 DEF vars, settings, pins
<1>. QED  BY <1>1, <1>2, <1>3, <1>4, <1>5 DEF Next

LEMMA KeyedFixed ==
  ASSUME left_didah' = left_didah, NEW p \in Paddles
  PROVE  Keyed(p)' = Keyed(p)
BY DEF Keyed, Other

LEMMA KeyedConstant ==
  ASSUME TypeOK, [Next]_vars, "left" \notin Changes, NEW p \in Paddles
  PROVE  Keyed(p)' = Keyed(p)
<1>1. ~cw_set_left_key
  BY DEF cw_set_left_key, Set
<1>. QED  BY <1>1, LeftSteps, KeyedFixed

(* Whatever is set and whenever, an output pin is left high by a paddle    *)
(* that is up only if the left paddle's element was changed while that pin *)
(* was high.                                                               *)
THEOREM NoPortStuck == Spec => []NoStuckPort
<1>1. Init => NoStuckPort
  <2>. SUFFICES ASSUME Init, NEW p \in Paddles PROVE ~port[Keyed(p)]
    BY DEF NoStuckPort
  <2>1. Keyed(p) \in {DIT, DAH}
    BY InitType, KeyedFacts DEF Elements
  <2>. QED  BY <2>1 DEF Init
<1>2. TypeOK /\ NoStuckPort /\ [Next]_vars => NoStuckPort'
  <2>. SUFFICES ASSUME TypeOK, NoStuckPort, [Next]_vars, NEW p \in Paddles,
                       Settled(p)', port'[Keyed(p)'], ~swapped'[Keyed(p)']
                PROVE  pin'[p]
    BY DEF NoStuckPort
  <2>0. Keyed(p) \in Elements /\ Keyed(p)' \in Elements
    <3>1. TypeOK'
      BY NextType
    <3>2. left_didah \in Elements /\ left_didah' \in Elements
      BY <3>1, SettingsAssumption DEF TypeOK, Elements
    <3>. QED  BY <3>2 DEF Keyed, Other, Elements, DIT, DAH
  <2>1. CASE cw_set_left_key
    <3>1. swapped' = [d \in Elements |->
                       swapped[d] \/ (left_didah' # left_didah /\ port[d])]
      BY <2>1 DEF cw_set_left_key, Elements
    <3>2. UNCHANGED << pin, flag, isr, port >>
      BY <2>1 DEF cw_set_left_key, Set, edges
    <3>3. ~swapped[Keyed(p)'] /\ left_didah' = left_didah
      BY <2>0, <3>1, <3>2
    <3>4. Keyed(p)' = Keyed(p)
      BY <3>3, KeyedFixed
    <3>. QED  BY <3>2, <3>3, <3>4 DEF NoStuckPort, Settled
  <2>2. CASE ISR(p)
    <3>1. port' = [port EXCEPT ![Keyed(p)] = pin[p]] /\ pin' = pin
      BY <2>2 DEF ISR
    <3>2. Keyed(p)' = Keyed(p)
      BY <2>2, KeyedFixed DEF ISR, settings
    <3>3. Keyed(p) \in DOMAIN port
      BY <2>0 DEF TypeOK, Elements
    <3>. QED  BY <3>1, <3>2, <3>3
  <2>3. CASE ISR(Opposite(p))
    <3>1. /\ port' = [port EXCEPT ![Keyed(Opposite(p))] = pin[Opposite(p)]]
          /\ swapped' = [swapped EXCEPT ![Keyed(Opposite(p))] = FALSE]
          /\ pin' = pin /\ flag' = flag /\ isr = Opposite(p)
      BY <2>3 DEF ISR
    <3>2. Keyed(p)' = Keyed(p)
      BY <2>3, KeyedFixed DEF ISR, settings
    <3>3. Keyed(Opposite(p)) # Keyed(p)
      BY KeyedFacts
    <3>4. port'[Keyed(p)] = port[Keyed(p)] /\ swapped'[Keyed(p)] = swapped[Keyed(p)]
      BY <2>0, <3>1, <3>3 DEF TypeOK, Elements
    <3>5. Settled(p)
      BY <3>1, PaddleFacts DEF Settled
    <3>. QED  BY <3>1, <3>2, <3>4, <3>5 DEF NoStuckPort
  <2>4. CASE /\ UNCHANGED << left_didah, swapped, cstate, port >>
             /\ pin'[p] = pin[p] /\ Settled(p)
    <3>1. Keyed(p)' = Keyed(p)
      BY <2>4, KeyedFixed
    <3>. QED  BY <2>4, <3>1 DEF NoStuckPort
  <2>5. ASSUME NEW x \in Paddles, ISR(x)
        PROVE  ISR(p) \/ ISR(Opposite(p))
    BY <2>5, PaddleFacts
  <2>. QED  BY <2>1, <2>2, <2>3, <2>4, <2>5, LeftSteps, SettledSteps, PaddleFacts
<1>. QED  BY <1>1, <1>2, TypeCorrect, PTL DEF Spec
-------------------------------------------------------------------------------
(* While a character is open and nothing is keyed, the space counter runs  *)
(* towards the space that closes it and is not behind the idle counter.    *)
Closing ==
  /\ ~parse => Idle /\ ~open
  /\ open /\ Idle => /\ enqueued_spaces = 0
                     /\ keyed_ticks[SPACE] < 2 * dit_len
                     /\ tick_events <= keyed_ticks[SPACE]

LEMMA ClosingIdleTick ==
  ASSUME TypeOK, Closing, IdleTick, dit_len' = dit_len
  PROVE  Closing'
<1>1. cstate' = "idle" /\ Idle
  BY DEF IdleTick, Idle
<1>2. CASE ~open
  <2>1. ~open'
    BY <1>2 DEF IdleTick, Enqueue
  <2>. QED  BY <1>1, <2>1 DEF Closing, Idle
<1>3. CASE open
  <2>. DEFINE k == Inc(keyed_ticks[SPACE])
  <2>1. /\ enqueued_spaces = 0
        /\ keyed_ticks[SPACE] < 2 * dit_len
        /\ tick_events <= keyed_ticks[SPACE]
        /\ keyed_ticks[SPACE] \in Ticks
        /\ tick_events \in Nat
    BY <1>1, <1>3, TypeParts DEF Closing, KeyingType, TimeType
  <2>2. k = keyed_ticks[SPACE] + 1 /\ k <= 2 * dit_len
    BY <2>1, LenFacts, TicksAssumption DEF Inc, Ticks
  <2>3. Counts /\ k # didah_len(SPACE)
    BY <2>1, <2>2, LenFacts DEF Counts, Ticks
  <2>4. keyed_ticks'[SPACE] = k
    BY <2>3, TypeParts DEF IdleTick, KeyingType
  <2>5. tick_events + 1 <= k /\ tick_events + 1 # IdleSleep
    BY <2>1, <2>2, LenFacts, TicksAssumption DEF Ticks
  <2>6. parse' = TRUE /\ tick_events' = tick_events + 1
    BY <2>5 DEF IdleTick
  <2>7. CASE k = didah_len(DIT)
    <3>1. Enqueue(SPACE)
      BY <2>3, <2>7 DEF IdleTick
    <3>2. SPACE # None
      BY DEF SPACE, None
    <3>3. ~open'
      BY <3>1, <3>2 DEF Enqueue
    <3>. QED  BY <2>6, <3>3 DEF Closing
  <2>8. CASE k # didah_len(DIT)
    <3>1. enqueued_spaces' = 0
      BY <2>1, <2>3, <2>8 DEF IdleTick
    <3>2. k < 2 * dit_len
      BY <2>1, <2>2, <2>8, LenFacts DEF Ticks
    <3>. QED  BY <2>4, <2>5, <2>6, <3>1, <3>2 DEF Closing
  <2>. QED  BY <2>7, <2>8
<1>. QED  BY <1>2, <1>3

LEMMA ClosingISR ==
  ASSUME TypeOK, Closing, NEW p \in Paddles, ISR(p)
  PROVE  Closing'
<1>1. parse' = TRUE /\ tick_events' = 0 /\ dit_len' = dit_len
  BY DEF ISR, settings
<1>2. keyed_ticks[SPACE] \in Ticks /\ dit_len \in Nat \ {0}
  BY TypeParts, LenFacts DEF KeyingType
<1>3. Opposite(p) # "idle" /\ p # "idle"
  BY PaddleFacts
<1>4. CASE cstate' # "idle"
  BY <1>1, <1>4 DEF Closing, Idle
<1>5. CASE Lift(p)
  <2>1. enqueued_spaces' = 0 /\ keyed_ticks'[SPACE] = 0
    BY <1>5, TypeParts DEF Lift, KeyingType
  <2>. QED  BY <1>1, <1>2, <2>1 DEF Closing
<1>6. CASE Ignored /\ cstate' = "idle"
  <2>1. Idle /\ open' = open /\ UNCHANGED counters
    BY <1>6 DEF Ignored, Enqueue, Idle
  <2>2. tick_events \in Nat
    BY TypeParts DEF TimeType
  <2>. QED  BY <1>1, <1>2, <2>1, <2>2 DEF Closing, counters, Ticks
<1>. QED  BY <1>3, <1>4, <1>5, <1>6
          DEF ISR, Press, First, Second, Release, Unsqueeze

(* Without a change of speed the tick never goes to sleep on a character   *)
(* that was not closed by a space.                                         *)
THEOREM ClosesBeforeSleep ==
  ASSUME "speed" \notin Changes
  PROVE  Spec => []ClosedBeforeSleep
<1>1. Init => Closing
  BY DEF Init, Closing, Idle
<1>2. TypeOK /\ Closing /\ [Next]_vars => Closing'
  <2>. SUFFICES ASSUME TypeOK, Closing, [Next]_vars PROVE Closing'
    OBVIOUS
  <2>1. dit_len' = dit_len
    BY DEF Next, vars, settings, cw_tick, Move, Handling, EnterISR, ISR, Set,
           cw_set_keying_mode, cw_set_left_key, cw_set_speed,
           cw_set_word_space
  <2>2. CASE cw_tick /\ IdleTick
    BY <2>1, <2>2, ClosingIdleTick
  <2>3. CASE cw_tick /\ (SqueezedTick \/ \E p \in Paddles : HeldTick(p))
    <3>1. cstate' = cstate /\ cstate # "idle"
      BY <2>3, PaddleFacts DEF SqueezedTick, HeldTick
    <3>2. parse' = parse
      BY <2>3 DEF SqueezedTick, HeldTick
    <3>3. parse'
      BY <2>3, <3>2 DEF cw_tick
    <3>. QED  BY <3>1, <3>3 DEF Closing, Idle
  <2>4. ASSUME NEW p \in Paddles, Move(p) \/ EnterISR(p) PROVE Closing'
    BY <2>1, <2>4
       DEF Move, EnterISR, Closing, Idle, Enqueue, counters
  <2>5. ASSUME NEW p \in Paddles, ISR(p) PROVE Closing'
    BY <2>5, ClosingISR
  <2>6. CASE Settle
    BY <2>1, <2>6 DEF Settle, Set, Closing, Idle, Enqueue, counters,
       cw_set_keying_mode, cw_set_left_key, cw_set_speed, cw_set_word_space
  <2>7. CASE UNCHANGED vars
    BY <2>7 DEF vars, counters, settings, outputs, Closing, Idle
  <2>. QED  BY <2>2, <2>3, <2>4, <2>5, <2>6, <2>7
            DEF Next, Settle, Handling, cw_tick
<1>3. Closing => ClosedBeforeSleep
  BY DEF Closing, ClosedBeforeSleep
<1>. QED  BY <1>1, <1>2, <1>3, TypeCorrect, PTL DEF Spec
-------------------------------------------------------------------------------
LEMMA ModeFixed ==
  ASSUME [Next]_vars, "mode" \notin Changes
  PROVE  keying_mode' = keying_mode /\ Iambic' = Iambic
<1>1. keying_mode' = keying_mode
  BY DEF Next, vars, settings, cw_tick, Move, Handling, EnterISR, ISR, Set,
         cw_set_keying_mode, cw_set_left_key, cw_set_speed, cw_set_word_space
<1>. QED  BY <1>1 DEF Iambic

LEMMA SqueezeOrderStep ==
  ASSUME TypeOK, SqueezeOrder, [Next]_vars, "mode" \notin Changes,
         cstate' = "both"
  PROVE  last_keyed' = IF Iambic THEN Other(lastOut') ELSE lastOut'
<1>1. CASE /\ UNCHANGED << cstate, last_keyed >>
           /\ emitted' = None \/ UNCHANGED outputs
           /\ lastOut' = lastOut
  BY <1>1 DEF SqueezeOrder
<1>2. CASE SqueezedTick
  <2>1. last_keyed \in Elements /\ cstate = "both"
    BY <1>2, TypeParts DEF SqueezedTick, KeyingType
  <2>2. CASE keyed_ticks[last_keyed] = didah_len(last_keyed)
    <3>1. lastOut' = last_keyed
      BY <1>2, <2>1, <2>2 DEF SqueezedTick, Enqueue, Elements
    <3>2. last_keyed' = IF Iambic THEN Other(last_keyed) ELSE last_keyed
      BY <1>2, <2>2 DEF SqueezedTick
    <3>. QED  BY <3>1, <3>2
  <2>3. CASE keyed_ticks[last_keyed] # didah_len(last_keyed)
    <3>1. lastOut' = lastOut /\ last_keyed' = last_keyed
      BY <1>2, <2>3 DEF SqueezedTick, Enqueue, None, DIT, DAH
    <3>. QED  BY <2>1, <3>1 DEF SqueezeOrder
  <2>. QED  BY <2>2, <2>3
<1>3. ASSUME NEW p \in Paddles, Second(p)
      PROVE  last_keyed' = IF Iambic THEN Other(lastOut') ELSE lastOut'
  <2>1. lastOut' = Keyed(p)
    BY <1>3, KeyedFacts DEF Second, Enqueue, Elements
  <2>2. last_keyed' = IF Iambic THEN Keyed(Opposite(p)) ELSE Keyed(p)
    BY <1>3 DEF Second
  <2>. QED  BY <2>1, <2>2, KeyedFacts
<1>4. CASE cw_tick
  <2>1. ~IdleTick /\ \A p \in Paddles : ~HeldTick(p)
    BY PaddleFacts DEF IdleTick, Idle, HeldTick
  <2>. QED  BY <1>2, <1>4, <2>1 DEF cw_tick
<1>5. ASSUME NEW p \in Paddles, ISR(p)
      PROVE  last_keyed' = IF Iambic THEN Other(lastOut') ELSE lastOut'
  <2>1. CASE Ignored
    BY <1>1, <2>1 DEF Ignored, Enqueue, counters, None, DIT, DAH
  <2>2. ~First(p) /\ ~Lift(p) /\ ~Unsqueeze(p)
    BY PaddleFacts DEF First, Lift, Unsqueeze
  <2>. QED  BY <1>3, <1>5, <2>1, <2>2 DEF ISR, Press, Release
<1>6. ASSUME NEW p \in Paddles, Move(p) \/ EnterISR(p)
      PROVE  last_keyed' = IF Iambic THEN Other(lastOut') ELSE lastOut'
  BY <1>1, <1>6 DEF Move, EnterISR, Enqueue, counters, None, DIT, DAH
<1>7. CASE Settle
  BY <1>1, <1>7
     DEF Settle, Set, Enqueue, counters, None, DIT, DAH,
         cw_set_keying_mode, cw_set_left_key, cw_set_speed, cw_set_word_space
<1>8. CASE UNCHANGED vars
  BY <1>1, <1>8 DEF vars, counters, outputs
<1>. QED  BY <1>4, <1>5, <1>6, <1>7, <1>8 DEF Next, Settle, Handling

(* As long as the mode is not changed meanwhile, a squeeze goes on with    *)
(* the element its mode asks for.                                          *)
THEOREM SqueezesAlternate ==
  ASSUME "mode" \notin Changes
  PROVE  Spec => []SqueezeOrder
<1>1. Init => SqueezeOrder
  BY DEF Init, SqueezeOrder
<1>2. TypeOK /\ SqueezeOrder /\ [Next]_vars => SqueezeOrder'
  BY SqueezeOrderStep, ModeFixed DEF SqueezeOrder, Other
<1>. QED  BY <1>1, <1>2, TypeCorrect, PTL DEF Spec

(* And in iambic mode B, leaving it completes the alternation. *)
THEOREM SqueezesComplete ==
  ASSUME "mode" \notin Changes
  PROVE  Spec => SqueezeCompletes
<1>1. ASSUME TypeOK, SqueezeOrder, [Next]_vars, cstate = "both",
             cstate' # "both", keying_mode = "iambic_b"
      PROVE  emitted' = Other(lastOut)
  <2>1. PICK p \in Paddles : ISR(p)
    BY <1>1, PaddleFacts
       DEF Next, vars, cw_tick, IdleTick, HeldTick, SqueezedTick, Idle, Move,
           Handling, EnterISR, Set, cw_set_keying_mode, cw_set_left_key,
           cw_set_speed, cw_set_word_space
  <2>2. Unsqueeze(p)
    BY <1>1, <2>1, PaddleFacts
       DEF ISR, Press, Release, First, Second, Lift, Ignored, Idle
  <2>3. emitted' = last_keyed
    BY <1>1, <2>2 DEF Unsqueeze, HasBitOfB, Enqueue
  <2>. QED  BY <1>1, <2>3 DEF SqueezeOrder, Iambic
<1>2. TypeOK /\ SqueezeOrder /\ [Next]_vars
      => [cstate = "both" /\ cstate' # "both" /\ keying_mode = "iambic_b"
            => emitted' = Other(lastOut)]_vars
  BY <1>1
<1>. QED  BY <1>2, TypeCorrect, SqueezesAlternate, PTL
          DEF Spec, SqueezeCompletes
-------------------------------------------------------------------------------
(* The counter of the paddle that is keyed has not run past its cycle. *)
InCycle ==
  \A p \in Paddles :
    cstate = p => keyed_ticks[Keyed(p)] <= didah_len(Keyed(p))

LEMMA LenPositive ==
  ASSUME TypeOK, NEW d \in Elements
  PROVE  /\ didah_len(d) \in Nat
         /\ 0 <= didah_len(d)
         /\ didah_len(d) - didah_len(DIT) <= didah_len(d)
         /\ didah_len(d) < MaxTicks
BY LenFacts, TicksAssumption DEF Elements

LEMMA InCycleISR ==
  ASSUME TypeOK, InCycle, NEW x \in Paddles, ISR(x), NEW p \in Paddles,
         cstate' = p
  PROVE  keyed_ticks'[Keyed(p)] <= didah_len(Keyed(p))
<1>1. /\ Keyed(p) \in Elements
      /\ Keyed(p) \in DOMAIN keyed_ticks
      /\ 0 <= didah_len(Keyed(p))
      /\ didah_len(Keyed(p)) - didah_len(DIT) <= didah_len(Keyed(p))
  BY KeyedFacts, LenPositive DEF TypeOK, Elements
<1>2. p \notin {"idle", "both"} /\ x \notin {"idle", "both"}
  BY PaddleFacts
<1>3. CASE First(x)
  BY <1>1, <1>3 DEF First
<1>4. CASE Second(x)
  <2>1. Dumb /\ x = p
    BY <1>2, <1>4 DEF Second
  <2>2. ~Iambic
    BY <2>1 DEF Dumb, Iambic
  <2>3. keyed_ticks' = [keyed_ticks EXCEPT ![Keyed(p)] = 0]
    BY <1>4, <2>1, <2>2 DEF Second
  <2>. QED  BY <1>1, <2>3
<1>5. CASE Unsqueeze(x)
  BY <1>1, <1>5 DEF Unsqueeze
<1>6. CASE Ignored
  BY <1>6 DEF Ignored, InCycle, counters
<1>7. ~Lift(x)
  BY <1>2 DEF Lift
<1>. QED  BY <1>3, <1>4, <1>5, <1>6, <1>7 DEF ISR, Press, Release

LEMMA InCycleTick ==
  ASSUME TypeOK, InCycle, cw_tick, NEW p \in Paddles, cstate' = p
  PROVE  keyed_ticks'[Keyed(p)] <= didah_len(Keyed(p))
<1>. DEFINE d == Keyed(p)
<1>1. /\ d \in Elements
      /\ d \in DOMAIN keyed_ticks
      /\ keyed_ticks[d] \in Ticks
      /\ didah_len(d) \in Nat
      /\ didah_len(d) < MaxTicks
  BY KeyedFacts, LenPositive, TypeParts DEF KeyingType, Elements
<1>2. HeldTick(p)
  BY PaddleFacts DEF cw_tick, IdleTick, HeldTick, SqueezedTick, Idle
<1>3. keyed_ticks[d] <= didah_len(d)
  BY <1>2 DEF InCycle, HeldTick
<1>4. CASE keying_mode = "paddle"
  BY <1>2, <1>3, <1>4 DEF HeldTick
<1>5. CASE keying_mode # "paddle" /\ keyed_ticks[d] = didah_len(d)
  BY <1>1, <1>2, <1>5 DEF HeldTick
<1>6. CASE keying_mode # "paddle" /\ keyed_ticks[d] # didah_len(d)
  <2>1. keyed_ticks'[d] = Inc(keyed_ticks[d])
    BY <1>1, <1>2, <1>6 DEF HeldTick
  <2>2. Inc(keyed_ticks[d]) <= didah_len(d)
    BY <1>1, <1>3, <1>6, TicksAssumption DEF Inc, Ticks
  <2>. QED  BY <2>1, <2>2
<1>. QED  BY <1>4, <1>5, <1>6

(* As long as neither the speed nor the left paddle's element is changed   *)
(* meanwhile, a held paddle has its element repeated in every cycle.       *)
THEOREM RepeatsEveryCycle ==
  ASSUME "left" \notin Changes, "speed" \notin Changes
  PROVE  Spec => []RepeatsPerCycle
<1>1. Init => InCycle
  BY PaddleFacts DEF Init, InCycle
<1>2. TypeOK /\ InCycle /\ [Next]_vars => InCycle'
  <2>. SUFFICES ASSUME TypeOK, InCycle, [Next]_vars,
                       NEW p \in Paddles, cstate' = p
                PROVE  keyed_ticks'[Keyed(p)] <= didah_len(Keyed(p))'
    BY KeyedConstant DEF InCycle
  <2>1. dit_len' = dit_len
    BY DEF Next, vars, settings, cw_tick, Move, Handling, EnterISR, ISR, Set,
           cw_set_keying_mode, cw_set_left_key, cw_set_speed,
           cw_set_word_space
  <2>2. Keyed(p)' = Keyed(p)
    BY KeyedConstant
  <2>3. didah_len(Keyed(p))' = didah_len(Keyed(p))
    BY <2>1, <2>2, Zenon DEF didah_len
  <2>4. CASE cw_tick
    BY <2>3, <2>4, InCycleTick
  <2>5. ASSUME NEW x \in Paddles, ISR(x)
        PROVE  keyed_ticks'[Keyed(p)] <= didah_len(Keyed(p))
    BY <2>5, InCycleISR
  <2>6. CASE cstate' = cstate /\ keyed_ticks' = keyed_ticks
    BY <2>3, <2>6 DEF InCycle
  <2>7. ASSUME NEW x \in Paddles, Move(x) \/ EnterISR(x)
        PROVE  cstate' = cstate /\ keyed_ticks' = keyed_ticks
    BY <2>7 DEF Move, EnterISR, counters
  <2>8. CASE Settle
    BY <2>6, <2>8 DEF Settle, Set, counters, cw_set_keying_mode,
                      cw_set_left_key, cw_set_speed, cw_set_word_space
  <2>9. CASE UNCHANGED vars
    BY <2>6, <2>9 DEF vars, counters
  <2>. QED  BY <2>3, <2>4, <2>5, <2>6, <2>7, <2>8, <2>9
            DEF Next, Settle, Handling
<1>3. InCycle => RepeatsPerCycle
  BY DEF InCycle, RepeatsPerCycle
<1>. QED  BY <1>1, <1>2, <1>3, TypeCorrect, PTL DEF Spec
===============================================================================
