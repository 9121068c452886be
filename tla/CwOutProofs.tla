----------------------------- MODULE CwOutProofs ------------------------------
(***************************************************************************)
(* Proofs about module CwOut, for every queue size, width of idle_count    *)
(* and bits, alphabet and code table.                                      *)
(***************************************************************************)
EXTENDS CwOut, SequenceTheorems, TLAPS

-------------------------------------------------------------------------------
LEMMA PushedType ==
  ASSUME NEW S, NEW s \in Seq(S), NEW v \in S, NEW cap \in Nat \ {0},
         Len(s) <= cap
  PROVE  Pushed(s, v, cap) \in Seq(S) /\ Len(Pushed(s, v, cap)) <= cap
<1>1. CASE Len(s) < cap
  <2>1. Pushed(s, v, cap) = Append(s, v)
    BY <1>1 DEF Pushed
  <2>. QED  BY <1>1, <2>1, AppendProperties, LenProperties
<1>2. CASE Len(s) = cap
  <2>1. s # << >>
    BY <1>2, EmptySeq
  <2>2. Pushed(s, v, cap) = Append(Tail(s), v)
    BY <1>2 DEF Pushed
  <2>3. Tail(s) \in Seq(S) /\ Len(Tail(s)) = cap - 1
    BY <1>2, <2>1, HeadTailProperties
  <2>. QED  BY <2>2, <2>3, AppendProperties
<1>. QED  BY <1>1, <1>2, LenProperties

(* What a character and its space put in the element queue. *)
LEMMA EncodedType ==
  ASSUME NEW c \in Chars
  PROVE  /\ Append(Encode[c], SPACE) \in Seq(Didahs)
         /\ Append(Encode[c], SPACE) # << >>
         /\ Len(Append(Encode[c], SPACE)) <= DidahSize
<1>1. Encode[c] \in Seq({DIT, DAH}) /\ Len(Encode[c]) < DidahSize
  BY TablesAssumption
<1>2. Encode[c] \in Seq(Didahs)
  BY <1>1, SeqMonotonic DEF Didahs
<1>3. SPACE \in Didahs
  BY DEF Didahs
<1>4. /\ Append(Encode[c], SPACE) \in Seq(Didahs)
      /\ Len(Append(Encode[c], SPACE)) = Len(Encode[c]) + 1
  BY <1>2, <1>3, AppendProperties
<1>. QED  BY <1>1, <1>2, <1>4, EmptySeq, LenProperties, SizesAssumption

LEMMA DeliveredType ==
  ASSUME NEW b \in 0..(BitsMod - 1), NEW l \in Chars \cup {NUL}
  PROVE  Delivered(b, l) \in Seq(Chars)
<1>1. << Space >> \in Seq(Chars)
  BY TablesAssumption
<1>2. Decode[b] \in Seq(Chars)
  BY TablesAssumption
<1>. QED  BY <1>1, <1>2 DEF Delivered

DecoderOK == /\ bits \in 0..(BitsMod - 1)
             /\ last_decoded \in Chars \cup {NUL}
             /\ heard \in Seq(Chars)

LEMMA DecodeType ==
  ASSUME DecoderOK, NEW d \in Didahs, didah_decode(d)
  PROVE  DecoderOK'
<1>1. CASE d = SPACE
  <2>. DEFINE said == Delivered(bits, last_decoded)
  <2>1. said \in Seq(Chars)
    BY DeliveredType DEF DecoderOK
  <2>2. said # << >> => said[Len(said)] \in Chars
    <3>. SUFFICES ASSUME said # << >>
                  PROVE  said[Len(said)] \in Chars
      OBVIOUS
    <3>1. Len(said) \in 1..Len(said)
      BY <2>1, EmptySeq
    <3>. QED  BY <2>1, <3>1, ElementOfSeq
  <2>3. /\ heard' = said
        /\ last_decoded' = IF said = << >> THEN NUL ELSE said[Len(said)]
        /\ bits' = 1
    BY <1>1 DEF didah_decode
  <2>. QED  BY <2>1, <2>2, <2>3, SizesAssumption DEF DecoderOK
<1>2. CASE d \in {DIT, DAH}
  <2>1. /\ bits' = (2 * bits + d) % BitsMod
        /\ heard' = << >>
        /\ last_decoded' = last_decoded
    BY <1>2 DEF didah_decode, DIT, DAH, SPACE
  <2>2. 2 * bits + d \in Nat
    BY <1>2, SizesAssumption DEF DecoderOK, DIT, DAH
  <2>3. (2 * bits + d) % BitsMod \in 0..(BitsMod - 1)
    BY <2>2, SizesAssumption
  <2>. QED  BY <2>1, <2>3 DEF DecoderOK
<1>. QED  BY <1>1, <1>2 DEF Didahs

LEMMA SilentType ==
  ASSUME DecoderOK, Silent
  PROVE  DecoderOK'
BY DEF DecoderOK, Silent, decoder

-------------------------------------------------------------------------------
(* The types of everything else. *)
LineOK ==
  /\ cw_q \in Seq(Chars) /\ Len(cw_q) <= TextSize
  /\ cw_didah_q \in Seq(Didahs) /\ Len(cw_didah_q) <= DidahSize
  /\ state \in States
  /\ idle_count \in 0..(IdleWrap - 1)
  /\ adv \in {"off", "hyper", "normal"}
  /\ led \in {0, 1}

LEMMA TailType ==
  ASSUME NEW S, NEW s \in Seq(S), NEW cap \in Nat, Len(s) <= cap, s # << >>
  PROVE  /\ Head(s) \in S
         /\ Tail(s) \in Seq(S)
         /\ Len(Tail(s)) <= cap
BY HeadTailProperties, LenProperties

LEMMA SendBitType ==
  ASSUME LineOK, DecoderOK,
         NEW s \in Seq(Didahs), Len(s) <= DidahSize, SendBit(s)
  PROVE  /\ cw_didah_q' \in Seq(Didahs) /\ Len(cw_didah_q') <= DidahSize
         /\ state' \in States
         /\ idle_count' \in 0..(IdleWrap - 1)
         /\ led' \in {0, 1}
         /\ DecoderOK'
<1>1. s # << >> /\ cw_didah_q' = Tail(s) /\ didah_decode(Head(s))
  BY DEF SendBit
<1>2. /\ Head(s) \in Didahs
      /\ Tail(s) \in Seq(Didahs)
      /\ Len(Tail(s)) <= DidahSize
  BY <1>1, TailType, SizesAssumption
<1>3. DecoderOK'
  BY <1>1, <1>2, DecodeType
<1>4. state' \in {"bit_sp", "dah", "char_sp"}
  BY <1>2 DEF SendBit, Didahs
<1>5. led' \in {0, 1}
  BY DEF SendBit, LineOK
<1>6. idle_count' = 0
  BY DEF SendBit
<1>. QED  BY <1>1, <1>2, <1>3, <1>4, <1>5, <1>6, SizesAssumption DEF States

LEMMA TypeInit == Init => LineOK /\ DecoderOK
<1>. SUFFICES ASSUME Init
              PROVE  LineOK /\ DecoderOK
  OBVIOUS
<1>1. /\ << >> \in Seq(Chars)
      /\ << >> \in Seq(Didahs)
      /\ Len(<< >>) = 0
  BY EmptySeq
<1>2. LineOK
  BY <1>1, SizesAssumption DEF Init, LineOK, States
<1>3. DecoderOK
  BY <1>1, SizesAssumption DEF Init, DecoderOK
<1>. QED  BY <1>2, <1>3

LEMMA TypeCalls ==
  ASSUME LineOK, DecoderOK, Produces \/ cw_clear_queues \/ cw_set_speed
  PROVE  LineOK' /\ DecoderOK'
<1>1. ASSUME NEW c \in Chars, cw_char(c)
      PROVE  LineOK' /\ DecoderOK'
  <2>1. cw_q' \in Seq(Chars) /\ Len(cw_q') <= TextSize
    BY <1>1, PushedType, SizesAssumption DEF LineOK, cw_char
  <2>. QED  BY <1>1, <2>1, SilentType
            DEF LineOK, cw_char, machine, Woken
<1>2. ASSUME NEW d \in Didahs, didah_enqueue(d)
      PROVE  LineOK' /\ DecoderOK'
  <2>1. cw_didah_q' \in Seq(Didahs) /\ Len(cw_didah_q') <= DidahSize
    BY <1>2, PushedType, SizesAssumption DEF LineOK, didah_enqueue
  <2>. QED  BY <1>2, <2>1, SilentType
            DEF LineOK, didah_enqueue, machine, Woken
<1>3. CASE cw_clear_queues
  <2>1. LineOK'
    BY <1>3, EmptySeq, SizesAssumption DEF LineOK, cw_clear_queues, machine
  <2>2. SPACE \in Didahs
    BY DEF Didahs
  <2>3. DecoderOK'
    BY <1>3, <2>2, DecodeType, SilentType DEF cw_clear_queues
  <2>. QED  BY <2>1, <2>3
<1>4. CASE cw_set_speed
  BY <1>4, SilentType DEF LineOK, cw_set_speed, machine
<1>. QED  BY <1>1, <1>2, <1>3, <1>4 DEF Produces

LEMMA TypeTick ==
  ASSUME LineOK, DecoderOK, cw_out_advance_tick
  PROVE  LineOK' /\ DecoderOK'
<1>. USE SizesAssumption
<1>1. CASE StopTick
  BY <1>1, SilentType DEF LineOK, StopTick
<1>2. ASSUME Looking \/ Hyper, CountOn
      PROVE  idle_count' \in 0..(IdleWrap - 1)
  BY <1>2 DEF LineOK, Looking, Hyper, CountOn, Wraps
<1>3. CASE Hyper
  BY <1>2, <1>3, SilentType DEF LineOK, Hyper, States
<1>4. CASE IdleKeyed
  BY <1>4, SendBitType DEF LineOK, IdleKeyed
<1>5. CASE IdleTyped
  <2>1. Head(cw_q) \in Chars /\ cw_q' \in Seq(Chars) /\ Len(cw_q') <= TextSize
    BY <1>5, TailType DEF LineOK, IdleTyped
  <2>2. SendBit(Append(Encode[Head(cw_q)], SPACE)) /\ adv' = "normal"
    BY <1>5 DEF IdleTyped
  <2>. QED  BY <2>1, <2>2, EncodedType, SendBitType DEF LineOK
<1>6. CASE IdleSpace
  <2>1. cw_q' \in Seq(Chars) /\ Len(cw_q') <= TextSize
    BY <1>6, TailType DEF LineOK, IdleSpace
  <2>2. cw_didah_q' \in Seq(Didahs) /\ Len(cw_didah_q') <= DidahSize
    BY <1>6 DEF IdleSpace, Didahs
  <2>. QED  BY <1>2, <1>6, <2>1, <2>2, SilentType
            DEF LineOK, IdleSpace, States
<1>7. CASE IdleUnknown
  <2>1. cw_q' \in Seq(Chars) /\ Len(cw_q') <= TextSize
    BY <1>7, TailType DEF LineOK, IdleUnknown
  <2>. QED  BY <1>2, <1>7, <2>1, SilentType DEF LineOK, IdleUnknown
<1>8. CASE IdleEmpty
  BY <1>2, <1>8, SilentType DEF LineOK, IdleEmpty
<1>9. CASE SendMore
  BY <1>9, SendBitType DEF LineOK, SendMore
<1>10. CASE SendDone
  BY <1>10, SilentType DEF LineOK, SendDone, States
<1>11. CASE Wait
  <2>1. state' \in States
    BY <1>11 DEF Wait, After, States
  <2>. QED  BY <1>11, <2>1, SilentType DEF LineOK, Wait
<1>. QED  BY <1>1, <1>3, <1>4, <1>5, <1>6, <1>7, <1>8, <1>9, <1>10, <1>11
          DEF cw_out_advance_tick

LEMMA TypeStep == LineOK /\ DecoderOK /\ [Next]_vars => LineOK' /\ DecoderOK'
<1>. SUFFICES ASSUME LineOK, DecoderOK, [Next]_vars
              PROVE  LineOK' /\ DecoderOK'
  OBVIOUS
<1>1. CASE UNCHANGED vars
  BY <1>1 DEF vars, LineOK, DecoderOK
<1>. QED  BY <1>1, TypeCalls, TypeTick DEF Next

(* Queues, machine and decoder keep their types and their bounds. *)
THEOREM TypeCorrect == Spec => []TypeOK
<1>1. LineOK /\ DecoderOK => TypeOK
  BY DEF LineOK, DecoderOK, TypeOK
<1>. QED  BY <1>1, TypeInit, TypeStep, PTL DEF Spec

-------------------------------------------------------------------------------
(* The tick can only be stopped in idle because the hyper state is always  *)
(* entered with an idle count of 0, hence never when the count wraps.      *)
HyperFresh == state = "hyper" => idle_count = 0

Timing == TimedByDitLen /\ KeyDownInMarks /\ HyperFresh

LEMMA TimingInit == Init => Timing
BY DEF Init, Timing, TimedByDitLen, KeyDownInMarks, HyperFresh,
       Keying, Marking

LEMMA TimingSendBit ==
  ASSUME LineOK, Timing, NEW s \in Seq(Didahs), SendBit(s), adv' = "normal",
         state \notin Marking
  PROVE  Timing'
<1>1. Head(s) \in Didahs
  BY HeadTailProperties DEF SendBit
<1>2. CASE Head(s) = SPACE
  <2>1. state' = "char_sp"
    BY <1>2 DEF SendBit, DIT, DAH, SPACE
  <2>2. led = 0 /\ led' = 0
    BY <1>2 DEF SendBit, LineOK, Timing, KeyDownInMarks
  <2>. QED  BY <2>1, <2>2
            DEF Timing, TimedByDitLen, KeyDownInMarks, HyperFresh,
                Keying, Marking
<1>3. CASE Head(s) \in {DIT, DAH}
  <2>1. state' \in {"bit_sp", "dah"}
    BY <1>3 DEF SendBit, DIT, DAH, SPACE
  <2>2. led' = 1
    BY <1>3 DEF SendBit, DIT, DAH, SPACE
  <2>. QED  BY <2>1, <2>2
            DEF Timing, TimedByDitLen, KeyDownInMarks, HyperFresh,
                Keying, Marking
<1>. QED  BY <1>1, <1>2, <1>3 DEF Didahs

LEMMA TimingTick ==
  ASSUME LineOK, Timing, cw_out_advance_tick
  PROVE  Timing'
<1>. USE DEF Timing, TimedByDitLen, KeyDownInMarks, HyperFresh,
             Keying, Marking
<1>1. CASE StopTick
  BY <1>1, SizesAssumption DEF StopTick, Counting, Wraps
<1>2. CASE Hyper
  BY <1>2 DEF Hyper
<1>3. CASE IdleKeyed
  BY <1>3, TimingSendBit DEF IdleKeyed, Looking, LineOK
<1>4. CASE IdleTyped
  <2>1. Head(cw_q) \in Chars
    BY <1>4, HeadTailProperties DEF IdleTyped, LineOK
  <2>2. Append(Encode[Head(cw_q)], SPACE) \in Seq(Didahs)
    BY <2>1, EncodedType
  <2>3. /\ SendBit(Append(Encode[Head(cw_q)], SPACE))
        /\ adv' = "normal"
        /\ state = "idle"
    BY <1>4 DEF IdleTyped, Looking
  <2>. QED  BY <2>2, <2>3, TimingSendBit
<1>5. CASE IdleSpace \/ IdleUnknown \/ IdleEmpty
  BY <1>5 DEF IdleSpace, IdleUnknown, IdleEmpty, Looking, Counting
<1>6. CASE SendMore
  BY <1>6, TimingSendBit DEF SendMore, LineOK
<1>7. CASE SendDone
  BY <1>7 DEF SendDone
<1>8. CASE Wait
  <2>1. adv # "off" /\ adv' = adv /\ idle_count' = 0
    BY <1>8 DEF Wait
  <2>2. state = "dah" => state' = "dah2" /\ led' = led
    BY <1>8 DEF Wait, After, LineOK
  <2>3. state = "dah2" => state' = "bit_sp" /\ led' = led
    BY <1>8 DEF Wait, After, LineOK
  <2>4. state = "bit_sp" => state' = "send_bit" /\ led' = 0
    BY <1>8 DEF Wait, After
  <2>5. state \in {"char_sp", "word_sp", "word_sp2", "word_sp3"} =>
          state' \in {"hyper", "word_sp2", "word_sp3"} /\ led' = led
    BY <1>8 DEF Wait, After, LineOK
  <2>6. state \in {"dah", "dah2", "bit_sp", "char_sp",
                   "word_sp", "word_sp2", "word_sp3"}
    BY <1>8 DEF Wait, After
  <2>. QED  BY <2>1, <2>2, <2>3, <2>4, <2>5, <2>6
<1>. QED  BY <1>1, <1>2, <1>3, <1>4, <1>5, <1>6, <1>7, <1>8
          DEF cw_out_advance_tick

LEMMA TimingStep == LineOK /\ Timing /\ [Next]_vars => Timing'
<1>. SUFFICES ASSUME LineOK, Timing, [Next]_vars
              PROVE  Timing'
  OBVIOUS
<1>. USE DEF Timing, TimedByDitLen, KeyDownInMarks, HyperFresh,
             Keying, Marking, machine
<1>1. CASE Produces
  BY <1>1 DEF Produces, cw_char, didah_enqueue, Woken
<1>2. CASE cw_clear_queues \/ cw_set_speed
  BY <1>2 DEF cw_clear_queues, cw_set_speed
<1>3. CASE UNCHANGED vars
  BY <1>3 DEF vars
<1>. QED  BY <1>1, <1>2, <1>3, TimingTick DEF Next

(* No element, and no gap inside a character or at its end, is ever timed  *)
(* by the millisecond tick, and the tick never stops half way.  Nothing is *)
(* said of the gap between words, which does run at that rate.             *)
THEOREM AlwaysTimed == Spec => []TimedByDitLen
<1>1. Timing => TimedByDitLen
  BY DEF Timing
<1>. QED  BY <1>1, TypeInit, TypeStep, TimingInit, TimingStep, PTL DEF Spec

(* The key is down exactly while an element's units are counted. *)
THEOREM KeyFollowsMachine == Spec => []KeyDownInMarks
<1>1. Timing => KeyDownInMarks
  BY DEF Timing
<1>. QED  BY <1>1, TypeInit, TypeStep, TimingInit, TimingStep, PTL DEF Spec
-------------------------------------------------------------------------------
(* Refinement: the state machine counts the units KeyLine counts down. *)
LEMMA DownOutsideMarks ==
  ASSUME state \notin Marking
  PROVE  Down = 0
BY DEF Down, Marking

LEMMA LineInit == Init => Line!Init
BY DEF Init, Line!Init, Down

LEMMA SendBitStarts ==
  ASSUME LineOK, state \notin Marking, NEW s \in Seq(Didahs), SendBit(s)
  PROVE  Line!Start(s)
<1>1. Head(s) \in Didahs /\ s # << >> /\ cw_didah_q' = Tail(s)
  BY HeadTailProperties DEF SendBit
<1>2. Down = 0
  BY DownOutsideMarks
<1>3. Down' = Line!Length[Head(s)]
  <2>1. CASE Head(s) = DIT
    BY <2>1 DEF SendBit, Down, Line!Length, Line!DIT, Line!DAH, Line!SPACE,
                DIT, DAH, SPACE
  <2>2. CASE Head(s) = DAH
    BY <2>2 DEF SendBit, Down, Line!Length, Line!DIT, Line!DAH, Line!SPACE,
                DIT, DAH, SPACE
  <2>3. CASE Head(s) = SPACE
    BY <2>3 DEF SendBit, Down, Line!Length, Line!DIT, Line!DAH, Line!SPACE,
                DIT, DAH, SPACE
  <2>. QED  BY <1>1, <2>1, <2>2, <2>3 DEF Didahs
<1>. QED  BY <1>1, <1>2, <1>3 DEF Line!Start

LEMMA LineTick ==
  ASSUME LineOK, cw_out_advance_tick
  PROVE  [Line!Next]_(Line!vars)
<1>1. CASE StopTick \/ Hyper
  <2>1. Down' = Down
    BY <1>1 DEF StopTick, Hyper, Down
  <2>. QED  BY <1>1, <2>1 DEF StopTick, Hyper, Line!vars
<1>2. CASE IdleKeyed \/ SendMore
  <2>1. Line!Start(cw_didah_q)
    BY <1>2, SendBitStarts DEF IdleKeyed, SendMore, Looking, LineOK, Marking
  <2>2. Line!StartWaiting
    BY <1>2, <2>1 DEF IdleKeyed, SendMore, Line!StartWaiting
  <2>. QED  BY <2>2 DEF Line!Next
<1>3. CASE IdleTyped
  <2>1. Head(cw_q) \in Chars
    BY <1>3, HeadTailProperties DEF IdleTyped, LineOK
  <2>2. Append(Encode[Head(cw_q)], SPACE) \in Seq(Didahs)
    BY <2>1, EncodedType
  <2>3. Line!Start(Append(Encode[Head(cw_q)], SPACE))
    BY <1>3, <2>2, SendBitStarts DEF IdleTyped, Looking, Marking
  <2>4. Line!StartTyped
    BY <1>3, <2>3 DEF IdleTyped, Line!StartTyped, Line!SPACE, SPACE
  <2>. QED  BY <2>4 DEF Line!Next
<1>4. CASE IdleSpace
  <2>1. Down = 0 /\ Down' = Down
    BY <1>4 DEF IdleSpace, Looking, Down
  <2>2. Encode[Head(cw_q)] = << >>
    BY <1>4, TablesAssumption DEF IdleSpace
  <2>3. Line!StartTyped
    BY <1>4, <2>1, <2>2 DEF IdleSpace, Line!StartTyped, Line!SPACE, SPACE
  <2>. QED  BY <2>3 DEF Line!Next
<1>5. CASE IdleUnknown
  <2>1. Down = 0 /\ Down' = Down
    BY <1>5 DEF IdleUnknown, Looking, Down
  <2>2. Line!StartTyped
    BY <1>5, <2>1 DEF IdleUnknown, Line!StartTyped
  <2>. QED  BY <2>2 DEF Line!Next
<1>6. CASE IdleEmpty
  BY <1>6 DEF IdleEmpty, Line!vars, Down
<1>7. CASE SendDone
  <2>1. Down' = Down
    BY <1>7 DEF SendDone, Down
  <2>. QED  BY <1>7, <2>1 DEF SendDone, Line!vars
<1>8. CASE Wait
  <2>1. UNCHANGED << cw_q, cw_didah_q >> /\ state' = After[state]
    BY <1>8 DEF Wait
  <2>2. CASE state \in Marking
    <3>1. Down > 0 /\ Down' = Down - 1
      BY <2>1, <2>2 DEF Marking, After, Down
    <3>. QED  BY <2>1, <3>1 DEF Line!Unit, Line!Next
  <2>3. CASE state \notin Marking
    <3>1. Down' = Down
      BY <1>8, <2>1, <2>3 DEF Wait, Marking, After, Down
    <3>. QED  BY <2>1, <3>1 DEF Line!vars
  <2>. QED  BY <2>2, <2>3
<1>. QED  BY <1>1, <1>2, <1>3, <1>4, <1>5, <1>6, <1>7, <1>8
          DEF cw_out_advance_tick

LEMMA LineStep == LineOK /\ [Next]_vars => [Line!Next]_(Line!vars)
<1>. SUFFICES ASSUME LineOK, [Next]_vars
              PROVE  [Line!Next]_(Line!vars)
  OBVIOUS
<1>1. ASSUME UNCHANGED state
      PROVE  Down' = Down
  BY <1>1 DEF Down
<1>2. ASSUME NEW c \in Chars, cw_char(c)
      PROVE  Line!Next
  <2>1. Line!Type(c)
    BY <1>1, <1>2 DEF cw_char, machine, Line!Type, Line!Pushed, Pushed
  <2>. QED  BY <2>1 DEF Line!Next
<1>3. ASSUME NEW d \in Didahs, didah_enqueue(d)
      PROVE  Line!Next
  <2>1. Line!Key(d)
    BY <1>1, <1>3 DEF didah_enqueue, machine, Line!Key, Line!Pushed, Pushed
  <2>2. d \in {Line!DIT, Line!DAH, Line!SPACE}
    BY DEF Didahs, DIT, DAH, SPACE, Line!DIT, Line!DAH, Line!SPACE
  <2>. QED  BY <2>1, <2>2 DEF Line!Next
<1>4. CASE cw_clear_queues
  <2>1. Line!Clear
    BY <1>1, <1>4 DEF cw_clear_queues, machine, Line!Clear
  <2>. QED  BY <2>1 DEF Line!Next
<1>5. CASE cw_set_speed
  BY <1>1, <1>5 DEF cw_set_speed, machine, Line!vars
<1>6. CASE UNCHANGED vars
  BY <1>1, <1>6 DEF vars, Line!vars
<1>. QED  BY <1>2, <1>3, <1>4, <1>5, <1>6, LineTick DEF Next, Produces

(* Whatever is queued, cleared or sped up meanwhile, every element that    *)
(* starts is keyed whole, in order, a dit for one unit and a dah for three. *)
THEOREM CwOutKeysLine == Spec => ImplementsKeyLine
<1>1. Spec => [](LineOK /\ DecoderOK)
  BY TypeInit, TypeStep, PTL DEF Spec
<1>. QED  BY <1>1, LineInit, LineStep, PTL
          DEF Spec, ImplementsKeyLine, Line!Spec
===============================================================================
