----------------------------- MODULE OutputsProofs -----------------------------
(***************************************************************************)
(* Proofs about the outputs, for any set of frequencies.  That the pin     *)
(* goes up once at most after the key went up needs to be known together   *)
(* with what makes it so: nothing is flagged once it has been served.  The *)
(* tone is arithmetic, on what the divisions of cw_set_frequency leave.    *)
(***************************************************************************)
EXTENDS Outputs, TLAPS

Types ==
  /\ late \in Nat
  /\ key \in BOOLEAN /\ pin \in BOOLEAN /\ flagged \in BOOLEAN
  /\ unmasked \in BOOLEAN /\ beeper \in BOOLEAN
  /\ command_mode \in BOOLEAN
  /\ driven \subseteq All /\ span \subseteq BOOLEAN

Served == ~key /\ late = 1 => ~flagged

Masked == unmasked = beeper

(* Command mode drives neither output, and everything else drives both;    *)
(* the mode of the present is one the element has been keyed in.           *)
DrivenByMode == {"keyer", "didah"} \cap driven
                  = IF command_mode THEN {} ELSE {"keyer", "didah"}
Spanned == key => command_mode \in span

IInv == /\ Types /\ Masked
        /\ SilentUnlessKeyed /\ Served
        /\ DrivenByMode /\ Spanned

LEMMA InvariantInit == Init => IInv
<1>. SUFFICES ASSUME Init
              PROVE  IInv
  OBVIOUS
<1>1. Types /\ Masked /\ Served
  BY DEF Init, Types, Masked, Served
<1>2. SilentUnlessKeyed
  BY DEF Init, SilentUnlessKeyed
<1>3. DrivenByMode /\ Spanned
  BY DEF Init, DrivenByMode, Spanned, All
<1>. QED  BY <1>1, <1>2, <1>3 DEF IInv

(* The types and the mask do not depend on what is keyed.                  *)
LEMMA TypesStep == Types /\ Masked /\ [Next]_vars => Types' /\ Masked'
<1>. SUFFICES ASSUME Types, Masked, [Next]_vars
              PROVE  Types' /\ Masked'
  OBVIOUS
<1>. USE DEF Types, Masked, timer3
<1>1. CASE cw_led_on
  BY <1>1 DEF cw_led_on
<1>2. CASE cw_led_off
  BY <1>2 DEF cw_led_off
<1>3. CASE Match
  BY <1>3 DEF Match
<1>4. CASE toggle_bit
  <2>1. pin' \in BOOLEAN
    BY <1>4, ZenonT(20) DEF toggle_bit
  <2>2. late' \in Nat
    BY <1>4 DEF toggle_bit
  <2>. QED  BY <1>4, <2>1, <2>2 DEF toggle_bit
<1>5. ASSUME NEW beep \in BOOLEAN, NEW freq \in Tones, cw_set_beeper(beep, freq)
      PROVE  Types' /\ Masked'
  BY <1>5 DEF cw_set_beeper, All
<1>6. ASSUME NEW freq \in Tones, SetTone(freq)
      PROVE  Types' /\ Masked'
  BY <1>6 DEF SetTone
<1>7. ASSUME NEW mode \in BOOLEAN, set_command_mode(mode)
      PROVE  Types' /\ Masked'
  BY <1>7 DEF set_command_mode, All
<1>8. CASE UNCHANGED vars
  BY <1>8 DEF vars
<1>. QED  BY <1>1, <1>2, <1>3, <1>4, <1>5, <1>6, <1>7, <1>8 DEF Next

(* Only the end of an element and a late interrupt change what is heard    *)
(* between elements, and after cw_led_off timer 3 stands still.            *)
LEMMA SilenceStep ==
  ASSUME Types, SilentUnlessKeyed, Served, [Next]_vars
  PROVE  SilentUnlessKeyed' /\ Served'
<1>. USE DEF Types, SilentUnlessKeyed, Served, timer3
<1>1. CASE cw_led_on
  BY <1>1 DEF cw_led_on
<1>2. CASE cw_led_off
  BY <1>2 DEF cw_led_off
<1>3. CASE Match
  BY <1>3 DEF Match
<1>4. CASE toggle_bit
  <2>1. CASE key
    BY <1>4, <2>1 DEF toggle_bit
  <2>2. CASE ~key
    <3>1. late = 0 /\ pin = FALSE
      BY <1>4, <2>2 DEF toggle_bit
    <3>2. pin' = TRUE
      BY <1>4, <3>1, Zenon DEF toggle_bit
    <3>3. late' = 1 /\ flagged' = FALSE /\ scale' = 0
      BY <1>4, <2>2, <3>1 DEF toggle_bit
    <3>. QED  BY <3>2, <3>3
  <2>. QED  BY <2>1, <2>2
<1>5. ASSUME NEW beep \in BOOLEAN, NEW freq \in Tones, cw_set_beeper(beep, freq)
      PROVE  SilentUnlessKeyed' /\ Served'
  BY <1>5 DEF cw_set_beeper
<1>6. ASSUME NEW freq \in Tones, SetTone(freq)
      PROVE  SilentUnlessKeyed' /\ Served'
  BY <1>6 DEF SetTone
<1>7. ASSUME NEW mode \in BOOLEAN, set_command_mode(mode)
      PROVE  SilentUnlessKeyed' /\ Served'
  BY <1>7 DEF set_command_mode
<1>8. CASE UNCHANGED vars
  BY <1>8 DEF vars
<1>. QED  BY <1>1, <1>2, <1>3, <1>4, <1>5, <1>6, <1>7, <1>8 DEF Next

LEMMA DrivenStep ==
  ASSUME DrivenByMode, [Next]_vars
  PROVE  DrivenByMode'
<1>1. ASSUME NEW beep \in BOOLEAN, NEW freq \in Tones, cw_set_beeper(beep, freq)
      PROVE  DrivenByMode'
  <2>1. {"keyer", "didah"} \cap driven' = {"keyer", "didah"} \cap driven
    BY <1>1 DEF cw_set_beeper, All
  <2>. QED  BY <1>1, <2>1 DEF DrivenByMode, cw_set_beeper
<1>2. ASSUME NEW mode \in BOOLEAN, set_command_mode(mode)
      PROVE  DrivenByMode'
  BY <1>2 DEF DrivenByMode, set_command_mode
<1>3. CASE UNCHANGED << driven, command_mode >>
  BY <1>3 DEF DrivenByMode
<1>. QED  BY <1>1, <1>2, <1>3 DEF Next, vars, cw_led_on, cw_led_off, Match,
          toggle_bit, SetTone

LEMMA SpannedStep ==
  ASSUME Types, Spanned, [Next]_vars
  PROVE  Spanned'
<1>1. CASE cw_led_on
  BY <1>1 DEF cw_led_on, Spanned
<1>2. CASE cw_led_off
  BY <1>2 DEF cw_led_off, Spanned
<1>3. ASSUME NEW mode \in BOOLEAN, set_command_mode(mode)
      PROVE  Spanned'
  BY <1>3 DEF set_command_mode, Spanned
<1>4. CASE UNCHANGED << key, command_mode, span >>
  BY <1>4 DEF Spanned
<1>. QED  BY <1>1, <1>2, <1>3, <1>4 DEF Next, vars, Match, toggle_bit,
          cw_set_beeper, SetTone

LEMMA InvariantStep == IInv /\ [Next]_vars => IInv'
BY TypesStep, SilenceStep, DrivenStep, SpannedStep DEF IInv

(* However long a late interrupt is delayed, the beeper's pin is toggled   *)
(* once at most between two elements, with the timer standing still.       *)
THEOREM SilenceKept == Spec => []SilentUnlessKeyed
<1>1. IInv => SilentUnlessKeyed
  BY DEF IInv
<1>. QED  BY <1>1, InvariantInit, InvariantStep, PTL DEF Spec

(* An element that command mode was neither entered nor left in is either  *)
(* off the air or on it from end to end, whatever is set meanwhile.        *)
THEOREM StaysOffAir == Spec => []OffAir
<1>1. IInv => OffAir
  <2>. SUFFICES ASSUME IInv, key
                PROVE  /\ span = {TRUE} => {"keyer", "didah"} \cap driven = {}
                       /\ span = {FALSE} => {"keyer", "didah"} \subseteq driven
    BY DEF OffAir
  <2>1. span = {TRUE} => command_mode
    BY DEF IInv, Spanned
  <2>2. span = {FALSE} => ~command_mode
    BY DEF IInv, Spanned
  <2>. QED  BY <2>1, <2>2 DEF IInv, DrivenByMode
<1>. QED  BY <1>1, InvariantInit, InvariantStep, PTL DEF Spec

(* Without the beeper no interrupt is ever served.                         *)
LEMMA QuietStep == IInv /\ [Next]_vars => [pin' /\ ~pin => beeper]_vars
<1>. SUFFICES ASSUME IInv, Next, pin', ~pin
              PROVE  beeper
  BY DEF vars
<1>1. CASE toggle_bit
  BY <1>1 DEF toggle_bit, IInv, Masked
<1>2. CASE pin' = FALSE \/ pin' = pin
  BY <1>2
<1>. QED  BY <1>1, <1>2 DEF Next, cw_led_on, cw_led_off, Match, cw_set_beeper,
          SetTone, set_command_mode

THEOREM QuietStaysQuiet == Spec => QuietIsQuiet
BY QuietStep, InvariantInit, InvariantStep, PTL DEF Spec, QuietIsQuiet
-------------------------------------------------------------------------------
(* The tone: what the divisions of cw_set_frequency leave over.            *)
LEMMA Division ==
  ASSUME NEW a \in Nat, NEW b \in Nat \ {0}
  PROVE  a \div b \in Nat /\ (a \div b) * b <= a /\ a < (a \div b) * b + b
  BY SMT

(* Half a period in clocks: two divisions lose less than 2 * f of them,    *)
(* and only a low tone needs the prescaler.                                *)
HalfOf(f, half) ==
  /\ half \in Nat /\ 3137 <= half /\ half <= 100000
  /\ 2 * f * half <= 1600000
  /\ 1600000 - 2 * f < 2 * f * half
  /\ half > 65536 => f <= 12

LEMMA HalfPeriod ==
  ASSUME NEW f \in 8..255,
         NEW half, half = ((F_CPU \div 10) \div f) \div 2
  PROVE  HalfOf(f, half)
<1>. DEFINE q == 1600000 \div f
<1>1. F_CPU \div 10 = 1600000
  BY SMT DEF F_CPU
<1>2. q \in Nat /\ q * f <= 1600000 /\ 1600000 < q * f + f
  BY Division, SMT
<1>a. half = q \div 2
  BY <1>1, SMT
<1>. HIDE DEF q
<1>3. half \in Nat
  BY <1>a, <1>2, SMT
<1>4. q = 2 * half \/ q = 2 * half + 1
  BY <1>2, <1>a, SMT
<1>5. q * f = 2 * f * half \/ q * f = 2 * f * half + f
  BY <1>2, <1>3, <1>4, SMT
<1>6. half >= 3137
  <2>2. q >= 6274
    BY <1>2, SMT
  <2>. QED  BY <1>3, <1>4, <2>2, SMT
<1>7. half <= 100000
  <2>2. q <= 200000
    BY <1>2, SMT
  <2>. QED  BY <1>3, <1>4, <2>2, SMT
<1>8. half > 65536 => f <= 12
  BY <1>2, <1>3, <1>4, SMT
<1>9. 2 * f * half <= 1600000 /\ 1600000 - 2 * f < 2 * f * half
  <2>. DEFINE x == q * f
              y == 2 * f * half
  <2>1. x \in Int /\ y \in Int
    BY <1>2, <1>3, SMT
  <2>2. x <= 1600000 /\ 1600000 < x + f
    BY <1>2, SMT
  <2>3. x = y \/ x = y + f
    BY <1>5, SMT
  <2>. HIDE DEF x, y
  <2>4. y <= 1600000 /\ 1600000 - 2 * f < y
    BY <2>1, <2>2, <2>3, SMT
  <2>. QED  BY <2>4, SMT DEF y
<1>. QED  BY <1>3, <1>6, <1>7, <1>8, <1>9, SMT DEF HalfOf

(* What ToneTrue asks of a setting of the timer.                           *)
InTune(f, set) ==
  /\ set.top \in 0..TopMax
  /\ 2 * set.by * (set.top + 1) * 10 * f - F_CPU
       \in -(F_CPU \div 1000)..(F_CPU \div 1000)

LEMMA CloseEnough ==
  ASSUME NEW x \in Int, -16000 <= x - 16000000, x - 16000000 <= 16000
  PROVE  x - F_CPU \in -(F_CPU \div 1000)..(F_CPU \div 1000)
<1>1. F_CPU \in Int /\ F_CPU \div 1000 \in Int
  BY SMT DEF F_CPU
<1>2. /\ -(F_CPU \div 1000) <= x - F_CPU
      /\ x - F_CPU <= F_CPU \div 1000
  BY SMT DEF F_CPU
<1>3. \A a, b, y \in Int : a <= y /\ y <= b => y \in a..b
  BY SMT
<1>. QED  BY <1>1, <1>2, <1>3, SMT

LEMMA TopFits ==
  ASSUME NEW x \in Int, 0 <= x, x <= 65535
  PROVE  x \in 0..TopMax
<1>1. TopMax \in Int /\ x <= TopMax
  BY SMT DEF TopMax
<1>. QED  BY <1>1, SMT

LEMMA PlainTone ==
  ASSUME NEW f \in 8..255, NEW half \in Nat,
         2 * f * half <= 1600000, 1600000 - 2 * f < 2 * f * half
  PROVE  /\ -16000 <= 2 * 1 * (half - 1 + 1) * 10 * f - 16000000
         /\ 2 * 1 * (half - 1 + 1) * 10 * f - 16000000 <= 16000
<1>. DEFINE y == 2 * f * half
<1>1. y \in Int /\ y <= 1600000 /\ 1600000 - 2 * f < y
  BY SMT
<1>2. 2 * 1 * (half - 1 + 1) * 10 * f = 10 * y
  BY SMT
<1>. HIDE DEF y
<1>. QED  BY <1>1, <1>2, SMT

LEMMA ScaledTone ==
  ASSUME NEW f \in 8..12, NEW d \in Nat, NEW half \in Nat,
         d * 64 <= half, half <= d * 64 + 63,
         2 * f * half <= 1600000, 1600000 - 2 * f < 2 * f * half
  PROVE  /\ -16000 <= 2 * 64 * (d - 1 + 1) * 10 * f - 16000000
         /\ 2 * 64 * (d - 1 + 1) * 10 * f - 16000000 <= 16000
<1>. DEFINE y == f * half
            z == f * d
            w == f * (half - d * 64)
<1>1. y \in Int /\ z \in Int /\ 2 * y <= 1600000 /\ 1600000 - 2 * f < 2 * y
  BY SMT
<1>2. half - d * 64 \in 0..63
  BY SMT
<1>3. w = y - 64 * z
  BY SMT
<1>4. w >= 0 /\ w <= 63 * f
  BY <1>2, SMT
<1>5. 2 * 64 * (d - 1 + 1) * 10 * f = 1280 * z
  BY SMT
<1>. HIDE DEF y, z, w
<1>. QED  BY <1>1, <1>3, <1>4, <1>5, SMT

Scaled(half) == IF half - 1 <= TopMax
                  THEN [by |-> 1, top |-> half - 1]
                  ELSE [by |-> 64, top |-> half \div 64 - 1]

LEMMA PlainOrScaled ==
  ASSUME NEW f \in 8..255, NEW half, HalfOf(f, half)
  PROVE  InTune(f, Scaled(half))
<1>0. /\ half \in Nat /\ 3137 <= half /\ half <= 100000
      /\ 2 * f * half <= 1600000
      /\ 1600000 - 2 * f < 2 * f * half
      /\ half > 65536 => f <= 12
  BY SMT DEF HalfOf
<1>1. CASE half <= 65536
  <2>1. half - 1 \in Int /\ 0 <= half - 1 /\ half - 1 <= 65535
    BY <1>0, <1>1, SMT
  <2>2. half - 1 \in 0..TopMax
    BY <2>1, TopFits, SMT
  <2>3. PICK x \in Int : x = 2 * 1 * (half - 1 + 1) * 10 * f
    BY <1>0, SMT
  <2>4. -16000 <= x - 16000000 /\ x - 16000000 <= 16000
    BY <1>0, <2>3, PlainTone, SMT
  <2>5. x - F_CPU \in -(F_CPU \div 1000)..(F_CPU \div 1000)
    BY <2>4, CloseEnough, SMT
  <2>6. Scaled(half) = [by |-> 1, top |-> half - 1]
    BY <2>1, SMT DEF Scaled, TopMax
  <2>. QED  BY <2>2, <2>3, <2>5, <2>6, SMT DEF InTune
<1>2. CASE half > 65536
  <2>1. f \in 8..12
    BY <1>0, <1>2, SMT
  <2>2. PICK d \in Nat : d = half \div 64
    BY <1>0, SMT
  <2>3. d * 64 <= half /\ half <= d * 64 + 63
    BY <1>0, <2>2, SMT
  <2>4. d - 1 \in Int /\ 0 <= d - 1 /\ d - 1 <= 65535
    BY <1>0, <1>2, <2>3, SMT
  <2>5. d - 1 \in 0..TopMax
    BY <2>4, TopFits, SMT
  <2>6. PICK x \in Int : x = 2 * 64 * (d - 1 + 1) * 10 * f
    BY SMT
  <2>7. -16000 <= x - 16000000 /\ x - 16000000 <= 16000
    BY <1>0, <2>1, <2>3, <2>6, ScaledTone, SMT
  <2>8. x - F_CPU \in -(F_CPU \div 1000)..(F_CPU \div 1000)
    BY <2>7, CloseEnough, SMT
  <2>9. Scaled(half) = [by |-> 64, top |-> d - 1]
    BY <1>0, <1>2, <2>2, SMT DEF Scaled, TopMax
  <2>. QED  BY <2>5, <2>6, <2>8, <2>9, SMT DEF InTune
<1>. QED  BY <1>0, <1>1, <1>2, SMT

(* Every byte has its tone.                                                *)
LEMMA ToneOfByte ==
  ASSUME NEW f \in 8..255, Asked(f) = f
  PROVE  InTune(f, Tone(f))
<1>1. PICK half : half = ((F_CPU \div 10) \div f) \div 2
  OBVIOUS
<1>2. InTune(f, Scaled(half))
  BY <1>1, HalfPeriod, PlainOrScaled, Zenon
<1>3. Tone(f) = Scaled(half)
  BY <1>1, SMT DEF Tone, Scaled
<1>. QED  BY <1>2, <1>3, Zenon
-------------------------------------------------------------------------------
(* The timer is set to what cw_set_frequency gives for the byte stored.    *)
TuneOK ==
  /\ hz \in 8..255 /\ Asked(hz) = hz
  /\ beeper_clock = Tone(hz).by
  /\ top = Tone(hz).top

LEMMA AskedByte ==
  ASSUME NEW freq \in Tones
  PROVE  /\ Asked(freq) \in 8..255
         /\ Asked(Asked(freq)) = Asked(freq)
         /\ Tone(Asked(freq)) = Tone(freq)
<1>1. Asked(freq) \in 8..255
  BY TonesAssumption, SMT DEF Asked
<1>2. Asked(Asked(freq)) = Asked(freq)
  BY TonesAssumption, SMT DEF Asked
<1>3. Tone(Asked(freq)) = Tone(freq)
  BY <1>2, SMT DEF Tone
<1>. QED  BY <1>1, <1>2, <1>3

LEMMA TuneInit == Init => TuneOK
BY AskedByte, SMT DEF Init, TuneOK

LEMMA TuneSet ==
  ASSUME NEW freq \in Tones, cw_set_frequency(freq)
  PROVE  TuneOK'
BY AskedByte, SMT DEF cw_set_frequency, TuneOK

LEMMA TuneStep ==
  ASSUME TuneOK, [Next]_vars
  PROVE  TuneOK'
<1>1. ASSUME NEW beep \in BOOLEAN, NEW freq \in Tones, cw_set_beeper(beep, freq)
      PROVE  TuneOK'
  BY <1>1, TuneSet, Zenon DEF cw_set_beeper
<1>2. ASSUME NEW freq \in Tones, SetTone(freq)
      PROVE  TuneOK'
  BY <1>2, TuneSet, Zenon DEF SetTone
<1>3. CASE UNCHANGED tone
  BY <1>3, SMT DEF TuneOK, tone
<1>. QED  BY <1>1, <1>2, <1>3, SMT DEF Next, vars, cw_led_on, cw_led_off, Match,
          toggle_bit, set_command_mode, tone

(* Whatever byte EEPROM held or a command gave, the timer's 16 bits        *)
(* suffice, and an element sounds within a thousandth of what is stored.   *)
THEOREM ElementsInTune == Spec => []ToneTrue
<1>1. TuneOK => ToneTrue
  <2>. SUFFICES ASSUME TuneOK PROVE ToneTrue
    OBVIOUS
  <2>1. InTune(hz, Tone(hz))
    BY ToneOfByte, SMT DEF TuneOK
  <2>. QED  BY <2>1, SMT DEF InTune, ToneTrue, TuneOK
<1>2. TuneOK /\ [Next]_vars => TuneOK'
  BY TuneStep
<1>. QED  BY <1>1, <1>2, TuneInit, PTL DEF Spec
===============================================================================
