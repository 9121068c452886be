----------------------------- MODULE SettingsProofs ----------------------------
(***************************************************************************)
(* Proofs about the settings, for every number of presets, settings and    *)
(* memories, and wherever power is lost.                                   *)
(***************************************************************************)
EXTENDS Settings, FiniteSetTheorems, TLAPS

(* The EEPROM, byte by byte. *)
EeOK(e) ==
  /\ e \in [Cells -> BOOLEAN \cup Nat]
  /\ e[signature] \in BOOLEAN
  /\ e[current_preset] \in Presets \cup {Erased}
  /\ \A p \in Presets, f \in Fields : e[Preset(p, f)] \in Values
  /\ \A m \in Memories : e[memory_repeat(m)] \in Freqs \cup {Erased}

Whole(e) ==
  \A p \in Presets, f \in Fields : e[Preset(p, f)] \notin {Erased, Stale}

(* The number of the preset is written after the presets.                  *)
RecordedLast(e) == e[current_preset] # Erased => Whole(e)

EepromOK == EeOK(ee) /\ inherited \in BOOLEAN /\ (inherited \/ RecordedLast(ee))

(* While the program runs under a preset that exists: the preset that is   *)
(* recorded is the one in use, or the defaults were stored since.          *)
PresetOK ==
  Running =>
    /\ ee[signature] /\ ee[current_preset] # Erased
    /\ wiped \/ ee[current_preset] = cp
    /\ ee[current_preset] # cp =>
         \A f \in Fields : ee[Preset(ee[current_preset], f)] = Default

(* Between two and five seconds the defaults are in use.                   *)
ButtonOK ==
  /\ ~on => held = 0
  /\ Running /\ held = 2 =>
       ~command_mode /\ \A f \in Fields : inUse[f] = Default

StateOK ==
  /\ on \in BOOLEAN /\ command_mode \in BOOLEAN
  /\ wiped \in BOOLEAN /\ again \in BOOLEAN /\ inject \in BOOLEAN
  /\ cp \in Presets \cup {Erased}
  /\ held \in 0..3
  /\ inUse \in [Fields -> Values]

RepeatOK ==
  /\ repeat_q \in [Memories -> [next : 0..(Minutes - 1),
                                freq : Freqs \cup {Erased}]]
  /\ this_minute \in 0..(Minutes - 1)
  /\ string_inject_count \in 0..(CountMod - 1)
  /\ ~on => this_minute = 0

IInv == EepromOK /\ PresetOK /\ ButtonOK /\ StateOK /\ RepeatOK /\ StoredInUse
          /\ DueInPeriod /\ RepeatsTick
-------------------------------------------------------------------------------
(* The bytes and the order in which settings_default writes them. *)

LEMMA CellsIn ==
  /\ signature \in Cells /\ current_preset \in Cells
  /\ \A p \in Presets, f \in Fields : Preset(p, f) \in Cells
  /\ \A m \in Memories : memory_repeat(m) \in Cells
BY DEF Cells, signature, current_preset, Preset, memory_repeat

LEMMA CellsApart ==
  /\ signature # current_preset
  /\ \A p, f : Preset(p, f) # signature /\ Preset(p, f) # current_preset
  /\ \A m : memory_repeat(m) # signature /\ memory_repeat(m) # current_preset
  /\ \A p, f, m : Preset(p, f) # memory_repeat(m)
  /\ \A p, f, q, g : Preset(p, f) = Preset(q, g) <=> p = q /\ f = g
  /\ \A m, n : memory_repeat(m) = memory_repeat(n) <=> m = n
BY DEF signature, current_preset, Preset, memory_repeat

LEMMA RankOf ==
  /\ Rank(signature) = 0
  /\ Rank(current_preset) = PresetCount * FieldCount + 1
  /\ \A p, f : Rank(Preset(p, f)) = p * FieldCount + f
  /\ \A m : Rank(memory_repeat(m)) = PresetCount * FieldCount + 2 + m
BY DEF Rank, signature, current_preset, Preset, memory_repeat

LEMMA PresetsFirst ==
  ASSUME NEW p \in Presets, NEW f \in Fields
  PROVE  /\ p * FieldCount + f \in Int
         /\ p * FieldCount + f <= PresetCount * FieldCount
BY SizesAssumption DEF Presets, Fields

LEMMA Sizes ==
  /\ wpm \in Fields /\ autospace \in Fields /\ 0 \in Presets
  /\ Default # Stale /\ Chosen # Stale /\ Safe # Stale
  /\ PresetCount * FieldCount \in Nat /\ MemoryCount \in Nat
  /\ Default \in Values /\ Chosen \in Values /\ Safe \in Values
  /\ Default # Erased /\ Chosen # Erased /\ Safe # Erased
  /\ Values \subseteq Nat /\ Presets \subseteq Nat /\ Erased \in Nat
  /\ Erased \notin Presets
  /\ Freqs \subseteq Nat /\ 0 \in Freqs /\ Erased \in Values
BY SizesAssumption, FreqAssumption DEF wpm, autospace, Fields, Presets, Values,
   Default, Chosen, Safe, Stale, Erased

(* Every byte of the defaults is what it was or its default. *)
ByteByByte(d, e, n) ==
  /\ \A x \in Cells : Rank(x) > n => d[x] = e[x]
  /\ \A x \in Cells \ {signature} : ~(Rank(x) > n) => d[x] = Default
  /\ ~(Rank(signature) > n) => d[signature] = TRUE
  /\ d = [x \in Cells |-> d[x]]

LEMMA DefaultedBytes ==
  ASSUME NEW e, NEW n
  PROVE  ByteByByte(DefaultedUpTo(e, n), e, n)
BY CellsIn DEF DefaultedUpTo, ByteByByte

LEMMA DefaultedType ==
  ASSUME NEW e, EeOK(e), NEW n \in Int
  PROVE  EeOK(DefaultedUpTo(e, n))
<1>. DEFINE d == DefaultedUpTo(e, n)
<1>0. d = DefaultedUpTo(e, n)
  OBVIOUS
<1>. HIDE DEF d
<1>1. ByteByByte(d, e, n)
  BY <1>0, DefaultedBytes
<1>2. d = [x \in Cells |-> d[x]]
  BY <1>1 DEF ByteByByte
<1>3. d \in [Cells -> BOOLEAN \cup Nat]
  <2>1. \A x \in Cells : d[x] \in BOOLEAN \cup Nat
    BY <1>1, Sizes DEF EeOK, ByteByByte
  <2>. QED  BY <1>2, <2>1
<1>4. d[signature] \in BOOLEAN
  BY <1>1, CellsIn DEF EeOK, ByteByByte
<1>5. d[current_preset] \in Presets \cup {Erased}
  BY <1>1, CellsIn, CellsApart, Sizes DEF EeOK, Default, ByteByByte
<1>6. \A p \in Presets, f \in Fields : d[Preset(p, f)] \in Values
  BY <1>1, CellsIn, CellsApart, Sizes DEF EeOK, ByteByByte
<1>7. \A m \in Memories : d[memory_repeat(m)] \in Freqs \cup {Erased}
  BY <1>1, CellsIn, CellsApart, Sizes DEF EeOK, Default, ByteByByte
<1>. QED  BY <1>3, <1>4, <1>5, <1>6, <1>7 DEF EeOK, d

(* Wherever the defaults are cut short, the presets come first. *)
LEMMA DefaultedLast ==
  ASSUME NEW e, inherited \/ RecordedLast(e), NEW n \in Int
  PROVE  Inherits(n) \/ RecordedLast(DefaultedUpTo(e, n))
<1>. DEFINE d == DefaultedUpTo(e, n)
<1>0. d = DefaultedUpTo(e, n)
  OBVIOUS
<1>. HIDE DEF d
<1>1. ByteByByte(d, e, n)
  BY <1>0, DefaultedBytes
<1>2. \A p \in Presets, f \in Fields :
        d[Preset(p, f)] = IF p * FieldCount + f > n THEN e[Preset(p, f)]
                          ELSE Default
  BY <1>1, CellsIn, CellsApart, RankOf DEF ByteByByte
<1>3. d[current_preset] = IF PresetCount * FieldCount + 1 > n
                          THEN e[current_preset] ELSE Default
  BY <1>1, CellsIn, CellsApart, RankOf DEF ByteByByte
<1>4. CASE Whole(e)
  <2>1. \A p \in Presets, f \in Fields : d[Preset(p, f)] \notin {Erased, Stale}
    BY <1>2, <1>4, Sizes DEF Whole
  <2>. QED  BY <2>1 DEF RecordedLast, Whole, d
<1>5. CASE ~(PresetCount * FieldCount + 1 > n)
  <2>1. \A p \in Presets, f \in Fields : ~(p * FieldCount + f > n)
    BY <1>5, PresetsFirst, Sizes
  <2>. QED  BY <1>2, <2>1, Sizes DEF RecordedLast, Whole, d
<1>6. CASE e[current_preset] = Erased /\ PresetCount * FieldCount + 1 > n
  BY <1>3, <1>6 DEF RecordedLast, d
<1>7. CASE inherited /\ PresetCount * FieldCount + 1 > n
  BY <1>7, RankOf DEF Inherits
<1>. QED  BY <1>4, <1>5, <1>6, <1>7 DEF RecordedLast

(* settings_default, not cut short. *)
LEMMA DefaultedWhole ==
  ASSUME NEW e, EeOK(e)
  PROVE  /\ EeOK(Defaulted(e)) /\ RecordedLast(Defaulted(e))
         /\ Defaulted(e)[signature] /\ Defaulted(e)[current_preset] = 0
         /\ \A p \in Presets, f \in Fields : Defaulted(e)[Preset(p, f)] = Default
<1>. DEFINE n == Last
            d == DefaultedUpTo(e, n)
<1>0. d = DefaultedUpTo(e, n)
  OBVIOUS
<1>. HIDE DEF d
<1>1. n \in Int /\ n >= PresetCount * FieldCount + 1
  BY Sizes DEF Last
<1>2. ByteByByte(d, e, n)
  BY <1>0, DefaultedBytes
<1>3. EeOK(d)
  BY <1>0, <1>1, DefaultedType
<1>. HIDE DEF n
<1>4. d[signature] = TRUE
  BY <1>1, <1>2, CellsIn, RankOf, Sizes DEF ByteByByte
<1>5. d[current_preset] = 0
  BY <1>1, <1>2, CellsIn, CellsApart, RankOf, Sizes DEF Default, ByteByByte
<1>6. \A p \in Presets, f \in Fields : d[Preset(p, f)] = Default
  BY <1>1, <1>2, CellsIn, CellsApart, RankOf, PresetsFirst, Sizes
     DEF ByteByByte
<1>7. RecordedLast(d)
  BY <1>6, Sizes DEF RecordedLast, Whole
<1>. QED  BY <1>3, <1>4, <1>5, <1>6, <1>7 DEF Defaulted, d, n

(* settings_choose_sanity, cut short or not. *)
LEMMA SaneBytes ==
  ASSUME NEW e, EeOK(e), NEW p \in Presets, NEW n \in Fields
  PROVE  /\ EeOK(SaneUpTo(e, p, n))
         /\ RecordedLast(e) => RecordedLast(SaneUpTo(e, p, n))
         /\ SaneUpTo(e, p, n)[signature] = e[signature]
         /\ SaneUpTo(e, p, n)[current_preset] = e[current_preset]
         /\ \A q \in Presets, f \in Fields :
              SaneUpTo(e, p, n)[Preset(q, f)] \in {e[Preset(q, f)], Default}
<1>. DEFINE s == SaneUpTo(e, p, n)
<1>1. /\ s = [x \in Cells |-> s[x]]
      /\ \A x \in Cells : s[x] = IF \E f \in 1..n : x = Preset(p, f)
                                 THEN Default ELSE e[x]
  BY DEF SaneUpTo
<1>. HIDE DEF s
<1>2. s[signature] = e[signature] /\ s[current_preset] = e[current_preset]
  BY <1>1, CellsIn, CellsApart
<1>3. \A q \in Presets, f \in Fields : s[Preset(q, f)] \in {e[Preset(q, f)], Default}
  BY <1>1, CellsIn
<1>4. \A m \in Memories : s[memory_repeat(m)] = e[memory_repeat(m)]
  BY <1>1, CellsIn, CellsApart
<1>5. s \in [Cells -> BOOLEAN \cup Nat]
  <2>1. \A x \in Cells : s[x] \in BOOLEAN \cup Nat
    BY <1>1, Sizes DEF EeOK
  <2>. QED  BY <1>1, <2>1
<1>6. EeOK(s)
  BY <1>2, <1>3, <1>4, <1>5, Sizes DEF EeOK
<1>7. RecordedLast(e) => RecordedLast(s)
  BY <1>2, <1>3, Sizes DEF RecordedLast, Whole
<1>. QED  BY <1>2, <1>3, <1>6, <1>7 DEF s

LEMMA SaneWhole ==
  ASSUME NEW e, NEW p \in Presets
  PROVE  \A f \in Fields : SaneUpTo(e, p, FieldCount)[Preset(p, f)] = Default
BY CellsIn DEF SaneUpTo, Fields

(* Only bytes that are no setting are put right. *)
LEMMA RestoredBytes ==
  ASSUME NEW e, EeOK(e), NEW p \in Presets
  PROVE  /\ EeOK(Restored(e, p))
         /\ RecordedLast(e) => RecordedLast(Restored(e, p))
         /\ Restored(e, p)[signature] = e[signature]
         /\ Restored(e, p)[current_preset] = e[current_preset]
         /\ \A q \in Presets, f \in Fields :
              e[Preset(q, f)] # Erased =>
                Restored(e, p)[Preset(q, f)] = e[Preset(q, f)]
<1>. DEFINE s == Restored(e, p)
            Right(x) == /\ \E f \in Fields \ Unchecked : x = Preset(p, f)
                        /\ e[x] = Erased
<1>1. /\ s = [x \in Cells |-> s[x]]
      /\ \A x \in Cells : s[x] = IF Right(x) THEN Safe ELSE e[x]
  BY DEF Restored
<1>2. ~Right(signature) /\ ~Right(current_preset)
      /\ \A m \in Memories : ~Right(memory_repeat(m))
  BY CellsApart
<1>3. \A x : Right(x) => e[x] = Erased
  OBVIOUS
<1>. HIDE DEF s, Right
<1>4. /\ s[signature] = e[signature] /\ s[current_preset] = e[current_preset]
      /\ \A m \in Memories : s[memory_repeat(m)] = e[memory_repeat(m)]
  BY <1>1, <1>2, CellsIn
<1>5. \A q \in Presets, f \in Fields :
        /\ s[Preset(q, f)] \in {e[Preset(q, f)], Safe}
        /\ e[Preset(q, f)] # Erased => s[Preset(q, f)] = e[Preset(q, f)]
  BY <1>1, <1>3, CellsIn
<1>6. s \in [Cells -> BOOLEAN \cup Nat]
  <2>1. \A x \in Cells : s[x] \in BOOLEAN \cup Nat
    BY <1>1, Sizes DEF EeOK
  <2>. QED  BY <1>1, <2>1
<1>7. EeOK(s)
  BY <1>4, <1>5, <1>6, Sizes DEF EeOK
<1>8. RecordedLast(e) => RecordedLast(s)
  BY <1>4, <1>5, Sizes DEF RecordedLast, Whole
<1>. QED  BY <1>4, <1>5, <1>7, <1>8 DEF s
-------------------------------------------------------------------------------
(* Power off and on. *)

LEMMA OffStep ==
  ASSUME on' = FALSE, Cleared, EepromOK'
  PROVE  EepromOK' /\ PresetOK' /\ ButtonOK' /\ StateOK' /\ StoredInUse'
<1>1. held' = 0 /\ cp' = 0 /\ inUse' = [f \in Fields |-> Default]
  BY DEF Cleared
<1>2. PresetOK' /\ ButtonOK' /\ StoredInUse'
  BY <1>1 DEF PresetOK, ButtonOK, StoredInUse, Running
<1>3. on' \in BOOLEAN /\ command_mode' \in BOOLEAN
      /\ wiped' \in BOOLEAN /\ again' \in BOOLEAN /\ inject' \in BOOLEAN
  BY Zenon DEF Cleared
<1>4. cp' \in Presets \cup {Erased} /\ held' \in 0..3 /\ inUse' \in [Fields -> Values]
  BY <1>1, Sizes
<1>. QED  BY <1>2, <1>3, <1>4 DEF StateOK

(* Whatever was in use is stored, under the preset that is recorded. *)
LEMMA RunningFacts ==
  ASSUME EepromOK, PresetOK, StoredInUse, Running
  PROVE  /\ on /\ cp \in Presets
         /\ EeOK(ee) /\ (inherited \/ Whole(ee))
         /\ ee[signature] /\ ee[current_preset] # Erased
         /\ ee[current_preset] \in Presets
         /\ wiped \/ ee[current_preset] = cp
         /\ ee[current_preset] # cp =>
              \A f \in Fields : ee[Preset(ee[current_preset], f)] = Default
         /\ \A f \in Fields :
              inUse[f] = ee[Preset(cp, f)] \/ (f = autospace /\ command_mode)
BY DEF EepromOK, PresetOK, StoredInUse, Running, RecordedLast, EeOK

LEMMA StoredType ==
  ASSUME NEW e, EeOK(e), NEW p \in Presets
  PROVE  /\ Stored(e, p) \in [Fields -> Values]
         /\ \A f \in Fields : Stored(e, p)[f] = e[Preset(p, f)]
BY DEF EeOK, Stored

LEMMA PowerLossStep ==
  ASSUME EepromOK, PresetOK, StoredInUse,
         PowerLoss \/ PowerLossInDefault \/ PowerLossInSanity
  PROVE  EepromOK' /\ PresetOK' /\ ButtonOK' /\ StateOK' /\ StoredInUse'
<1>1. on' = FALSE /\ Cleared
  BY DEF PowerLoss, PowerLossInDefault, PowerLossInSanity
<1>2. ASSUME PowerLoss PROVE EepromOK'
  BY <1>2 DEF PowerLoss, EepromOK, EeOK, RecordedLast, Whole
<1>3. ASSUME PowerLossInDefault PROVE EepromOK'
  <2>1. PICK n \in Ranks : ee' = DefaultedUpTo(ee, n) /\ inherited' = Inherits(n)
    BY <1>3 DEF PowerLossInDefault
  <2>2. n \in Int
    BY <2>1 DEF Ranks
  <2>3. /\ EeOK(DefaultedUpTo(ee, n))
        /\ Inherits(n) \/ RecordedLast(DefaultedUpTo(ee, n))
    BY <2>2, DefaultedType, DefaultedLast DEF EepromOK
  <2>4. EeOK(ee') /\ (inherited' \/ RecordedLast(ee'))
    BY <2>1, <2>3
  <2>5. inherited' \in BOOLEAN
    BY <2>1, Zenon DEF Inherits
  <2>. QED  BY <2>4, <2>5 DEF EepromOK, EeOK, RecordedLast, Whole
<1>4. ASSUME PowerLossInSanity PROVE EepromOK'
  <2>1. PICK n \in Fields : ee' = SaneUpTo(ee, cp, n)
    BY <1>4 DEF PowerLossInSanity
  <2>2. cp \in Presets
    BY <1>4 DEF PowerLossInSanity, Running
  <2>3. /\ EeOK(SaneUpTo(ee, cp, n))
        /\ inherited \/ RecordedLast(SaneUpTo(ee, cp, n))
    BY <2>2, SaneBytes DEF EepromOK
  <2>4. inherited' = inherited
    BY <1>4 DEF PowerLossInSanity
  <2>5. EeOK(ee') /\ (inherited' \/ RecordedLast(ee'))
    BY <2>1, <2>3, <2>4
  <2>. QED  BY <2>4, <2>5 DEF EepromOK, EeOK, RecordedLast, Whole
<1>5. EepromOK'
  BY <1>2, <1>3, <1>4
<1>. QED  BY <1>1, <1>5, OffStep

LEMMA BootStep ==
  ASSUME EepromOK, ButtonOK, StateOK, Boot
  PROVE  EepromOK' /\ PresetOK' /\ ButtonOK' /\ StateOK' /\ StoredInUse'
<1>. DEFINE e == IF ee[signature] THEN ee ELSE Defaulted(ee)
            p == e[current_preset]
            i == ee[signature] /\ inherited
<1>1. EeOK(e) /\ (i \/ RecordedLast(e)) /\ e[signature] /\ i \in BOOLEAN
  <2>1. CASE ee[signature]
    BY <2>1 DEF EepromOK
  <2>2. CASE ~ee[signature]
    BY <2>2, DefaultedWhole DEF EepromOK
  <2>. QED  BY <2>1, <2>2
<1>2. /\ cp' = p
      /\ ee' = IF p \in Presets THEN Restored(e, p) ELSE e
      /\ inUse' = IF p \in Presets THEN Stored(ee', p) ELSE inUse
      /\ inherited' = i
  BY DEF Boot
<1>3. /\ on' = TRUE /\ held' = 0 /\ UNCHANGED << command_mode, wiped, again >>
      /\ inject' = (\E m \in Memories : e[memory_repeat(m)] # 0)
  BY DEF Boot, ButtonOK, mode, history
<1>. HIDE DEF e, i
<1>4. /\ EeOK(ee') /\ (i \/ RecordedLast(ee'))
      /\ ee'[signature] = e[signature] /\ ee'[current_preset] = p
  BY <1>1, <1>2, RestoredBytes
<1>5. EepromOK'
  BY <1>1, <1>2, <1>4 DEF EepromOK, EeOK, RecordedLast, Whole
<1>6. p \in Presets => inUse' = Stored(ee', p)
  BY <1>2
<1>8. p \in Presets => inUse' \in [Fields -> Values]
        /\ \A f \in Fields : inUse'[f] = ee'[Preset(p, f)]
  BY <1>4, <1>6, StoredType
<1>9. PresetOK' /\ StoredInUse'
  BY <1>1, <1>2, <1>3, <1>4, <1>8, Sizes DEF PresetOK, StoredInUse, Running
<1>10. ButtonOK'
  BY <1>3 DEF ButtonOK
<1>11. inUse' \in [Fields -> Values]
  BY <1>2, <1>8 DEF StateOK
<1>12. cp' \in Presets \cup {Erased} /\ held' \in 0..3
  BY <1>1, <1>2, <1>3 DEF EeOK
<1>13. on' \in BOOLEAN /\ command_mode' \in BOOLEAN /\ wiped' \in BOOLEAN
       /\ again' \in BOOLEAN /\ inject' \in BOOLEAN
  BY <1>3, Zenon DEF StateOK
<1>14. StateOK'
  BY <1>11, <1>12, <1>13 DEF StateOK
<1>. QED  BY <1>5, <1>9, <1>10, <1>14
-------------------------------------------------------------------------------
(* Commands. *)

LEMMA SetStep ==
  ASSUME EepromOK, PresetOK, ButtonOK, StateOK, StoredInUse,
         (\E f \in Fields, x \in {Default, Chosen} : Set(f, x)) \/ ToggleAutospace
  PROVE  EepromOK' /\ PresetOK' /\ ButtonOK' /\ StateOK' /\ StoredInUse'
<1>0. Running /\ command_mode
  BY DEF Set, ToggleAutospace, Commanded
<1>1. /\ on /\ cp \in Presets /\ EeOK(ee) /\ (inherited \/ Whole(ee))
      /\ ee[signature] /\ ee[current_preset] # Erased
      /\ ee[current_preset] \in Presets
      /\ wiped \/ ee[current_preset] = cp
      /\ ee[current_preset] # cp =>
           \A f \in Fields : ee[Preset(ee[current_preset], f)] = Default
      /\ \A f \in Fields : inUse[f] = ee[Preset(cp, f)] \/ f = autospace
  BY <1>0, RunningFacts
<1>2. PICK f \in Fields, x \in Values \ {Erased, Stale}, y \in Values :
        /\ ee' = [ee EXCEPT ![Preset(cp, f)] = x]
        /\ inUse' = [inUse EXCEPT ![f] = y]
        /\ y = x \/ f = autospace
  <2>1. CASE \E f \in Fields, x \in {Default, Chosen} : Set(f, x)
    <3>1. PICK f \in Fields, x \in {Default, Chosen} : Set(f, x)
      BY <2>1
    <3>2. x \in Values \ {Erased, Stale} /\ x \in Values
      BY Sizes
    <3>. QED  BY <3>1, <3>2 DEF Set
  <2>2. CASE ToggleAutospace
    <3>. DEFINE x == IF ee[Preset(cp, autospace)] = Default THEN Chosen ELSE Default
    <3>1. /\ ee' = [ee EXCEPT ![Preset(cp, autospace)] = x]
          /\ inUse' = [inUse EXCEPT ![autospace] = Default]
      BY <2>2 DEF ToggleAutospace
    <3>2. x \in Values \ {Erased, Stale} /\ Default \in Values /\ autospace \in Fields
      BY Sizes
    <3>. HIDE DEF x
    <3>. QED  BY <3>1, <3>2
  <2>. QED  BY <2>1, <2>2
<1>3. UNCHANGED << inherited, on, cp, command_mode, held, wiped, again, inject >>
  BY DEF Set, ToggleAutospace, mode, repeats, history
<1>4. /\ EeOK(ee') /\ (inherited \/ Whole(ee'))
      /\ ee'[signature] = ee[signature]
      /\ ee'[current_preset] = ee[current_preset]
      /\ \A q \in Presets, g \in Fields :
           ee'[Preset(q, g)] = IF q = cp /\ g = f THEN x ELSE ee[Preset(q, g)]
  <2>1. /\ ee' \in [Cells -> BOOLEAN \cup Nat]
        /\ \A c \in Cells : ee'[c] = IF c = Preset(cp, f) THEN x ELSE ee[c]
    BY <1>1, <1>2, CellsIn, Sizes DEF EeOK
  <2>2. /\ ee'[signature] = ee[signature]
        /\ ee'[current_preset] = ee[current_preset]
    BY <2>1, CellsIn, CellsApart
  <2>3. \A q \in Presets, g \in Fields :
          ee'[Preset(q, g)] = IF q = cp /\ g = f THEN x ELSE ee[Preset(q, g)]
    BY <2>1, CellsIn, CellsApart
  <2>4. \A m \in Memories : ee'[memory_repeat(m)] = ee[memory_repeat(m)]
    BY <2>1, CellsIn, CellsApart
  <2>5. EeOK(ee')
    BY <1>1, <2>1, <2>2, <2>3, <2>4 DEF EeOK
  <2>6. inherited \/ Whole(ee')
    BY <1>1, <2>3 DEF Whole
  <2>. QED  BY <2>2, <2>3, <2>5, <2>6
<1>5. EepromOK'
  BY <1>3, <1>4 DEF EepromOK, EeOK, RecordedLast, Whole
<1>6. /\ inUse' \in [Fields -> Values]
      /\ \A g \in Fields : inUse'[g] = IF g = f THEN y ELSE inUse[g]
  BY <1>2 DEF StateOK
<1>7. PresetOK'
  BY <1>0, <1>1, <1>3, <1>4 DEF PresetOK, Running
<1>8. StoredInUse'
  BY <1>0, <1>1, <1>2, <1>3, <1>4, <1>6 DEF StoredInUse, Running
<1>9. ButtonOK'
  BY <1>0, <1>3 DEF ButtonOK, Running
<1>10. StateOK'
  BY <1>3, <1>6 DEF StateOK
<1>. QED  BY <1>5, <1>7, <1>8, <1>9, <1>10

LEMMA RestoreStep ==
  ASSUME EepromOK, PresetOK, ButtonOK, StateOK, StoredInUse,
         NEW p \in Presets, restore_preset(p)
  PROVE  EepromOK' /\ PresetOK' /\ ButtonOK' /\ StateOK' /\ StoredInUse'
<1>. DEFINE e == Restored(ee, p)
<1>0. Running /\ command_mode
  BY DEF restore_preset, Commanded
<1>1. /\ on /\ EeOK(ee) /\ (inherited \/ Whole(ee)) /\ ee[signature]
      /\ ee[current_preset] # Erased
  BY <1>0, RunningFacts
<1>2. /\ cp' = p /\ ee' = [e EXCEPT ![current_preset] = p]
      /\ inUse' = Stored(ee', p)
  BY DEF restore_preset
<1>3. /\ EeOK(e) /\ e[signature] = ee[signature]
      /\ inherited \/ Whole(e)
  BY <1>1, RestoredBytes DEF RecordedLast
<1>4. /\ UNCHANGED << inherited, on, command_mode, held, again, inject >>
      /\ wiped' = FALSE
  BY DEF restore_preset, mode, repeats
<1>. HIDE DEF e
<1>5. /\ ee' \in [Cells -> BOOLEAN \cup Nat]
      /\ \A y \in Cells : ee'[y] = IF y = current_preset THEN p ELSE e[y]
  BY <1>2, <1>3, CellsIn, Sizes DEF EeOK
<1>6. ee'[signature] = ee[signature] /\ ee'[current_preset] = p
  BY <1>3, <1>5, CellsIn, CellsApart
<1>7. /\ \A q \in Presets, g \in Fields : ee'[Preset(q, g)] = e[Preset(q, g)]
      /\ \A m \in Memories : ee'[memory_repeat(m)] = e[memory_repeat(m)]
  BY <1>5, CellsIn, CellsApart
<1>8. EeOK(ee')
  BY <1>1, <1>3, <1>5, <1>6, <1>7 DEF EeOK
<1>9. inherited \/ Whole(ee')
  BY <1>3, <1>7 DEF Whole
<1>10. EepromOK'
  BY <1>4, <1>8, <1>9 DEF EepromOK, EeOK, RecordedLast, Whole
<1>11. /\ inUse' \in [Fields -> Values]
       /\ \A f \in Fields : inUse'[f] = ee'[Preset(p, f)]
  BY <1>2, <1>8, StoredType
<1>12. PresetOK' /\ StoredInUse'
  BY <1>1, <1>2, <1>6, <1>11, Sizes DEF PresetOK, StoredInUse, Running
<1>13. ButtonOK'
  BY <1>0, <1>1, <1>4 DEF ButtonOK
<1>14. StateOK'
  BY <1>2, <1>4, <1>11 DEF StateOK
<1>. QED  BY <1>10, <1>12, <1>13, <1>14

LEMMA RepeatStep ==
  ASSUME EepromOK, PresetOK, ButtonOK, StateOK, StoredInUse,
         NEW m \in Memories, NEW f \in Freqs, set_memory_repeat(m, f)
  PROVE  EepromOK' /\ PresetOK' /\ ButtonOK' /\ StateOK' /\ StoredInUse'
<1>0. Running /\ command_mode
  BY DEF set_memory_repeat, Commanded
<1>1. /\ ee' = [ee EXCEPT ![memory_repeat(m)] = f]
      /\ UNCHANGED << inherited, on, cp, inUse, command_mode, held, wiped >>
  BY DEF set_memory_repeat, mode
<1>2. EeOK(ee) /\ (inherited \/ Whole(ee))
  BY <1>0, RunningFacts
<1>3. /\ ee' \in [Cells -> BOOLEAN \cup Nat]
      /\ \A c \in Cells : ee'[c] = IF c = memory_repeat(m) THEN f ELSE ee[c]
  BY <1>1, <1>2, CellsIn, Sizes DEF EeOK
<1>4. /\ ee'[signature] = ee[signature]
      /\ ee'[current_preset] = ee[current_preset]
      /\ \A q \in Presets, g \in Fields : ee'[Preset(q, g)] = ee[Preset(q, g)]
  BY <1>3, CellsIn, CellsApart
<1>5. \A n \in Memories : ee'[memory_repeat(n)] \in {f, ee[memory_repeat(n)]}
  BY <1>3, CellsIn
<1>6. EeOK(ee') /\ (inherited \/ Whole(ee'))
  BY <1>2, <1>3, <1>4, <1>5 DEF EeOK, Whole
<1>7. EepromOK'
  BY <1>1, <1>6 DEF EepromOK, EeOK, RecordedLast, Whole
<1>8. ee[current_preset] \in Presets \cup {Erased}
  BY <1>2 DEF EeOK
<1>9. PresetOK'
  BY <1>0, <1>1, <1>4, <1>8 DEF PresetOK, Running
<1>10. StoredInUse'
  BY <1>0, <1>1, <1>4 DEF StoredInUse, Running
<1>11. ButtonOK'
  BY <1>0, <1>1 DEF ButtonOK, Running
<1>12. inject' \in BOOLEAN /\ again' \in BOOLEAN
  BY Zenon DEF set_memory_repeat, StateOK
<1>13. StateOK'
  BY <1>1, <1>12 DEF StateOK
<1>. QED  BY <1>7, <1>9, <1>10, <1>11, <1>13
-------------------------------------------------------------------------------
(* The button. *)

(* The current preset gets its defaults, and the one recorded is restored. *)
LEMMA Hold2000Step ==
  ASSUME EepromOK, PresetOK, ButtonOK, StateOK, StoredInUse, Hold2000
  PROVE  EepromOK' /\ PresetOK' /\ ButtonOK' /\ StateOK' /\ StoredInUse'
<1>. DEFINE e == SaneUpTo(ee, cp, FieldCount)
            p == e[current_preset]
<1>0. Running
  BY DEF Hold2000
<1>1. /\ on /\ cp \in Presets /\ EeOK(ee) /\ (inherited \/ RecordedLast(ee))
      /\ ee[signature] /\ ee[current_preset] # Erased
      /\ ee[current_preset] \in Presets
      /\ ee[current_preset] # cp =>
           \A f \in Fields : ee[Preset(ee[current_preset], f)] = Default
  BY <1>0, RunningFacts DEF EepromOK
<1>2. FieldCount \in Fields
  BY Sizes DEF autospace
<1>3. /\ EeOK(e) /\ (inherited \/ RecordedLast(e))
      /\ e[signature] = ee[signature] /\ e[current_preset] = ee[current_preset]
      /\ \A q \in Presets, f \in Fields :
           e[Preset(q, f)] \in {ee[Preset(q, f)], Default}
  BY <1>1, <1>2, SaneBytes
<1>4. \A f \in Fields : e[Preset(cp, f)] = Default
  BY <1>1, SaneWhole
<1>5. /\ cp' = p /\ ee' = Restored(e, p) /\ inUse' = Stored(ee', p)
      /\ on' = on /\ held' = 2 /\ command_mode' = FALSE /\ wiped' = FALSE
      /\ UNCHANGED << inherited, again, inject >>
  BY DEF Hold2000, repeats
<1>. HIDE DEF e
<1>6. p \in Presets
  BY <1>1, <1>3
<1>7. \A f \in Fields : e[Preset(p, f)] = Default
  BY <1>1, <1>3, <1>4, <1>6
<1>8. /\ EeOK(ee') /\ (inherited \/ RecordedLast(ee'))
      /\ ee'[signature] = e[signature] /\ ee'[current_preset] = p
      /\ \A f \in Fields : ee'[Preset(p, f)] = Default
  <2>1. /\ EeOK(Restored(e, p))
        /\ inherited \/ RecordedLast(Restored(e, p))
        /\ Restored(e, p)[signature] = e[signature]
        /\ Restored(e, p)[current_preset] = p
        /\ \A f \in Fields : e[Preset(p, f)] # Erased =>
             Restored(e, p)[Preset(p, f)] = e[Preset(p, f)]
    BY <1>3, <1>6, RestoredBytes
  <2>2. \A f \in Fields : Restored(e, p)[Preset(p, f)] = Default
    BY <1>7, <2>1, Sizes
  <2>. QED  BY <1>5, <2>1, <2>2
<1>9. /\ inUse' \in [Fields -> Values]
      /\ \A f \in Fields : inUse'[f] = ee'[Preset(p, f)]
  BY <1>5, <1>6, <1>8, StoredType
<1>11. EepromOK'
  BY <1>5, <1>8 DEF EepromOK, EeOK, RecordedLast, Whole
<1>12. PresetOK' /\ StoredInUse'
  BY <1>1, <1>3, <1>5, <1>6, <1>8, <1>9 DEF PresetOK, StoredInUse, Running
<1>13. ButtonOK'
  BY <1>1, <1>5, <1>8, <1>9 DEF ButtonOK
<1>14. StateOK'
  <2>1. cp' \in Presets \cup {Erased} /\ held' \in 0..3
    BY <1>5, <1>6
  <2>. QED  BY <1>1, <1>5, <1>9, <2>1, Zenon DEF StateOK
<1>. QED  BY <1>11, <1>12, <1>13, <1>14

LEMMA Hold5000Step ==
  ASSUME EepromOK, PresetOK, ButtonOK, StateOK, StoredInUse, Hold5000
  PROVE  EepromOK' /\ PresetOK' /\ ButtonOK' /\ StateOK' /\ StoredInUse'
<1>0. Running /\ held = 2
  BY DEF Hold5000
<1>1. /\ on /\ cp \in Presets /\ EeOK(ee) /\ ~command_mode
      /\ \A f \in Fields : inUse[f] = ee[Preset(cp, f)] /\ inUse[f] = Default
  BY <1>0, RunningFacts DEF ButtonOK
<1>2. /\ ee' = Defaulted(ee) /\ inherited' = FALSE /\ wiped' = TRUE /\ held' = 3
      /\ command_mode' = FALSE /\ UNCHANGED << on, cp, again, inject >>
      /\ inUse' = [inUse EXCEPT ![autospace] = ee[Preset(cp, autospace)]]
  BY DEF Hold5000, Leave, repeats
<1>3. /\ EeOK(ee') /\ RecordedLast(ee')
      /\ ee'[signature] /\ ee'[current_preset] = 0
      /\ \A p \in Presets, f \in Fields : ee'[Preset(p, f)] = Default
  BY <1>1, <1>2, DefaultedWhole
<1>4. /\ inUse' \in [Fields -> Values]
      /\ \A f \in Fields : inUse'[f] = Default
  <2>1. /\ inUse \in [Fields -> Values]
        /\ ee[Preset(cp, autospace)] = Default /\ Default \in Values
    BY <1>1, Sizes DEF StateOK
  <2>. QED  BY <1>1, <1>2, <2>1, Sizes
<1>5. EepromOK'
  BY <1>2, <1>3 DEF EepromOK, EeOK, RecordedLast, Whole
<1>6. PresetOK'
  BY <1>2, <1>3, Sizes DEF PresetOK, Running
<1>7. StoredInUse'
  BY <1>1, <1>2, <1>3, <1>4 DEF StoredInUse, Running
<1>8. ButtonOK'
  BY <1>1, <1>2 DEF ButtonOK
<1>9. StateOK'
  <2>1. held' \in 0..3
    BY <1>2
  <2>. QED  BY <1>2, <1>4, <2>1, Zenon DEF StateOK
<1>. QED  BY <1>5, <1>6, <1>7, <1>8, <1>9

(* Nothing is written. *)
LEMMA OtherStep ==
  ASSUME EepromOK, PresetOK, ButtonOK, StateOK, StoredInUse,
         exit_command_mode \/ Hold10 \/ Release \/ inject_string \/ UNCHANGED vars
  PROVE  EepromOK' /\ PresetOK' /\ ButtonOK' /\ StateOK' /\ StoredInUse'
<1>1. /\ UNCHANGED << ee, inherited, on, cp, wiped, again, inject >>
      /\ held' \in {0, 1, held}
  BY DEF exit_command_mode, Hold10, Release, inject_string, vars, mode,
         repeats, history
<1>2. EepromOK'
  BY <1>1 DEF EepromOK, EeOK, RecordedLast, Whole
<1>3. PresetOK'
  BY <1>1 DEF PresetOK, Running
<1>4. CASE UNCHANGED << inUse, command_mode >>
  <2>1. StoredInUse'
    BY <1>1, <1>4 DEF StoredInUse, Running
  <2>2. ~on' => held' = 0
    BY <1>1 DEF ButtonOK, exit_command_mode, Hold10, Release, inject_string,
       vars, mode, Running
  <2>3. ButtonOK'
    BY <1>1, <1>4, <2>2 DEF ButtonOK, Running
  <2>4. StateOK'
    BY <1>1, <1>4 DEF StateOK
  <2>. QED  BY <1>2, <1>3, <2>1, <2>3, <2>4
<1>5. CASE Running /\ (command_mode \/ held = 0) /\ held' # 2 /\ command_mode' \in BOOLEAN
             /\ \/ /\ ~command_mode'
                   /\ inUse' = [inUse EXCEPT ![autospace] = ee[Preset(cp, autospace)]]
                \/ /\ command_mode'
                   /\ inUse' = [inUse EXCEPT ![autospace] = Default]
  <2>1. PICK y \in Values :
          /\ inUse' = [inUse EXCEPT ![autospace] = y]
          /\ command_mode' \/ y = ee[Preset(cp, autospace)]
    <3>1. ee[Preset(cp, autospace)] \in Values /\ Default \in Values
      BY <1>5, Sizes DEF EepromOK, EeOK, Running
    <3>. QED  BY <1>5, <3>1
  <2>2. /\ inUse' \in [Fields -> Values]
        /\ \A f \in Fields : inUse'[f] = IF f = autospace THEN y ELSE inUse[f]
    BY <2>1, Sizes DEF StateOK
  <2>3. StoredInUse'
    BY <1>1, <1>5, <2>1, <2>2 DEF StoredInUse, Running
  <2>4. ButtonOK'
    BY <1>1, <1>5 DEF ButtonOK, Running
  <2>5. StateOK'
    BY <1>1, <1>5, <2>2 DEF StateOK
  <2>. QED  BY <1>2, <1>3, <2>3, <2>4, <2>5
<1>6. CASE Release \/ inject_string \/ UNCHANGED vars
  BY <1>4, <1>6 DEF Release, inject_string, vars, mode
<1>7. CASE exit_command_mode
  <2>1. Running /\ command_mode /\ held' = held /\ command_mode' = FALSE
        /\ inUse' = [inUse EXCEPT ![autospace] = ee[Preset(cp, autospace)]]
    BY <1>7 DEF exit_command_mode, Leave
  <2>2. held # 2
    BY <2>1 DEF ButtonOK
  <2>. QED  BY <1>5, <2>1, <2>2
<1>8. CASE Hold10
  <2>1. Running /\ held = 0 /\ held' = 1
    BY <1>8 DEF Hold10
  <2>2. \/ /\ command_mode' = FALSE
           /\ inUse' = [inUse EXCEPT ![autospace] = ee[Preset(cp, autospace)]]
        \/ /\ command_mode' = TRUE
           /\ inUse' = [inUse EXCEPT ![autospace] = Default]
    BY <1>8 DEF Hold10, Leave
  <2>3. held' # 2
    BY <2>1
  <2>. QED  BY <1>5, <2>1, <2>2, <2>3, Zenon
<1>. QED  BY <1>6, <1>7, <1>8
-------------------------------------------------------------------------------
(* The minutes, on a clock that wraps. *)

LEMMA DivUnique ==
  ASSUME NEW n \in Nat, n > 0, NEW q \in Int, NEW r \in 0..(n-1)
  PROVE  (n * q + r) % n = r
<1>. DEFINE x == n * q + r
            k == x \div n
            s == x % n
<1>1. x \in Int /\ k \in Int /\ s \in 0..(n-1) /\ x = n * k + s
  OBVIOUS
<1>. HIDE DEF k, s
<1>2. n * (k - q) = r - s
  BY <1>1
<1>3. k - q < 1
  BY <1>1, <1>2
<1>4. k - q > -1
  BY <1>1, <1>2
<1>. QED BY <1>1, <1>3, <1>4 DEF s

LEMMA ModPlus ==
  ASSUME NEW n \in Nat, n > 0, NEW a \in 0..(n - 1), NEW f \in Nat
  PROVE  /\ (((a + f) % n) - a) % n = f % n
         /\ f % n <= f /\ f % n \in 0..(n - 1)
<1>. DEFINE q == f \div n
            r == f % n
            k == (a + r) \div n
            s == (a + r) % n
<1>1. q \in Int /\ r \in 0..(n - 1) /\ f = n * q + r
  OBVIOUS
<1>2. k \in Int /\ s \in 0..(n - 1) /\ a + r = n * k + s
  BY <1>1
<1>. HIDE DEF q, r, k, s
<1>3. a + f = n * (q + k) + s /\ q + k \in Int
  BY <1>1, <1>2
<1>4. (a + f) % n = s
  BY <1>2, <1>3, DivUnique
<1>5. s - a = n * (-k) + r /\ -k \in Int
  BY <1>1, <1>2
<1>6. (s - a) % n = r
  BY <1>1, <1>5, DivUnique
<1>7. r <= f
  BY <1>1
<1>. QED  BY <1>1, <1>4, <1>6, <1>7 DEF r

LEMMA ModOf ==
  ASSUME NEW n \in Nat, n > 0, NEW x \in Int
  PROVE  /\ x % n \in 0..(n - 1)
         /\ 0 <= x /\ x < n => x % n = x
         /\ n <= x /\ x < 2 * n => x % n = x - n
         /\ x < 0 /\ x >= -n => x % n = x + n
OBVIOUS

(* A minute nearer, unless it is now. *)
LEMMA MinuteNearer ==
  ASSUME NEW n \in Nat, n > 0, NEW a \in 0..(n - 1), NEW b \in 0..(n - 1),
         NEW f \in Nat, (a - b) % n \in 1..f, a # (b + 1) % n
  PROVE  (a - ((b + 1) % n)) % n \in 1..f
<1>1. (b + 1) % n = IF b + 1 < n THEN b + 1 ELSE 0
  <2>1. b + 1 < n => (b + 1) % n = b + 1
    BY ModOf
  <2>2. ~(b + 1 < n) => (b + 1) % n = b + 1 - n
    BY ModOf
  <2>. QED  BY <2>1, <2>2
<1>2. (a - b) % n = IF a >= b THEN a - b ELSE a - b + n
  BY ModOf
<1>3. CASE b + 1 < n
  <2>1. (a - (b + 1)) % n = IF a >= b + 1 THEN a - (b + 1) ELSE a - (b + 1) + n
    BY <1>3, ModOf
  <2>. QED  BY <1>1, <1>2, <1>3, <2>1
<1>4. CASE ~(b + 1 < n)
  <2>1. (a - 0) % n = a
    BY ModOf
  <2>. QED  BY <1>1, <1>2, <1>4, <2>1
<1>. QED  BY <1>3, <1>4

(* Every period there can be, that of a byte never written included. *)
LEMMA Period ==
  ASSUME NEW f \in Freqs \cup {Erased}, f # 0, NEW a \in 0..(Minutes - 1)
  PROVE  (((a + f) % Minutes) - a) % Minutes \in 1..f
<1>1. Minutes \in Nat /\ Minutes > 0 /\ f \in Nat
  BY FreqAssumption, Sizes
<1>2. f % Minutes # 0
  <2>1. CASE f \in Freqs
    <3>1. f \in 1..(Minutes - 1)
      BY <2>1, FreqAssumption
    <3>. QED  BY <1>1, <3>1, ModOf
  <2>2. CASE f = Erased
    BY <2>2, FreqAssumption
  <2>. QED  BY <2>1, <2>2
<1>3. /\ (((a + f) % Minutes) - a) % Minutes = f % Minutes
      /\ f % Minutes <= f /\ f % Minutes \in 0..(Minutes - 1)
  BY <1>1, ModPlus
<1>. QED  BY <1>1, <1>2, <1>3

LEMMA RepeatType ==
  ASSUME RepeatOK, NEW m \in Memories
  PROVE  /\ repeat_q[m] \in [next : 0..(Minutes - 1), freq : Freqs \cup {Erased}]
         /\ repeat_q[m].next \in 0..(Minutes - 1)
         /\ repeat_q[m].freq \in Freqs \cup {Erased}
         /\ repeat_q[m].freq \in Nat
BY Sizes DEF RepeatOK

LEMMA Clocks ==
  /\ Minutes \in Nat /\ Minutes > 0 /\ 0 \in 0..(Minutes - 1)
  /\ \A x \in Int : x % Minutes \in 0..(Minutes - 1)
  /\ CountMod \in Nat /\ CountMod > 0 /\ 0 \in 0..(CountMod - 1)
  /\ \A x \in Int : x % CountMod \in 0..(CountMod - 1)
BY SizesAssumption, FreqAssumption

LEMMA CommandDue ==
  ASSUME RepeatOK, DueInPeriod, NEW m \in Memories, NEW f \in Freqs,
         set_memory_repeat(m, f)
  PROVE  RepeatOK' /\ DueInPeriod'
<1>. DEFINE entry == [next |-> (this_minute + f) % Minutes, freq |-> f]
<1>1. /\ repeat_q' = [repeat_q EXCEPT ![m] = entry]
      /\ on' = on /\ on /\ this_minute' = this_minute
  BY DEF set_memory_repeat, Commanded, Running
<1>2. this_minute \in 0..(Minutes - 1) /\ f \in Nat
  BY Sizes DEF RepeatOK
<1>3. entry \in [next : 0..(Minutes - 1), freq : Freqs \cup {Erased}]
  BY <1>2, Clocks
<1>4. string_inject_count' \in 0..(CountMod - 1)
  <2>1. string_inject_count \in 0..(CountMod - 1)
    BY DEF RepeatOK
  <2>2. string_inject_count' \in {(string_inject_count + 1) % CountMod,
             (string_inject_count - 1) % CountMod, string_inject_count}
    BY DEF set_memory_repeat
  <2>. QED  BY <2>1, <2>2, Clocks
<1>5. /\ repeat_q' \in [Memories -> [next : 0..(Minutes - 1),
                                     freq : Freqs \cup {Erased}]]
      /\ \A n \in Memories : repeat_q'[n] = IF n = m THEN entry ELSE repeat_q[n]
  BY <1>1, <1>3 DEF RepeatOK
<1>6. RepeatOK'
  BY <1>1, <1>2, <1>4, <1>5 DEF RepeatOK
<1>7. ASSUME NEW n \in Memories, repeat_q'[n].freq # 0
      PROVE  (repeat_q'[n].next - this_minute') % Minutes \in 1..repeat_q'[n].freq
  <2>1. CASE n = m
    <3>1. f # 0
      BY <1>5, <1>7, <2>1
    <3>2. (((this_minute + f) % Minutes) - this_minute) % Minutes \in 1..f
      BY <1>2, <3>1, Period
    <3>. QED  BY <1>1, <1>5, <2>1, <3>2
  <2>2. CASE n # m
    BY <1>1, <1>5, <1>7, <2>2 DEF DueInPeriod, Live
  <2>. QED  BY <2>1, <2>2
<1>8. DueInPeriod'
  BY <1>7 DEF DueInPeriod, Live
<1>. QED  BY <1>6, <1>8

LEMMA MinuteDue ==
  ASSUME RepeatOK, DueInPeriod, inject_string
  PROVE  RepeatOK' /\ DueInPeriod' /\ Live' = Live
<1>1. on /\ on' = on /\ this_minute' = (this_minute + 1) % Minutes
      /\ string_inject_count' = string_inject_count
  BY DEF inject_string, Running
<1>2. this_minute \in 0..(Minutes - 1) /\ this_minute' \in 0..(Minutes - 1)
  BY <1>1, Clocks DEF RepeatOK
<1>3. ASSUME NEW m \in Memories
      PROVE  /\ repeat_q'[m].freq = repeat_q[m].freq
             /\ repeat_q'[m] \in [next : 0..(Minutes - 1), freq : Freqs \cup {Erased}]
             /\ repeat_q[m].freq # 0 =>
                  (repeat_q'[m].next - this_minute') % Minutes \in 1..repeat_q[m].freq
  <2>. DEFINE q == repeat_q[m]
  <2>1. /\ q \in [next : 0..(Minutes - 1), freq : Freqs \cup {Erased}]
        /\ q.next \in 0..(Minutes - 1) /\ q.freq \in Freqs \cup {Erased}
        /\ q.freq \in Nat
    BY RepeatType
  <2>2. repeat_q'[m] = IF m \in Live /\ q.next = this_minute'
                       THEN [q EXCEPT !.next = (@ + q.freq) % Minutes] ELSE q
    BY DEF inject_string
  <2>3. m \in Live <=> q.freq # 0
    BY DEF Live
  <2>. HIDE DEF q
  <2>4. CASE m \in Live /\ q.next = this_minute'
    <3>1. repeat_q'[m] = [q EXCEPT !.next = (q.next + q.freq) % Minutes]
      BY <2>2, <2>4
    <3>2. (q.next + q.freq) % Minutes \in 0..(Minutes - 1)
      BY <2>1, Clocks
    <3>3. (((q.next + q.freq) % Minutes) - q.next) % Minutes \in 1..q.freq
      BY <2>1, <2>3, <2>4, Period
    <3>4. /\ repeat_q'[m].next = (q.next + q.freq) % Minutes
          /\ repeat_q'[m].freq = q.freq
          /\ repeat_q'[m] \in [next : 0..(Minutes - 1), freq : Freqs \cup {Erased}]
      BY <2>1, <3>1, <3>2
    <3>5. (repeat_q'[m].next - this_minute') % Minutes
            = (((q.next + q.freq) % Minutes) - q.next) % Minutes
      BY <2>4, <3>4
    <3>6. (repeat_q'[m].next - this_minute') % Minutes \in 1..q.freq
      BY <3>3, <3>5
    <3>. QED  BY <3>4, <3>6 DEF q
  <2>5. CASE m \notin Live
    BY <2>1, <2>2, <2>3, <2>5 DEF q
  <2>6. CASE m \in Live /\ q.next # this_minute'
    <3>1. repeat_q'[m] = q
      BY <2>2, <2>6
    <3>2. (q.next - this_minute) % Minutes \in 1..q.freq
      BY <1>1, <2>6 DEF DueInPeriod, q
    <3>3. (q.next - ((this_minute + 1) % Minutes)) % Minutes \in 1..q.freq
      BY <1>1, <1>2, <2>1, <2>6, <3>2, Clocks, MinuteNearer
    <3>4. (repeat_q'[m].next - this_minute') % Minutes
            = (q.next - ((this_minute + 1) % Minutes)) % Minutes
      BY <1>1, <3>1
    <3>5. (repeat_q'[m].next - this_minute') % Minutes \in 1..q.freq
      BY <3>3, <3>4
    <3>. QED  BY <2>1, <3>1, <3>5 DEF q
  <2>. QED  BY <2>4, <2>5, <2>6
<1>4. DOMAIN repeat_q' = Memories /\ repeat_q' = [m \in Memories |-> repeat_q'[m]]
  BY DEF inject_string
<1>5. repeat_q' \in [Memories -> [next : 0..(Minutes - 1), freq : Freqs \cup {Erased}]]
  BY <1>3, <1>4
<1>6. RepeatOK'
  BY <1>1, <1>2, <1>5 DEF RepeatOK
<1>7. Live' = Live
  BY <1>3 DEF Live
<1>8. DueInPeriod'
  BY <1>3 DEF DueInPeriod, Live
<1>. QED  BY <1>6, <1>7, <1>8

(* There are fewer memories than the count can count. *)
LEMMA LiveSmall ==
  ASSUME NEW S \in SUBSET Memories
  PROVE  /\ IsFiniteSet(S) /\ Cardinality(S) \in Nat
         /\ Cardinality(S) <= MemoryCount
         /\ Cardinality(S) \in 0..(CountMod - 1)
<1>1. 0 \in Int /\ MemoryCount - 1 \in Int /\ MemoryCount \in Nat /\ MemoryCount > 0
  BY SizesAssumption
<1>2. IsFiniteSet(Memories) /\ Cardinality(Memories) = MemoryCount
  BY <1>1, FS_Interval DEF Memories
<1>3. IsFiniteSet(S) /\ Cardinality(S) <= MemoryCount
  BY <1>2, FS_Subset
<1>4. Cardinality(S) \in Nat
  BY <1>3, FS_CardinalityType
<1>. QED  BY <1>1, <1>3, <1>4, FreqAssumption

LEMMA BootDue ==
  ASSUME EepromOK, RepeatOK, Boot
  PROVE  /\ RepeatOK' /\ DueInPeriod'
         /\ string_inject_count' = Cardinality(Live')
         /\ inject' <=> Live' # {}
<1>. DEFINE e == IF ee[signature] THEN ee ELSE Defaulted(ee)
<1>1. EeOK(e)
  BY DefaultedWhole DEF EepromOK
<1>2. /\ repeat_q' = [m \in Memories |->
                        [next |-> e[memory_repeat(m)] % Minutes,
                         freq |-> e[memory_repeat(m)]]]
      /\ string_inject_count' =
           Cardinality({m \in Memories : e[memory_repeat(m)] # 0})
      /\ inject' = (\E m \in Memories : e[memory_repeat(m)] # 0)
      /\ on' = TRUE /\ this_minute' = 0
  BY DEF Boot, RepeatOK
<1>. HIDE DEF e
<1>3. ASSUME NEW m \in Memories
      PROVE  /\ repeat_q'[m].freq = e[memory_repeat(m)]
             /\ repeat_q'[m] \in [next : 0..(Minutes - 1), freq : Freqs \cup {Erased}]
             /\ repeat_q'[m].freq # 0 =>
                  (repeat_q'[m].next - this_minute') % Minutes \in 1..repeat_q'[m].freq
  <2>. DEFINE f == e[memory_repeat(m)]
  <2>1. f \in Freqs \cup {Erased} /\ f \in Nat
    BY <1>1, Sizes DEF EeOK
  <2>2. repeat_q'[m] = [next |-> f % Minutes, freq |-> f]
    BY <1>2
  <2>. HIDE DEF f
  <2>3. f % Minutes \in 0..(Minutes - 1)
    BY <2>1, Clocks
  <2>4. f # 0 => (((0 + f) % Minutes) - 0) % Minutes \in 1..f
    BY <2>1, Clocks, Period
  <2>5. 0 + f = f /\ (f % Minutes) - 0 = f % Minutes
    BY <2>1, <2>3
  <2>6. f # 0 => ((f % Minutes) - 0) % Minutes \in 1..f
    BY <2>4, <2>5
  <2>. QED  BY <1>2, <2>1, <2>2, <2>3, <2>6 DEF f
<1>4. Live' = {m \in Memories : e[memory_repeat(m)] # 0}
  BY <1>3 DEF Live
<1>5. string_inject_count' \in 0..(CountMod - 1)
  BY <1>2, <1>4, LiveSmall
<1>6. RepeatOK'
  BY <1>2, <1>3, <1>5, Clocks DEF RepeatOK
<1>7. DueInPeriod'
  BY <1>3 DEF DueInPeriod, Live
<1>. QED  BY <1>2, <1>4, <1>6, <1>7
-------------------------------------------------------------------------------
(* The count of repeats and the event that is registered for them. *)

LEMMA CommandTicks ==
  ASSUME RepeatOK, StateOK, RepeatsTick, NEW m \in Memories, NEW f \in Freqs,
         set_memory_repeat(m, f)
  PROVE  RepeatsTick'
<1>. DEFINE count == string_inject_count
<1>1. SUFFICES ASSUME ~again'
               PROVE  /\ count' = Cardinality(Live')
                      /\ inject' <=> Live' # {}
  BY DEF RepeatsTick
<1>2. on /\ ~again /\ (f # 0 => (Counted(m) <=> m \in Live))
  BY <1>1 DEF set_memory_repeat, Commanded, Running, Live
<1>3. count = Cardinality(Live) /\ (inject <=> Live # {})
  BY <1>2 DEF RepeatsTick
<1>4. Live \in SUBSET Memories /\ Live' \in SUBSET Memories
  BY DEF Live
<1>5. /\ IsFiniteSet(Live) /\ count \in Nat /\ Cardinality(Live) \in Nat
      /\ (count = 0 <=> Live = {})
  BY <1>3, <1>4, LiveSmall, FS_EmptySet
<1>6. /\ Cardinality(Live) \in 0..(CountMod - 1)
      /\ Cardinality(Live') \in 0..(CountMod - 1)
  BY <1>4, LiveSmall
<1>7. \A n \in Memories : repeat_q'[n].freq = IF n = m THEN f ELSE repeat_q[n].freq
  BY DEF set_memory_repeat, RepeatOK
<1>8. Stopping(m, f) <=> f = 0 /\ m \in Live
  BY DEF Stopping, Live
<1>9. CASE f # 0 /\ m \notin Live
  <2>1. Live' = Live \cup {m}
    BY <1>7, <1>9 DEF Live
  <2>2. Cardinality(Live') = count + 1
    BY <1>3, <1>5, <1>9, <2>1, FS_AddElement
  <2>3. count' = (count + 1) % CountMod
    BY <1>2, <1>9 DEF set_memory_repeat, Stopping
  <2>4. (count + 1) % CountMod = count + 1
    BY <1>5, <1>6, <2>2, Clocks, ModOf
  <2>5. inject' = (inject \/ count = 0)
    BY <1>9 DEF set_memory_repeat, Stopping
  <2>6. inject'
    BY <1>3, <1>5, <2>5
  <2>. QED  BY <2>1, <2>2, <2>3, <2>4, <2>6
<1>10. CASE f # 0 /\ m \in Live
  <2>1. Live' = Live
    BY <1>7, <1>10 DEF Live
  <2>2. count' = count
    BY <1>2, <1>8, <1>10 DEF set_memory_repeat
  <2>3. inject' = (inject \/ count = 0)
    BY <1>10 DEF set_memory_repeat, Stopping
  <2>4. inject'
    BY <1>3, <1>10, <2>3
  <2>. QED  BY <1>3, <1>10, <2>1, <2>2, <2>4
<1>11. CASE f = 0 /\ m \in Live
  <2>1. Live' = Live \ {m}
    BY <1>7, <1>11 DEF Live
  <2>2. Cardinality(Live') = count - 1
    BY <1>3, <1>5, <1>11, <2>1, FS_RemoveElement
  <2>3. count' = (count - 1) % CountMod
    BY <1>8, <1>11 DEF set_memory_repeat
  <2>4. (count - 1) % CountMod = count - 1
    BY <1>5, <1>6, <2>2, Clocks, ModOf
  <2>5. inject' = (inject /\ count # 1)
    BY <1>8, <1>11 DEF set_memory_repeat
  <2>6. count = 1 <=> Live' = {}
    BY <1>4, <1>5, <2>2, LiveSmall, FS_EmptySet
  <2>7. inject' <=> Live' # {}
    BY <1>3, <1>11, <2>5, <2>6
  <2>. QED  BY <2>2, <2>3, <2>4, <2>7
<1>12. CASE f = 0 /\ m \notin Live
  <2>1. Live' = Live
    BY <1>7, <1>12 DEF Live
  <2>2. count' = count /\ inject' = inject
    BY <1>8, <1>12 DEF set_memory_repeat
  <2>. QED  BY <1>3, <2>1, <2>2
<1>. QED  BY <1>9, <1>10, <1>11, <1>12

(* Nothing else starts or stops a repeat. *)
LEMMA RepeatsStay ==
  ASSUME RepeatOK, DueInPeriod, RepeatsTick, UNCHANGED repeats, UNCHANGED again,
         on' = on
  PROVE  RepeatOK' /\ DueInPeriod' /\ RepeatsTick'
<1>1. UNCHANGED << repeat_q, this_minute, string_inject_count, inject, again >>
  BY DEF repeats
<1>. QED  BY <1>1 DEF RepeatOK, DueInPeriod, RepeatsTick, Live

LEMMA RepeatsOff ==
  ASSUME on' = FALSE, Cleared
  PROVE  RepeatOK' /\ DueInPeriod' /\ RepeatsTick'
<1>1. /\ this_minute' = 0 /\ string_inject_count' = 0
      /\ repeat_q' = [m \in Memories |-> [next |-> 0, freq |-> 0]]
  BY DEF Cleared, NoRepeats
<1>2. RepeatOK'
  BY <1>1, Clocks, Sizes DEF RepeatOK
<1>. QED  BY <1>2 DEF DueInPeriod, RepeatsTick

LEMMA RepeatsStep ==
  ASSUME IInv, [Next]_vars
  PROVE  RepeatOK' /\ DueInPeriod' /\ RepeatsTick'
<1>0. EepromOK /\ RepeatOK /\ StateOK /\ DueInPeriod /\ RepeatsTick
  BY DEF IInv
<1>1. CASE Boot
  <2>1. on' = TRUE
    BY <1>1 DEF Boot
  <2>2. /\ RepeatOK' /\ DueInPeriod'
        /\ string_inject_count' = Cardinality(Live')
        /\ inject' <=> Live' # {}
    BY <1>0, <1>1, BootDue
  <2>3. RepeatsTick'
    BY <2>1, <2>2 DEF RepeatsTick
  <2>. QED  BY <2>2, <2>3
<1>2. CASE PowerLoss \/ PowerLossInDefault \/ PowerLossInSanity
  <2>1. on' = FALSE /\ Cleared
    BY <1>2 DEF PowerLoss, PowerLossInDefault, PowerLossInSanity
  <2>. QED  BY <2>1, RepeatsOff
<1>3. CASE inject_string
  <2>1. RepeatOK' /\ DueInPeriod' /\ Live' = Live
    BY <1>0, <1>3, MinuteDue
  <2>2. UNCHANGED << on, string_inject_count, inject, again >>
    BY <1>3 DEF inject_string, history
  <2>3. RepeatsTick'
    BY <1>0, <2>1, <2>2 DEF RepeatsTick
  <2>. QED  BY <2>1, <2>3
<1>4. CASE \E m \in Memories, f \in Freqs : set_memory_repeat(m, f)
  BY <1>0, <1>4, CommandDue, CommandTicks
<1>5. CASE \/ \E f \in Fields, x \in {Default, Chosen} : Set(f, x)
           \/ ToggleAutospace
           \/ \E p \in Presets : restore_preset(p)
           \/ exit_command_mode \/ Hold10 \/ Hold2000 \/ Hold5000 \/ Release
           \/ UNCHANGED vars
  <2>1. UNCHANGED repeats /\ UNCHANGED again /\ on' = on
    BY <1>5 DEF Set, ToggleAutospace, restore_preset, exit_command_mode,
       Hold10, Hold2000, Hold5000, Release, vars, history
  <2>. QED  BY <1>0, <2>1, RepeatsStay
<1>6. CASE Next
  BY <1>1, <1>2, <1>3, <1>4, <1>5, <1>6 DEF Next
<1>7. CASE UNCHANGED vars
  BY <1>5, <1>7
<1>. QED  BY <1>6, <1>7
-------------------------------------------------------------------------------
(* The strengthened invariant. *)

LEMMA InvariantInit == Init => IInv
<1>. SUFFICES ASSUME Init PROVE IInv
  OBVIOUS
<1>1. /\ on = FALSE /\ cp = 0 /\ held = 0
      /\ inUse = [f \in Fields |-> Default]
      /\ repeat_q = [m \in Memories |-> [next |-> 0, freq |-> 0]]
      /\ this_minute = 0 /\ string_inject_count = 0
      /\ inherited = (ee[current_preset] # Erased)
  BY DEF Init, NoRepeats
<1>2. PICK p \in Presets \cup {Erased},
           b \in [Presets -> [Fields -> {Erased, Stale}]],
           r \in [Memories -> Freqs \cup {Erased}] :
        ee = [x \in Cells |-> CASE x = signature           -> FALSE
                               [] x = current_preset      -> p
                               [] x[1] = "preset"         -> b[x[2]][x[3]]
                               [] x[1] = "memory_repeat"  -> r[x[2]]]
  BY DEF Init
<1>3. /\ ee[signature] = FALSE /\ ee[current_preset] = p
      /\ \A q \in Presets, f \in Fields : ee[Preset(q, f)] = b[q][f]
      /\ \A m \in Memories : ee[memory_repeat(m)] = r[m]
  BY <1>2, CellsIn, CellsApart DEF Preset, memory_repeat, signature, current_preset
<1>4. /\ ee[current_preset] \in Presets \cup {Erased}
      /\ \A q \in Presets, f \in Fields : ee[Preset(q, f)] \in {Erased, Stale}
      /\ \A m \in Memories : ee[memory_repeat(m)] \in Freqs \cup {Erased}
  BY <1>3
<1>5. EepromOK
  <2>1. ASSUME NEW x \in Cells PROVE ee[x] \in BOOLEAN \cup Nat
    <3>1. \/ x = signature \/ x = current_preset
          \/ \E q \in Presets, f \in Fields : x = Preset(q, f)
          \/ \E m \in Memories : x = memory_repeat(m)
      BY DEF Cells, signature, current_preset, Preset, memory_repeat
    <3>2. Stale \in Nat /\ Erased \in Nat
      BY DEF Stale, Erased
    <3>3. CASE x = signature
      BY <1>3, <3>3
    <3>4. CASE x = current_preset
      <4>1. ee[x] \in Presets \cup {Erased}
        BY <1>4, <3>4
      <4>. QED  BY <3>2, <4>1, Sizes
    <3>5. CASE \E q \in Presets, f \in Fields : x = Preset(q, f)
      <4>1. ee[x] \in {Erased, Stale}
        BY <1>4, <3>5
      <4>. QED  BY <3>2, <4>1
    <3>6. CASE \E m \in Memories : x = memory_repeat(m)
      <4>1. ee[x] \in Freqs \cup {Erased}
        BY <1>4, <3>6
      <4>. QED  BY <3>2, <4>1, Sizes
    <3>. QED  BY <3>1, <3>3, <3>4, <3>5, <3>6
  <2>2. ee \in [Cells -> BOOLEAN \cup Nat]
    BY <1>2, <2>1
  <2>3. \A q \in Presets, f \in Fields : ee[Preset(q, f)] \in Values
    BY <1>4 DEF Values
  <2>4. ee[signature] \in BOOLEAN
    BY <1>3, Zenon
  <2>5. EeOK(ee)
    BY <1>4, <2>2, <2>3, <2>4 DEF EeOK
  <2>6. inherited \in BOOLEAN /\ (inherited \/ ee[current_preset] = Erased)
    BY <1>1, Zenon
  <2>. QED  BY <2>5, <2>6 DEF EepromOK, RecordedLast
<1>6. PresetOK /\ ButtonOK /\ StoredInUse /\ DueInPeriod /\ RepeatsTick
  BY <1>1 DEF PresetOK, ButtonOK, StoredInUse, DueInPeriod, RepeatsTick, Running
<1>7. StateOK
  <2>1. /\ cp \in Presets \cup {Erased} /\ held \in 0..3
        /\ inUse \in [Fields -> Values]
    BY <1>1, Sizes
  <2>. QED  BY <2>1, Zenon DEF Init, StateOK
<1>8. RepeatOK
  BY <1>1, Clocks, Sizes DEF RepeatOK
<1>. QED  BY <1>5, <1>6, <1>7, <1>8 DEF IInv

LEMMA InvariantStep == IInv /\ [Next]_vars => IInv'
<1>. SUFFICES ASSUME IInv, [Next]_vars PROVE IInv'
  OBVIOUS
<1>0. EepromOK /\ PresetOK /\ ButtonOK /\ StateOK /\ StoredInUse
  BY DEF IInv
<1>1. EepromOK' /\ PresetOK' /\ ButtonOK' /\ StateOK' /\ StoredInUse'
  BY <1>0, PowerLossStep, BootStep, SetStep, RestoreStep, RepeatStep,
     Hold2000Step, Hold5000Step, OtherStep DEF Next
<1>2. RepeatOK' /\ DueInPeriod' /\ RepeatsTick'
  BY RepeatsStep
<1>. QED  BY <1>1, <1>2 DEF IInv

LEMMA InvariantHolds == Spec => []IInv
BY InvariantInit, InvariantStep, PTL DEF Spec

(* Every byte of the EEPROM and everything kept in RAM has its type,       *)
(* wherever power was lost; the minutes and the count stay on their clocks.*)
THEOREM TypeCorrect == Spec => []TypeOK
<1>1. IInv => TypeOK
  BY DEF IInv, EepromOK, EeOK, StateOK, RepeatOK, TypeOK
<1>. QED  BY <1>1, InvariantHolds, PTL

(* What cw.c uses is what settings.c has stored for the preset in use,     *)
(* through commands, restores, resets and power losses (settings.c:90).    *)
THEOREM UseIsStored == Spec => []StoredInUse
<1>1. IInv => StoredInUse
  BY DEF IInv
<1>. QED  BY <1>1, InvariantHolds, PTL

(* A device that runs has every preset written by this program, wherever   *)
(* settings_default was cut short (settings.c:51), unless the number of    *)
(* the preset is from another layout.                                      *)
THEOREM PresetsWhole == Spec => []WholePresets
<1>1. IInv => WholePresets
  BY RunningFacts DEF IInv, WholePresets, Whole
<1>. QED  BY <1>1, InvariantHolds, PTL

(* Switching off and on brings back what was in use: the preset recorded   *)
(* is the preset in use, unless it was reset since (cw-kbd.c:914).         *)
THEOREM SettingsSurvive == Spec => []SurvivesPowerCycle
<1>1. IInv => SurvivesPowerCycle
  <2>. SUFFICES ASSUME IInv, Running, ~wiped, ~command_mode
                PROVE  /\ ee[signature]
                       /\ ee[current_preset] \in Presets
                       /\ Stored(ee, ee[current_preset]) = inUse
    BY DEF SurvivesPowerCycle
  <2>1. /\ ee[signature] /\ ee[current_preset] = cp /\ cp \in Presets
        /\ \A f \in Fields : inUse[f] = ee[Preset(cp, f)]
    BY RunningFacts DEF IInv
  <2>2. inUse \in [Fields -> Values]
    BY DEF IInv, StateOK
  <2>3. Stored(ee, cp) = inUse
    BY <2>1, <2>2 DEF Stored
  <2>. QED  BY <2>1, <2>3
<1>. QED  BY <1>1, InvariantHolds, PTL

(* A repeat is always due within its period, though minutes wrap and none  *)
(* is counted in command mode (cw-kbd.c:409 and 442).                      *)
THEOREM RepeatsDue == Spec => []DueInPeriod
<1>1. IInv => DueInPeriod
  BY DEF IInv
<1>. QED  BY <1>1, InvariantHolds, PTL

(* The minutes are counted as long as some memory is repeated, as long as  *)
(* no repeat is started again (cw-kbd.c:418 and 423).                      *)
THEOREM RepeatsCounted == Spec => []RepeatsTick
<1>1. IInv => RepeatsTick
  BY DEF IInv
<1>. QED  BY <1>1, InvariantHolds, PTL
===============================================================================
