------------------------------- MODULE Settings --------------------------------
(***************************************************************************)
(* settings.c and those who call it: what is kept in EEPROM, the copies of *)
(* it in RAM, the command button held for two and for five seconds, and    *)
(* the repeated memories of cw-kbd.c, which are started from EEPROM.       *)
(*                                                                         *)
(* All this runs inside handlers, or in main before it enables the button  *)
(* and the paddles, so nothing comes between but a power loss, which       *)
(* leaves the bytes written so far.                                        *)
(***************************************************************************)
EXTENDS Integers, FiniteSets

CONSTANTS PresetCount,  (* presets, MEMORY_COUNT: 10                       *)
          FieldCount,   (* settings of a preset: 6, wpm first and          *)
                        (* autospace last                                  *)
          Unchecked,    (* those taken as they are, whatever the byte:     *)
                        (* keying_mode and left_key                        *)
          MemoryCount,  (* message memories, MEMORY_COUNT: 10              *)
          Freqs,        (* minutes between repeats: 0 to 99, 0 for none    *)
          Minutes,      (* this_minute counts modulo this: 256             *)
          CountMod      (* string_inject_count counts modulo this: 256     *)

Presets == 0..(PresetCount - 1)
Memories == 0..(MemoryCount - 1)
Fields == 1..FieldCount
wpm == 1
autospace == FieldCount

(* A byte that was never written is 255, and so is here any other that is  *)
(* no setting.                                                             *)
Erased == 255
(* What a setting is: its default, a choice of the user, what the setters  *)
(* put in the place of an impossible byte (13 words per minute, a tone of  *)
(* 22, a Boolean), or a byte that another layout of settings_t has left    *)
(* there and that happens to be possible.                                  *)
Default == 0
Chosen == 1
Safe == 2
Stale == 3

ASSUME SizesAssumption == /\ PresetCount \in 1..10
                          /\ FieldCount \in Nat \ {0, 1}
                          /\ Unchecked \subseteq Fields \ {wpm, autospace}
                          /\ MemoryCount \in 1..10
ASSUME FreqAssumption == /\ Minutes \in Nat /\ CountMod \in Nat
                         /\ MemoryCount < CountMod
                         /\ Freqs \subseteq 0..(Minutes - 1) /\ 0 \in Freqs
                         /\ Erased % Minutes # 0

(* The bytes of settings_t. *)
signature == << "signature" >>
current_preset == << "current_preset" >>
Preset(p, f) == << "preset", p, f >>
memory_repeat(m) == << "memory_repeat", m >>
Cells == {signature, current_preset}
           \cup ({"preset"} \X Presets \X Fields)
           \cup ({"memory_repeat"} \X Memories)

VARIABLES ee,           (* EEPROM                                          *)
          on,           (* powered and running                             *)
          cp,           (* the preset the setters and getters use          *)
          inUse,        (* dit_len, keying_mode ... word_space in cw.c     *)
          command_mode,
          held,         (* how far v of int6_debounce is: past 10, 2000 or *)
                        (* 5000 milliseconds, or none of them              *)
          repeat_q, this_minute, string_inject_count,
          inject,       (* TICK_INJECT_STR is registered                   *)
          inherited,    (* history: the number of the preset is from       *)
                        (* before the first power-on                       *)
          wiped,        (* history: settings_default ran under a preset    *)
          again         (* history: a repeat was started that had been set *)
                        (* before, or changed when due in minute 0         *)

mode == << command_mode, held >>
repeats == << repeat_q, this_minute, string_inject_count, inject >>
history == << wiped, again >>
vars == << ee, inherited, on, cp, inUse, mode, repeats, history >>

Stored(e, p) == [f \in Fields |-> e[Preset(p, f)]]
Live == {m \in Memories : repeat_q[m].freq # 0}

(* What the setters and getters do with a preset that does not exist is    *)
(* left out: the model then waits for a power loss.                        *)
Running == on /\ cp \in Presets

(* Fault: the number of the preset is written before the presets. *)
RankRecordedFirst(x) ==
  CASE x[1] = "signature"      -> 0
    [] x[1] = "current_preset" -> 1
    [] x[1] = "preset"         -> 1 + x[2] * FieldCount + x[3]
    [] x[1] = "memory_repeat"  -> PresetCount * FieldCount + 2 + x[2]

(* The order in which settings_default writes. *)
Rank(x) ==
  CASE x[1] = "signature"      -> 0
    [] x[1] = "preset"         -> x[2] * FieldCount + x[3]
    [] x[1] = "current_preset" -> PresetCount * FieldCount + 1
    [] x[1] = "memory_repeat"  -> PresetCount * FieldCount + 2 + x[2]

Last == PresetCount * FieldCount + 1 + MemoryCount
Ranks == 0..Last

(* e after settings_default has written the bytes up to rank n. *)
DefaultedUpTo(e, n) ==
  [x \in Cells |-> IF Rank(x) > n THEN e[x]
                   ELSE IF x = signature THEN TRUE ELSE Default]

Defaulted(e) == DefaultedUpTo(e, Last)

(* After that the number is its own. *)
Inherits(n) == inherited /\ Rank(current_preset) > n

(* e after settings_choose_sanity has written its first n bytes. *)
SaneUpTo(e, p, n) ==
  [x \in Cells |-> IF \E f \in 1..n : x = Preset(p, f) THEN Default ELSE e[x]]

(* e after restore_preset(p), whose setters store what they put right. *)
Restored(e, p) ==
  [x \in Cells |-> IF /\ \E f \in Fields \ Unchecked : x = Preset(p, f)
                     /\ e[x] = Erased
                  THEN Safe ELSE e[x]]

NoRepeats == [m \in Memories |-> [next |-> 0, freq |-> 0]]

(* The RAM that is cleared when a program starts. *)
Cleared ==
  /\ cp' = 0
  /\ inUse' = [f \in Fields |-> Default]
  /\ command_mode' = FALSE
  /\ held' = 0
  /\ repeat_q' = NoRepeats
  /\ this_minute' = 0
  /\ string_inject_count' = 0
  /\ inject' = FALSE
  /\ wiped' = FALSE
  /\ again' = FALSE

(* Before the first power-on: the EEPROM is blank, or what another layout  *)
(* of settings_t has left in it, byte by byte.                             *)
Init ==
  /\ \E p \in Presets \cup {Erased},
        b \in [Presets -> [Fields -> {Erased, Stale}]],
        r \in [Memories -> Freqs \cup {Erased}] :
       ee = [x \in Cells |-> CASE x = signature           -> FALSE
                              [] x = current_preset      -> p
                              [] x[1] = "preset"         -> b[x[2]][x[3]]
                              [] x[1] = "memory_repeat"  -> r[x[2]]]
  /\ inherited = (ee[current_preset] # Erased)
  /\ on = FALSE
  /\ cp = 0
  /\ inUse = [f \in Fields |-> Default]
  /\ command_mode = FALSE
  /\ held = 0
  /\ repeat_q = NoRepeats
  /\ this_minute = 0
  /\ string_inject_count = 0
  /\ inject = FALSE
  /\ wiped = FALSE
  /\ again = FALSE
-------------------------------------------------------------------------------
(* Power. *)

(* settings_init, inject_string_init and the restore_preset of cw_init,    *)
(* which does nothing for a preset that does not exist.                    *)
Boot ==
  /\ ~on
  /\ on' = TRUE
  /\ LET e == IF ee[signature] THEN ee ELSE Defaulted(ee)
         p == e[current_preset]
     IN  /\ cp' = p
         /\ ee' = IF p \in Presets THEN Restored(e, p) ELSE e
         /\ inUse' = IF p \in Presets THEN Stored(ee', p) ELSE inUse
         /\ repeat_q' = [m \in Memories |->
                           [next |-> e[memory_repeat(m)] % Minutes,
                            freq |-> e[memory_repeat(m)]]]
         /\ string_inject_count' =
              Cardinality({m \in Memories : e[memory_repeat(m)] # 0})
         /\ inject' = (\E m \in Memories : e[memory_repeat(m)] # 0)
  /\ inherited' = (ee[signature] /\ inherited)
  /\ UNCHANGED << mode, this_minute, history >>

PowerLoss ==
  /\ on
  /\ on' = FALSE
  /\ Cleared
  /\ UNCHANGED << ee, inherited >>

(* Power is lost while settings_default is writing: at the first power-on, *)
(* or when the button has been held for five seconds.                      *)
PowerLossInDefault ==
  /\ on => Running /\ held = 2
  /\ ~on => ~ee[signature]
  /\ on' = FALSE
  /\ \E n \in Ranks : ee' = DefaultedUpTo(ee, n) /\ inherited' = Inherits(n)
  /\ Cleared

(* The same in settings_choose_sanity. *)
PowerLossInSanity ==
  /\ Running /\ held = 1
  /\ on' = FALSE
  /\ \E n \in Fields : ee' = SaneUpTo(ee, cp, n)
  /\ Cleared
  /\ UNCHANGED inherited
-------------------------------------------------------------------------------
(* The settings commands of command mode. *)

Commanded == Running /\ command_mode

(* cw_set_speed, cw_set_keying_mode, cw_set_left_key, cw_set_frequency and *)
(* cw_set_beeper from a command.                                           *)
Set(f, v) ==
  /\ Commanded
  /\ f # autospace
  /\ ee' = [ee EXCEPT ![Preset(cp, f)] = v]
  /\ inUse' = [inUse EXCEPT ![f] = v]
  /\ UNCHANGED << inherited, on, cp, mode, repeats, history >>

(* Command 'a': stored at once, used when command mode is left. *)
ToggleAutospace ==
  /\ Commanded
  /\ ee' = [ee EXCEPT ![Preset(cp, autospace)] =
              IF @ = Default THEN Chosen ELSE Default]
  /\ inUse' = [inUse EXCEPT ![autospace] = Default]
  /\ UNCHANGED << inherited, on, cp, mode, repeats, history >>

(* Fault: the number of the preset is not stored. *)
RestoreUnrecorded(p) ==
  /\ Commanded
  /\ cp' = p
  /\ ee' = Restored(ee, p)
  /\ inUse' = Stored(ee', p)
  /\ wiped' = FALSE
  /\ UNCHANGED << inherited, on, mode, repeats, again >>

(* Command 'p'. *)
restore_preset(p) ==
  /\ Commanded
  /\ cp' = p
  /\ ee' = [Restored(ee, p) EXCEPT ![current_preset] = p]
  /\ inUse' = Stored(ee', p)
  /\ wiped' = FALSE
  /\ UNCHANGED << inherited, on, mode, repeats, again >>

(* Fault: the first repeat comes at once, when this minute is over. *)
SetRepeatAtOnce(m, f) ==
  /\ Commanded
  /\ ee' = [ee EXCEPT ![memory_repeat(m)] = f]
  /\ inject' = (f # 0 \/ inject)
  /\ repeat_q' = [repeat_q EXCEPT ![m] = [next |-> this_minute, freq |-> f]]
  /\ UNCHANGED << inherited, on, cp, inUse, mode, this_minute,
                  string_inject_count, history >>

(* Fault: the event goes on when the last repeat has ended. *)
SetRepeatTicking(m, f) ==
  /\ Commanded
  /\ ee' = [ee EXCEPT ![memory_repeat(m)] = f]
  /\ string_inject_count' =
       CASE f # 0 /\ repeat_q[m].next = 0 -> (string_inject_count + 1) % CountMod
         [] f = 0 /\ m \in Live -> (string_inject_count - 1) % CountMod
         [] OTHER -> string_inject_count
  /\ inject' = (f # 0 \/ inject)
  /\ repeat_q' = [repeat_q EXCEPT ![m] =
                    [next |-> (this_minute + f) % Minutes, freq |-> f]]
  /\ again' = (again \/ (f # 0 /\ (repeat_q[m].next # 0 <=> m \notin Live)))
  /\ UNCHANGED << inherited, on, cp, inUse, mode, this_minute, wiped >>

Counted(m) == repeat_q[m].next # 0
Stopping(m, f) == f = 0 /\ repeat_q[m].freq # 0

(* Command 'r'.  A repeat that has a next minute is taken to be counted    *)
(* already: one that was stopped still has, one due in minute 0 has not.   *)
set_memory_repeat(m, f) ==
  /\ Commanded
  /\ ee' = [ee EXCEPT ![memory_repeat(m)] = f]
  /\ LET count == string_inject_count
     IN  /\ string_inject_count' =
              CASE f # 0 /\ ~Counted(m) -> (count + 1) % CountMod
                [] Stopping(m, f)        -> (count - 1) % CountMod
                [] OTHER                 -> count
         /\ inject' = CASE f # 0           -> inject \/ count = 0
                        [] Stopping(m, f)   -> inject /\ count # 1
                        [] OTHER            -> inject
  /\ repeat_q' = [repeat_q EXCEPT ![m] =
                    [next |-> (this_minute + f) % Minutes, freq |-> f]]
  /\ again' = (again \/ (f # 0 /\ (Counted(m) <=> repeat_q[m].freq = 0)))
  /\ UNCHANGED << inherited, on, cp, inUse, mode, this_minute, wiped >>

(* Fault: the word spaces stay as command mode had them. *)
LeaveSilent == command_mode' = FALSE /\ UNCHANGED inUse

(* set_command_mode(false), as far as the settings go. *)
Leave ==
  /\ command_mode' = FALSE
  /\ inUse' = [inUse EXCEPT ![autospace] = ee[Preset(cp, autospace)]]

(* A command was done, or none came for thirty seconds. *)
exit_command_mode ==
  /\ Running
  /\ command_mode
  /\ Leave
  /\ UNCHANGED << ee, inherited, on, cp, held, repeats, history >>
-------------------------------------------------------------------------------
(* int6_debounce, once a millisecond while the button is down. *)

Hold10 ==
  /\ Running
  /\ held = 0
  /\ held' = 1
  /\ \/ command_mode /\ Leave
     \/ /\ ~command_mode
        /\ command_mode' = TRUE
        /\ inUse' = [inUse EXCEPT ![autospace] = Default]
  /\ UNCHANGED << ee, inherited, on, cp, repeats, history >>

(* settings_choose_sanity for the preset of the getters, then the preset   *)
(* that is recorded.                                                       *)
Hold2000 ==
  /\ Running
  /\ held = 1
  /\ held' = 2
  /\ command_mode' = FALSE
  /\ LET e == SaneUpTo(ee, cp, FieldCount)
         p == e[current_preset]
     IN  /\ cp' = p
         /\ ee' = Restored(e, p)
         /\ inUse' = Stored(ee', p)
  /\ wiped' = FALSE
  /\ UNCHANGED << inherited, on, repeats, again >>

(* settings_default: neither cp nor the repeats that run are touched. *)
Hold5000 ==
  /\ Running
  /\ held = 2
  /\ held' = 3
  /\ Leave
  /\ ee' = Defaulted(ee)
  /\ inherited' = FALSE
  /\ wiped' = TRUE
  /\ UNCHANGED << on, cp, repeats, again >>

(* The button is up, or its count of milliseconds passed 65535. *)
Release ==
  /\ on
  /\ held # 0
  /\ held' = 0
  /\ UNCHANGED << ee, inherited, on, cp, inUse, command_mode, repeats,
                  history >>
-------------------------------------------------------------------------------
(* Fault: this_minute is wider than the minutes it is compared with. *)
InjectWider ==
  /\ Running /\ inject
  /\ ~command_mode
  /\ this_minute' = this_minute + 1
  /\ repeat_q' = [m \in Memories |->
       IF m \in Live /\ repeat_q[m].next = this_minute'
       THEN [repeat_q[m] EXCEPT !.next = (@ + repeat_q[m].freq) % Minutes]
       ELSE repeat_q[m]]
  /\ UNCHANGED << ee, inherited, on, cp, inUse, mode, string_inject_count,
                  inject, history >>

(* Every minute, unless it falls into command mode: send what is due. *)
inject_string ==
  /\ Running /\ inject
  /\ ~command_mode
  /\ this_minute' = (this_minute + 1) % Minutes
  /\ repeat_q' = [m \in Memories |->
       IF m \in Live /\ repeat_q[m].next = this_minute'
       THEN [repeat_q[m] EXCEPT !.next = (@ + repeat_q[m].freq) % Minutes]
       ELSE repeat_q[m]]
  /\ UNCHANGED << ee, inherited, on, cp, inUse, mode, string_inject_count,
                  inject, history >>

Next ==
  \/ Boot
  \/ PowerLoss
  \/ PowerLossInDefault
  \/ PowerLossInSanity
  \/ \E f \in Fields, v \in {Default, Chosen} : Set(f, v)
  \/ ToggleAutospace
  \/ \E p \in Presets : restore_preset(p)
  \/ \E m \in Memories, f \in Freqs : set_memory_repeat(m, f)
  \/ exit_command_mode
  \/ Hold10
  \/ Hold2000
  \/ Hold5000
  \/ Release
  \/ inject_string

Spec == Init /\ [][Next]_vars
-------------------------------------------------------------------------------
Values == {Default, Chosen, Safe, Stale, Erased}

TypeOK ==
  /\ ee[signature] \in BOOLEAN
  /\ ee[current_preset] \in Presets \cup {Erased}
  /\ \A p \in Presets, f \in Fields : ee[Preset(p, f)] \in Values
  /\ \A m \in Memories : ee[memory_repeat(m)] \in Freqs \cup {Erased}
  /\ inherited \in BOOLEAN
  /\ on \in BOOLEAN
  /\ cp \in Presets \cup {Erased}
  /\ inUse \in [Fields -> Values]
  /\ command_mode \in BOOLEAN
  /\ held \in 0..3
  /\ repeat_q \in [Memories -> [next : 0..(Minutes - 1),
                                freq : Freqs \cup {Erased}]]
  /\ this_minute \in 0..(Minutes - 1)
  /\ string_inject_count \in 0..(CountMod - 1)
  /\ inject \in BOOLEAN
  /\ wiped \in BOOLEAN
  /\ again \in BOOLEAN

(* The settings in use are those stored in the preset in use, whatever was *)
(* commanded, restored or reset; command mode alone does without word      *)
(* spaces.                                                                 *)
StoredInUse ==
  Running => \A f \in Fields :
    inUse[f] = ee[Preset(cp, f)] \/ (f = autospace /\ command_mode)

(* Switching off and on again brings back the settings in use, except      *)
(* between a reset to the defaults and the next choice of a preset.        *)
SurvivesPowerCycle ==
  Running /\ ~wiped /\ ~command_mode
    => /\ ee[signature]
       /\ ee[current_preset] \in Presets
       /\ Stored(ee, ee[current_preset]) = inUse

(* Wherever power was lost, a device that runs has every preset written by *)
(* this program: settings_default writes the number of the preset after    *)
(* the presets.  Not so if another layout had left a number there, for the *)
(* signature is written first.                                             *)
WholePresets ==
  Running /\ ~inherited => \A p \in Presets, f \in Fields :
    ee[Preset(p, f)] \notin {Erased, Stale}

(* A repeated memory is due within its period, on a clock that wraps.      *)
DueInPeriod ==
  on => \A m \in Live :
    (repeat_q[m].next - this_minute) % Minutes \in 1..repeat_q[m].freq

(* The event runs if and only if some memory is repeated, and the count is *)
(* of those, until a repeat is started again.                              *)
RepeatsTick ==
  on /\ ~again => /\ string_inject_count = Cardinality(Live)
                  /\ inject <=> Live # {}
===============================================================================
