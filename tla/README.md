# Verification of cw-kbd

cw-kbd is firmware for an ATmega32u4: two Morse paddles and a button go in, a
keyed transmitter, a beeper and a USB keyboard come out.  This directory holds
TLA+ models of it, the TLC configurations that check them on small instances,
and TLAPS proofs for every value of the constants.

    tlc -workers 2 -config MCTick.cfg MCTick.tla     # a run
    tlapm TickProofs.tla                             # a proof

`PROJECT.json` lists the runs, the properties with a fault of the code that
each of them catches, the source lines of each definition, the hazards and the
theorems.

## The system

Nothing runs concurrently with `main` but interrupt handlers, and handlers run
with interrupts disabled.  So a handler is one critical section; a tick
callback is part of the handler of timer 0; `main` can be interrupted between
any two instructions outside `ATOMIC_BLOCK`.

| component | state | operations | talks to |
|---|---|---|---|
| byte rings, `ringbuffer.c` | `q count in out` | push, pop, peek, clear | hold the element, text and HID queues |
| tick and sleep, `tick.c`, `main` | `millis`, `tick_q[]`, `waiting_events`, timer 0 | register, unregister, the pass `ms_tick`; sleep of `main`, its registration at boot | calls the callbacks of all the others |
| CW input, `cw.c` | keying state, counters, settings | INT0, INT1, `cw_tick` each ms | `didah_enqueue` |
| CW output, `cw.c` | `cw_q`, `cw_didah_q`, send state, `bits` | `cw_char`, `didah_enqueue`, `cw_clear_queues`, `cw_out_advance_tick` | keys the transmitter; decoded characters to the callback |
| Morse tables, `cw.c`, `cw-kbd.c` | constant | encode, decode, type | CW output, HID keyboard |
| command mode, `cw-kbd.c` | `cm_state`, `cmd_bytes`, `msg`, `next_action` | the callback in command mode, 30 s timeout | `cw_char`, `cw_clear_queues`, settings, memories, outputs |
| command button, `cw-kbd.c` | press counter | INT6, debounce each ms | command mode, settings |
| memories and repeats, `cw-kbd.c` | `repeat_q`, `this_minute`, `string_inject_count` | set a repeat, the minute tick | `cw_string` |
| HID keyboard, `cw-kbd.c` | `hid_q`, `last_key` | enqueue, create a report | USB host |
| settings, `settings.c` | EEPROM | defaults, getters, setters, `restore_preset` | everything |
| outputs and beeper, `cw.c` | pins and their directions, timer 3, frequency | `cw_led_on`, `cw_led_off`, the toggle interrupt, `cw_set_beeper`, `cw_set_frequency`, enable and disable | keyed by CW output, set by command mode and settings |
| USB device, hardware timers, debug console | registers, tables | | |

What makes each of them correct, and what is hard about it:

* **Rings.**  Three fields updated separately must never disagree, in
  particular through overflow, which drops the oldest byte.
* **Tick.**  Deadlines are compared with `==` on a wrapping counter, so a
  deadline passed once is 65 seconds late.  Callbacks re-register themselves and
  each other during the pass.  The same fact is kept in the `func` pointers and
  in `waiting_events`.  The last event to go stops the timer; `main` tests the
  word and then sleeps.  One registration, the one that sends the greeting, is
  made with interrupts enabled.
* **CW input.**  Edges arrive at any time, bounce, coalesce, and the handler
  reads the pin late.  Six keying modes share one machine.  The tick stops itself.
* **CW output.**  Two queues, three tick rates and a machine that calls itself.
  The key must be down for exactly an element's time, whatever is queued,
  cleared or sped up meanwhile, and must come up again.
* **Morse tables.**  Three tables written down separately; what is sent must be
  heard as itself, and what is heard must have a key of its own.
* **Command mode.**  A machine that recognises the end of its own answer by
  counting the characters it hears, on a line that the operator and the memories
  use too, called from the decoder it restarts.  It must count what it sent, stay
  within its buffer, keep its answers off the air, and come to an end.
* **Repeats.**  A counter of live repeats kept beside the repeats; periods on
  a clock that wraps.
* **HID.**  One key per report; equal characters need a release in between.
* **Settings.**  A signature that vouches for what is written after it.
* **Outputs.**  A timer is stopped by a handler while its interrupt may be
  waiting; four kinds of callers enable and disable the same outputs.

## Modules

| module | models | state and actions |
|---|---|---|
| `Fifo` | a ring seen from outside | `Pushed`, `Popped`, `Oldest` |
| `LossyQueue` | what a ring promises | `Put`, `Get`, `Look`, `Drop` |
| `RingBuffer` | `ringbuffer.c` | the struct's fields; one action per function, `Pop` in its two cases |
| `PeriodicTimers` | what the tick promises | countdown timers: `Arm`, `Cancel`, `Elapse`, `Fire` |
| `Tick` | `tick.c` and the loop of `main` | `ms_tick` is a loop of `Skip`, `Fire`, `Return` between `EnterTick` and `ExitTick`, so that a callback acts in the middle of it; `main` tests and sleeps in two steps |
| `TickBoot` | `main` before its loop, over `Tick` | `cw_string` of the greeting registers its event in one step per access to memory, between any two of which the steps of `Tick` come |
| `KeyLine` | what the sending half promises | text, elements, and units of key-down left |
| `CwOut` | the sending half of `cw.c` | one action per call and per branch of `cw_out_advance_tick`, `didah_decode` included where it is called |
| `CwIn` | the keying half of `cw.c` | pins, interrupt flags and handler entry as separate steps; a tick by keying state; presses and releases by keying state |
| `Morse` | the tables of `cw.c` and `cw-kbd.c` | no state: the tables, the elements of a code, the code gathered from elements, what is heard and typed |
| `CommandMode` | command mode of `cw-kbd.c`, with `cw.c` as the line it uses | one action per state of `command_mode_cb` and what it does there, and per step of `command_next_action`; the button, the timeout, the minute; the line with `Send`, `HearSent`, `HearKeyed` |
| `Outputs` | pins, beeper and timer 3 | one action per function that sets them; `Match` flags the interrupt, `toggle_bit` serves it, any time later |
| `HidReport` | the keyboard in `cw-kbd.c` | `hid_nq` and `TickReport` in one step; the same report by `main` in the steps a handler can come between: the peek, the test of `last_key`, the pop, the assignment, the report |
| `Settings` | `settings.c`, the button's holds and the repeats of `cw-kbd.c` | EEPROM as bytes, the copies in use, `repeat_q`; commands, holds, minutes, and power losses between two bytes |
| `MC*` | instances for TLC | alphabets, tables and the held paddle of `MCStartBit` |
| `*Proofs` | proofs about the module of that name; `TickProofs` about `TickBoot` too | |

The names of variables and actions are those of the source where it has one.
Definitions whose comment starts with "Fault:" are wrong on purpose: each is the
definition below it with a plausible bug, and is used by no specification.

`RingBuffer` implements `LossyQueue`, `Tick` implements `PeriodicTimers` and
`CwOut` implements `KeyLine`, each through `INSTANCE ... WITH` and a refinement
mapping: the ring's contents are the bytes from `out` to `in`; a timer's time
left is the distance from `millis` to its deadline on the circle; the units of
key-down left are read off the send state.  `CwOut` uses a ring only through
`Fifo`, and abstracts the event TICK_CW_ADVANCE to its rate (`adv`), which
`Tick` justifies: a registered event fires at its period and keeps firing.
`TickBoot` extends `Tick` and lets its steps come between those of `main`.
`MCCommand` runs `CommandMode` over the tables of `Morse`.

Abstractions to know when reading:

* `CwIn` has one operator for the two symmetric copies of the code: paddle `p`
  and the opposite one.  `emitted` is the argument of `didah_enqueue` in the last
  step, `lastOut`, `open` and `swapped` are history.
* `CwOut` has the tables as parameters `Encode` and `Decode`.  Characters
  up to 32 are the set `Blanks`, which the decoder's `last_decoded > ' '` tells
  apart.  `heard` is what the callback was given in the last step.  The callback
  itself does nothing in this model; what it calls back is in `CommandMode`.
* `CommandMode` sees the element queue and the decoder as one character on its
  way: `marks` says whether its elements are none, the operator's (`keyed`), those
  of a character sent (`sent`) or both (`mixed`), and `ahead` that the operator has
  keyed on behind its space.  What a space makes of elements that are not exactly
  those of one character is any of `Keyed`.  A code may be heard as several
  characters: they wait in `due` and are delivered before anything else happens,
  as they are in the code, within one handler.  The call of `command_mode_cb` by
  itself is the character `Again` in front of them.  `cw_clear_queues` may decode
  once more in the middle of a delivery (`Fragments`).  `disturbed` and `odd` are
  history: the operator keyed into an answer, and an answer is one of those
  whose length the code gets wrong.  `Stray` is what may follow a full memory,
  which nobody terminates, on the stack of `inject_string`.
* `Outputs` takes what `toggle_bit` finds to be the pin at that moment; `late`
  counts the interrupts served since the key went up.  Tones are bytes in units
  of ten hertz.
* `TickBoot` takes the reading of the 16-bit `millis`, and the writing of a
  deadline, as one step.  Four windows (`Windows`) are where the
  registration goes wrong; `raced` is history that one was hit.
* `HidReport` sends the report in the step that makes it.  The host sees a key
  press when a code appears that was not in the report before.  The histories
  compared are `typed`, what the host saw, with `taken`, the characters that left
  the queue, and with `due`, the keys a host should see for those: of a
  character without a key there is none to see, and of one on the same key as the
  other character reported right before (`Visible`) neither, which is what the
  test of `cw-kbd.c:335` makes of '=' followed by '+'.
* `Settings` keeps of a value whether it is the default, chosen by the user, put
  in place of an impossible one, left by another layout of `settings_t` (`Stale`),
  or no setting at all, as a byte never written is (`Erased`).  The first power-on
  finds either of the last two in each byte of the presets, any number of a
  preset or none, any periods, and a signature that does not match.  Fields whose
  setters take any byte (`keying_mode`, `left_key`) are the parameter `Unchecked`.
  The history `inherited` is that the number of the preset was there before the
  first power-on.  The button's count of
  milliseconds is reduced to the last mark it passed (`held`), here and in
  `CommandMode`.  A device that starts with a preset number that was never written
  is left waiting for the next power loss (`Running`), since its getters then
  read outside the settings.
* Widths are parameters with the code's values in the comment: `M`, `IdleWrap`,
  `BitsMod`, `MaxTicks`, `ByteMod`, `Minutes`, `CountMod`.

## Runs

All passing runs exhaust their state space.  Deadlock is checked everywhere.

| run | instance | shows |
|---|---|---|
| `ring` | 3 slots, 3 values | `IndexesAgree`, and the ring is the lossy FIFO |
| `tick` | 3 events, `M` = 4, periods 1 and 3 | deadlines are never left behind, the two records agree, timers are periodic, and a registered event keeps firing unless `main` slept over its registration |
| `boot` | 2 events, `M` = 5, periods 1 and 3, main registering the later one at period 1 | registering with interrupts enabled is harmless outside four windows |
| `cw_out` | queues of 2 and 3, 3 characters, idle count of 3, 3-bit codes | the key line is implemented, marks are timed and end, work drains or is stranded |
| `cw_in` | all six modes, dit of 1 ms, bounces, word spaces switched on and off | the paddles are tracked, repeats and squeezes are right, and characters close before the tick sleeps |
| `cw_in_changes` | six modes, two speeds and left paddles, changed at any time, any pins at power-on | no phantom keying, and no pin left high but by a change of its element |
| `hid` | queue of 2, 'a', '=', '+' and the apostrophe, 4 queued | outside a race every character taken is seen once and in order, but for those without a key or on the key just reported; none is typed twice in any interleaving, and the last key is let go |
| `settings` | 2 presets of 3 settings, one of them taken as it is, 2 memories, a period of 2 in minutes modulo 4; blank EEPROM or what another layout left | settings in use are those stored and survive a power cycle, presets are whole wherever power failed, repeats stay due and are counted |
| `command` | the real tables; the operator's codes are m, r, p, 5, +, :, the mistake and the prosign `$`; memories of 1 character, a queue of 7, memory 5 repeated, a count modulo 8 | parameters stay in their buffer, answers and memories keep to their mode, what is heard is what is counted, and command mode is always left |
| `outputs` | seven tones around the two limits of `cw_set_frequency` | the beeper is silent between elements but for one late toggle, quiet is quiet, elements keyed in command mode are off the air, those keyed outside it on the air, and all have the tone stored |
| `start_bit` | the real 16-bit code, a held dit paddle | the start bit is lost (finding) |
| `mode_a` | iambic A, no bounce | an element is added at the release (finding) |

`Morse` has no behaviour.  Its property `TablesAgree` is an assumption that TLC
evaluates, over every character and code, when it starts the `command` run.

Why the bounds are enough.  A ring of three slots can be empty, partly full,
full, overflowing and wrapped at every index, and nothing in the code depends on
the size but the two comparisons.  `M` = 4 with period 3 makes a period of a turn
less one, the largest the code's 60000 of 65536 stands for, and 3 events give a
callback an event before and after its own in the pass.  At boot two events are
enough, main's and another whose callback or handler comes in between, and a turn
of 5 leaves room for both deadlines to lie on either side of the present.
The text queue of 2
and the element queue of 3 overflow, hold a whole code with its space, and hold
leftovers; the idle count of 3 wraps with the machine in either state.
A dit of 1 ms gives cycles of 2, 4 and 6 ticks, so that presses and releases fall
on every phase, and `IdleSleep` = 7 is the smallest that lets a word space
(6) come before the sleep, as 1024 does from 8 words a minute up.
`cw_in_changes` has a `VIEW` of the variables that its two properties depend on:
what is keyed, and which pin is high, never depends on the counters or the other
history, so states that differ in those alone stand for each other.
A HID queue of 2 overflows under a report of `main`, and 4 characters make it do
so in the middle of one; of the four characters two share a key and differ in
shift, one has no key and one is like most others.
Two presets tell the one in use from the one recorded; of the three
settings the first is put right when it is impossible (the speed), the second
taken as it is and the third the one that command mode
suspends (the word spaces); and with two memories one repeat can be stopped under
the other; minutes modulo 4 wrap, and a period of 2 makes every minute, 0 too, one a
repeat can be due in.  Two bounds of `MCSettings` keep apart what does not meet in
the code: what another layout left is explored in the first minute only, and at
most two bytes of the presets at a time are a choice of the user, one once
minutes have passed.  The theorems do without either.

In `command` the operator's codes are one command of each kind that asks for
something, memories and a setting, a digit, which is a number, a preset, a
memory and a request to play one, the end of input, the reset, the mistake and a
code that is heard as two characters; other codes are answered with `?`.  A queue
of 7 holds the greeting or the longest answer (`== r555`), which do not overflow,
as they do not on 128; the theorems hold for queues that do.  A count modulo 8 wraps when a refused
preset leaves it at 0.  A memory is queued only on an empty queue (`Backlog`),
and an operator who keyed into an answer lets the rest of it pass
(`Insistent`): both only cut the number of states, and the theorems do without
either.  The `VIEW` leaves out the variables of `command_mode_cb` outside
command mode: nothing reads them before `command_mode_cb(0)` forgets them.
The commands d, k, s, t, a and q and the other digits are modelled,
and the theorems cover them, but this run does not key them.
In `outputs` the tones are both replaced ones (0 and 7), the last that needs the
prescaler (12) and the first that does not (13), the lowest and highest that can
be asked for, and one in between.

Fairness.  `Tick`: handlers and callbacks return and the pass goes on (they are
straight code); the compare flag of timer 0 stays pending, so the tick is entered
if it is possible again and again; and `main` goes on when it is not interrupted.
Nothing is assumed of the external interrupts: they may never come.  So
`KeepsFiring` has to excuse one behaviour, and does so by name: `main` tests
`waiting_events` (`cw-kbd.c:1074`), a handler registers an event, and `main`
powers down with it registered and sleeps on (`SleptOver`), until an
external interrupt wakes it.  Without that disjunct TLC finds this behaviour; with it,
any other way of losing an event is still found.  `CwOut` and `CwIn`: the event's tick happens again, which is
`KeepsFiring` of `Tick`, so not while `main` sleeps over it; a pending interrupt is served.  `KeyReleased` and
`Drains` need nothing else.  `HeldRepeats` asks that the other paddle is left
alone, since an endless bounce may keep the tick out.  `HidReport`: the host keeps
polling, as a host does that lists the endpoint with an interval; `main`'s part
of the polling may stop anywhere.  `CommandMode`: the firmware goes on as long as there is anything
to send, hear, deliver or time out, which is `KeepsFiring` for the events of the
line and of the timeout.  This is `WF_vars(Next /\ Quiet)`, where `Quiet` leaves out the
button and the paddles; its `ENABLED` is written out as `~AtRest`.  No
action is favoured: `AlwaysLeft` holds because every path of the firmware alone
ends, by the timeout if by nothing else.  `Settings`, `Outputs`
and `TickBoot` need none: they have no liveness property.

What the findings say:

* `start_bit`: sixteen dits without a space (a held paddle) leave `bits` = 0; the
  comment on the encoding promises a start bit.  The next space then decodes
  entry 0 of the table.
* `mode_a`: `keying_mode & keying_mode_iambic_b` is also true in iambic mode A,
  ultimatic and paddle mode.

Observations without a run of their own:

* In bug mode, the default, a second press replaces the first, so two squeezed
  paddles deliver the last release in idle, which `cw.c` logs as "BAD!!!".  It
  does no harm (`NoPhantomKey`), but the paddle still held keys nothing any more.
* Repeats compare a counter with `==`, so `RepeatsPerCycle` holds only while the
  speed is not raised under a held paddle: it is silent then for a turn of 16
  bits.
* An output pin stays high under a released paddle if the left paddle's element was
  changed while the pin was high (`cw.c:1008`): the release clears the other pin.
  `NoStuckPort` excuses the pins for which that happened (`swapped`), and no
  others; without the excuse TLC finds it.  `ClosedBeforeSleep` holds only while
  the speed is not changed (the theorem says so in its assumption).
* The gap between words is not timed by the dit.  A space taken from the text
  queue (`cw.c:472-475`) leaves the tick at the rate at which it looks for work, so
  the three states of the gap take a millisecond each, or a dit if `cw_set_speed`
  was called in between.  `TimedByDitLen` speaks of elements, the gaps after them
  and the gap that ends a character, and leaves these states out.
* `main` may power down with an event just registered (`SleptOver`), and then
  only USB activity, a paddle or the button wakes it.
* The tick of the output may stop in the very millisecond work was queued
  (`Stranded`), until something else is queued.
* In the four windows of `TickBoot` the greeting at boot may come a turn of `millis` late, or
  not before some handler registers an event, or with the records of the tick apart.
* Entering command mode clears the queues only after it has taken the callback
  over, so a character the operator had half keyed is delivered as the first
  command.
* Leaving command mode in the middle of an element enables the outputs with the
  key still down: the element's tail goes on the air, as the head of one goes that
  is under way when the mode is entered.  `OffAir` therefore speaks of elements
  that were under way in one mode only (`span`).
* A full memory is not terminated on the stack of `inject_string`, and what
  follows it is sent too.
* `p` with something that is no preset is answered without setting `cmd_bytes`,
  which then wraps: command mode goes on listening to itself for 256
  characters, or until its timeout (`AlwaysLeft` holds).
* `s` and `t` count a number as two characters however many it has, so the
  answer is one short for a number of one digit.
* `set_memory_repeat` takes a memory with a next minute for counted, and a
  stopped one still has it, while one due in minute 0 has none (`again`).
  From then on the count is wrong, and stopping another memory may unregister the event
  under the live one.
* The signature is the first of the defaults to be written (`settings.c:58`) and
  the periods of the repeats are among the last: power lost in between leaves a
  device that repeats every memory every 255 minutes.
* For the same reason a device whose EEPROM holds another layout, which is what
  the signature is there to detect (`gen_sig.sh`), takes it for its own if power
  is lost in the first reset: the signature is valid, and so is the number of the
  preset if the byte there happens to be below ten.  It then runs on presets that
  this program never wrote.  `WholePresets` excuses this (`inherited`) and nothing
  else; without the excuse TLC finds it in two steps.  Over blank EEPROM the number
  is 255 and no preset is restored: the device runs with what
  `cw.c` starts with, which the model leaves waiting for a power loss (`Running`).
* `SurvivesPowerCycle` leaves out the time after a reset to the defaults
  (`wiped`): the reset records preset 0 and goes on using the one it was in.
* `CreateHIDReport` puts a release between equal characters only; '=' and '+' are
  one key with and without shift, so keyed in a row the host sees the key go
  down once.  `AllTyped` and its theorem say that, outside a race, keys are lost
  only to a shared code or to none.
* A character that is dropped from the full queue between the peek and the pop of
  `main` makes it pop another one, or none, and a report of the tick between
  the test of `last_key` and the pop can cost a release (`raced`).  Keys are then lost,
  about which nothing is claimed; nothing is typed twice (`NothingTwice`).
* The prosigns AR, BT and NR are never announced: `cw2ascii` has '+', '=' and '/'
  for their codes.  The apostrophe is heard as itself and has no key, while the
  back quote it is sent as has one.  '-' is sent but heard as nothing, and '$' as
  a prosign, which command mode hears as two characters.
* An interrupt of timer 3 that is served after `cw_led_off` leaves the beeper's
  pin high until the end of the next element.
* `cw_init` enables every output after it has restored the preset, the beeper's
  too in quiet mode; the pin stays low all the same (`QuietIsQuiet`).
* The command `t` in the middle of an element sets the new top under the old
  prescaler until the element ends; `ToneTrue` speaks of the next element.

## Proofs

All theorems are of the form `Spec => []P` or `Spec => [][A]_v` or the
refinement of an abstract specification, under the assumptions named in the
modules (`SizeAssumption`, `FreqsAssumption`, `TablesAssumption`,
`AlphabetAssumption`, `TicksAssumption`, ...), which TLC evaluates in the runs.

* `RingBufferProofs`: the inductive invariant is `TypeOK /\ IndexesAgree`.
  Without `IndexesAgree` the refinement fails at once, since the place a byte is
  written to is not known to be the end of the contents.  The lemmas describe
  `Pushed`, `Popped` and a window of the ring element by element; the
  refinement has one step per function.
* `TickProofs`: `BitsMatch` and `TimerRuns` are inductive together.  `OnTime` is
  inductive with the types; it needs the position in the pass (`Unvisited`),
  because in the middle of a pass a deadline may be the present.  The
  refinement shows that advancing `millis` lowers every distance by one, which
  is where `OnTime` is used: no distance is 0 when the next pass starts.
  `BootIsHarmless` is about `TickBoot`: outside the four windows every step of the
  registration leaves the records of the tick as a step of `Tick` would.
  Its invariant says which of its writes `main` still owes (`BitsOwed`), and that
  what it holds of the mask is still what the mask is (`Held`), from the
  read to the write that gives it back.
* `CwOutProofs`: `TypeOK`, `TimedByDitLen` and `KeyDownInMarks` are each
  inductive over the types; the refinement of `KeyLine` maps the branches of the
  machine to `StartWaiting`, `StartTyped`, `Unit` or a stutter.
* `CwInProofs`: `NoPhantomKey` and `TracksPaddles` follow from three lemmas
  about one step of one paddle: what a step can have been if the paddle is settled
  after it, what its own handler does, and what the other's does.
  `ClosedBeforeSleep` is not inductive; `Closing` adds that in an open
  character the space counter is below the length of a dit's cycle and not
  behind the idle counter, so the space comes before the sleep.
  `RepeatsPerCycle` is strengthened to every mode (`InCycle`).  `NoPortStuck`
  assumes nothing of the settings: a step that changes neither the left paddle nor
  the history keeps the element of each paddle, and one that swaps the
  elements marks the pins that are high.
* `HidReportProofs` assumes nothing of the key codes: characters may share one or
  have none.  The inductive invariant `InStep` says, outside a race, where the host is
  with respect to `due`: the keys typed are those due, but for the one that
  `main` has popped and not yet reported, and the report shows `last_key` but for
  the one `main` has remembered.  `KeysInOrder` follows when `main` is outside.
  `TypedOnce` holds in every race, the one between the test and the pop included.  Its invariant `PaidOnce` leaves room for the key that `main` has
  popped and not yet reported: the times a key was typed, and once more for
  that one, are at most the times it was taken.  The lemmas count the
  occurrences of a key in a history as it grows.
* `OutputsProofs`: `SilentUnlessKeyed` is not inductive, since nothing in it
  bounds the interrupts still to come.  `Served` adds that nothing is flagged any
  more once an interrupt has been served between elements; `Masked`, that the interrupt is
  enabled exactly if the beeper was asked for, gives `QuietIsQuiet`.  `OffAir` follows from
  `DrivenByMode`, that the transmitter and the dit and dah outputs are enabled exactly
  outside command mode, and `Spanned`, that the present mode is one of those of the
  element under way.  `ElementsInTune` rests on lemmas about the two truncating
  divisions: a half period of a byte of tens of hertz fits sixteen bits, by
  itself or a sixty-fourth of it, and the tone it makes is within a thousandth of
  the one asked for.  They are about the numbers of the code, a clock of 16 MHz and a byte, and hold for
  each of the 256 tones by one argument, not by trying them.
* `CommandModeProofs`: `StaysInBounds` needs `MsgFits`, since the answer to a
  repeat counts the parameter (`5 + Len(msg)`) after the state that bounded it is
  left; `DueOK`, that the call by itself finds `next_action` or `done` and
  nothing else, so that it is never taken for a character keyed; and
  that what is counted fits a byte.  `LineOwned` needs `OwedOK`: a minute that has
  begun is over before the mode can change.  What is proved holds for every
  operator, without `Insistent` and `Backlog`, and for every length of a
  memory that fits the byte and the text queue.
  `AnswersAreCounted` rests on an invariant of seven parts (`Counting`), which speaks of
  a command mode that was not disturbed and in which nothing was counted wrong.
  `CountOK`: `cmd_bytes` is what is queued, plus the character on its way, plus
  the one that has just been heard and not yet been counted.  `SilentOK` and
  `OwnOK`: in no other state is there anything of either, and one's own character
  is the last thing delivered.  `GoesOn`: the callback asks for a parameter
  only when it goes on from an answer, so that nothing is left over which the
  parameter would take in.  `TextSayable`: whatever is left of an answer
  will be heard as one character for each, a space included, because no space is
  its first or follows another.  `MsgOK` and `InputOK` say why that is so of
  an answer that repeats the parameter: a '$' is keyed behind the '/' that
  announces it and nowhere else, so no number has one.  `EchoAssumption`
  says of the tables what this needs, for any tables.
  `AlwaysTimed`, that the timeout is registered exactly in command mode, is what
  `AlwaysLeft` needs besides fairness when a command is given up.
* `SettingsProofs`: `SurvivesPowerCycle` rests on `PresetOK`, the preset that is
  recorded is the one in use unless the device was wiped since, and holds the defaults
  if they differ;
  `WholePresets` on `EepromOK`, whose part `RecordedLast` says that a number
  of a preset is written only after every preset, from the order in which
  `settings_default` writes, unless the number is `inherited`; the lemma
  `RestoredBytes`, that restoring a preset puts right what is no setting and
  changes nothing else, is what the other invariants need under stale presets.  `ButtonOK` says what a hold of
  two seconds has left, the defaults in use, which the reset at five seconds
  stores.  `DueInPeriod` and
  `RepeatsTick` are inductive with the types, the first over lemmas about
  `%`, the second over lemmas on the cardinality of `Live` as one memory joins or
  leaves it.  It assumes that 255 is no multiple of the turn of the minutes,
  since an erased period would be 0 minutes then.

Every invariant and action property that a run checks, and every refinement, is
a theorem.  Only model-checked are the liveness properties `KeepsFiring`,
`Drains`, `KeyReleased`, `HeldRepeats`, `LetsGo` and `AlwaysLeft`, which need
fairness, and the tables of `Morse`, which are data.  The two runs that expect a
violation are of course no theorems.

## Not modelled

* USB: LUFA is a library outside the repository, the descriptors are tables and
  the class requests copy registers.  `HidReport` starts where a report is asked
  for.
* The debug console (`usart.c`, `sprintf.c`): compiled only with `DEBUG`; logging
  and formatting.
* `timer.c` beyond the calls the program makes: its other functions have no
  caller.  Timers 0 and 3 appear in `Tick` and `Outputs` as what their registers
  do.
* The masking of INT6 while `int6_debounce` counts; a press counts from the first
  millisecond it is seen.
* What the getters read under a preset that does not exist, and the texts of
  the memories under power loss.

Left for later: `Keyer`, the composition of `CwIn`, `CwOut` and `CommandMode`,
which would derive the line of `CommandMode` from the element queue instead of
assuming it.
