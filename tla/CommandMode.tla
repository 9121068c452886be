------------------------------ MODULE CommandMode ------------------------------
(***************************************************************************)
(* Command mode of cw-kbd.c.  The operator keys commands on the paddles;   *)
(* the firmware answers in Morse on the same line, and learns that it has  *)
(* finished an answer by counting the characters it hears itself send.     *)
(*                                                                         *)
(* The line is cw.c seen from here: the text queue, and one character at a *)
(* time whose elements are on their way through the element queue to the   *)
(* decoder, keyed by the operator, sent from the text queue, or both mixed *)
(* up.  Everything runs in handlers; what the decoder gives its callback   *)
(* is delivered one character at a time before anything else happens.      *)
(***************************************************************************)
EXTENDS Integers, Sequences, FiniteSets

CONSTANTS Chars,     (* the characters sent and heard                      *)
          Coded,     (* those that have a code                             *)
          Echo,      (* Echo[c]: what is heard when c is sent              *)
          Keyed,     (* what may be heard of a code keyed by the operator  *)
          MsgLen,    (* length of a memory: 64                             *)
          TextSize,  (* size of cw_q: 128                                  *)
          ByteMod,   (* cmd_bytes is a uint8_t: 256                        *)
          Repeated,  (* the memories that may be repeated                  *)
          Backlog,   (* bound: no memory is due behind more than this      *)
          Insistent, (* bound: FALSE if the operator, having keyed into an *)
                     (* answer, lets the rest of it pass                   *)
          Stray      (* what may follow a full memory on the stack         *)

Space == " "
Backspace == "BS"
(* The argument with which command_mode_cb calls itself. *)
Again == "again"
(* The byte 0: no command, and what is behind the end of msg. *)
Nul == "nul"

Digit == << "0", "1", "2", "3", "4", "5", "6", "7", "8", "9" >>
Digits == {"0", "1", "2", "3", "4", "5", "6", "7", "8", "9"}
Mids == 0..9
Settings == {"d", "k", "p", "s", "t"}
Memories == {"m", "r"}

ASSUME AlphabetAssumption ==
  /\ Digits \cup Settings \cup Memories \subseteq Chars
  /\ {":", "?", "+", "=", "!", "L", "R", "h", "i", ".", Space, Backspace}
       \subseteq Chars
  /\ Again \notin Chars /\ Nul \notin Chars
  /\ Coded \subseteq Chars
  /\ Echo \in [Coded \ {Space} -> Seq(Chars)]
  /\ Keyed \subseteq Seq(Chars)
  /\ Stray \subseteq Seq(Chars)

(* The characters that are heard as one character when they are sent. *)
Plain == {c \in Coded \ {Space} :
            \E h \in Chars \ {Space, Backspace} : Echo[c] = << h >>}

(* What the tables make of an answer, and of what the operator may key: of *)
(* all that is heard only the '$', behind the '/' that announces it, is    *)
(* not heard as one character when it is sent.                             *)
ASSUME EchoAssumption ==
  /\ Space \in Coded
  /\ Digits \cup Settings \cup Memories \subseteq Plain
  /\ {":", "?", "+", "=", "!", "L", "R", "a", "b", "c", "p", "s", "u"} \subseteq Plain
  /\ \A s \in Keyed : \A i \in DOMAIN s :
       \/ s[i] \in Plain \cup {Space, Backspace}
       \/ s[i] = "$" /\ i > 1 /\ s[i - 1] = "/"
ASSUME SizesAssumption ==
  /\ MsgLen \in Nat \ {0} /\ TextSize \in Nat /\ ByteMod \in Nat
  /\ MsgLen + 3 < ByteMod /\ 7 < ByteMod
  /\ MsgLen + 3 <= TextSize /\ 7 <= TextSize
  /\ Repeated \subseteq 0..9
  /\ Backlog \in Nat /\ Insistent \in BOOLEAN

VARIABLES command_mode,
          wdt,          (* TICK_FAUX_WDT is registered                     *)
          cm_state, cmd_bytes, msg, mid, next_action, command,
          text,         (* cw_q, with who queued each character            *)
          marks,        (* whose elements make up the next character       *)
          sending,      (* the character sent among them                   *)
          ahead,        (* the operator keyed on behind its space          *)
          spaced,       (* last_decoded > ' '                              *)
          due,          (* what the decoder has yet to give the callback   *)
          heard, own,   (* the code being decoded, and whether it is that  *)
                        (* of a character sent                             *)
          owed,         (* the memories inject_string has yet to queue     *)
          held,         (* how far the button's count is: past 10, 2000 or *)
                        (* 5000 milliseconds, or none of them              *)
          memory,       (* the texts in EEPROM                             *)
          disturbed,    (* history: the operator keyed into an answer      *)
          odd           (* history: an answer was counted wrong            *)

statics == << cm_state, cmd_bytes, msg, mid, next_action, command >>
elements == << marks, sending, ahead, spaced >>
decoding == << due, heard, own >>
line == << text, elements, decoding >>
button == << command_mode, wdt, held >>
history == << disturbed, odd >>
vars == << button, statics, line, owed, memory, history >>

(* No handler is running. *)
Free == due = << >> /\ owed = {}

By(w, s) == [i \in DOMAIN s |-> [ch |-> s[i], by |-> w]]

(* cw_string on a ring that drops its oldest characters. *)
Queued(t, w, s) ==
  LET all == t \o By(w, s)
  IN  IF Len(all) <= TextSize THEN all
      ELSE SubSeq(all, Len(all) - TextSize + 1, Len(all))

(* The last character heard was greater than ' '. *)
Spaced(s) == s # << >> /\ s[Len(s)] \notin {Space, Backspace}

Greeting == << Space, Space, Space, Space, "h", "i", "." >>

(* command_mode_cb(0); mid is left. *)
Forget ==
  /\ cm_state' = "idle"
  /\ cmd_bytes' = 0
  /\ msg' = << >>
  /\ next_action' = 0
  /\ command' = Nul

Init ==
  /\ command_mode = FALSE
  /\ wdt = FALSE
  /\ held = 0
  /\ cm_state = "idle"
  /\ cmd_bytes = 0
  /\ msg = << >>
  /\ mid = 0
  /\ next_action = 0
  /\ command = Nul
  /\ text = Queued(<< >>, "memory", Greeting)
  /\ marks = "none"
  /\ sending = Space
  /\ ahead = FALSE
  /\ spaced = FALSE
  /\ due = << >>
  /\ heard = << >>
  /\ own = FALSE
  /\ owed = {}
  /\ memory = [m \in Mids |-> << >>]
  /\ disturbed = FALSE
  /\ odd = FALSE
-------------------------------------------------------------------------------
(* The line. *)

(* The operator keys elements; the space that ends a character comes by    *)
(* itself.  Only elements that are behind a space need telling apart.      *)
OperatorMarks ==
  /\ Free
  /\ ~Insistent => ~(disturbed /\ command_mode /\ cm_state = "output")
  /\ \/ marks = "none" /\ marks' = "keyed" /\ UNCHANGED ahead
     \/ marks # "none" /\ ahead' = TRUE /\ UNCHANGED marks
  /\ UNCHANGED << button, statics, text, sending, spaced, decoding, owed,
                  memory, history >>

(* cw_out_advance_tick takes a character when it finds no elements: those  *)
(* the operator has keyed so far are in the decoder.                       *)
Send ==
  /\ Free
  /\ text # << >>
  /\ marks \in {"none", "keyed"} /\ ~ahead
  /\ text' = Tail(text)
  /\ IF Head(text).ch \in Coded
     THEN /\ marks' = IF marks = "none" THEN "sent" ELSE "mixed"
          /\ sending' = IF marks = "none" THEN Head(text).ch ELSE Space
          /\ disturbed' = (disturbed \/ marks # "none")
     ELSE UNCHANGED << sending, marks, disturbed >>
  /\ UNCHANGED << button, statics, ahead, spaced, decoding, owed, memory, odd >>

(* A space that is sent is heard as a word space, unless after another. *)
Sounds(c) == IF c # Space THEN Echo[c]
             ELSE IF spaced THEN << Space >> ELSE << >>

(* The decoder has put a code together, its own being one it was sent. *)
Decode(s, mine) ==
  /\ due' = s
  /\ heard' = s
  /\ own' = (mine /\ s # << >>)
  /\ spaced' = Spaced(s)
  /\ marks' = IF ahead THEN "keyed" ELSE "none"
  /\ sending' = Space
  /\ ahead' = FALSE

(* The code is forgotten when its last character has been delivered. *)
Deliver(rest) ==
  /\ due' = rest
  /\ heard' = IF rest = << >> THEN << >> ELSE heard
  /\ own' = (own /\ rest # << >>)

HearSent ==
  /\ Free
  /\ marks \in {"sent", "mixed"}
  /\ IF marks = "sent" THEN Decode(Sounds(sending), TRUE)
                       ELSE \E s \in Keyed : Decode(s, FALSE)
  /\ UNCHANGED << button, statics, text, owed, memory, history >>

HearKeyed ==
  /\ Free
  /\ marks = "keyed"
  /\ \E s \in Keyed : Decode(s, FALSE)
  /\ disturbed' = (disturbed \/ (command_mode /\ cm_state = "output"))
  /\ UNCHANGED << button, statics, text, owed, memory, odd >>

(* What a space makes of the elements on the line: of part of a character, *)
(* or, while a character is being delivered, of that character once more,  *)
(* because its bits are reset only after the callbacks.                    *)
Fragments ==
  IF due # << >> THEN {IF heard = << Space >> THEN << >> ELSE heard}
  ELSE Keyed \cup (IF marks = "sent" THEN {Sounds(sending)} ELSE {})

(* cw_clear_queues, before the characters in rest are delivered.  It       *)
(* decodes if there is an element left in the queue: not if those of the   *)
(* operator are already in the decoder.                                    *)
ClearElements(rest) ==
  /\ \/ /\ marks = "none" \/ (marks = "keyed" /\ ~ahead)
        /\ due # << >> => marks = "none"
        /\ Deliver(rest)
        /\ UNCHANGED << marks, spaced >>
     \/ /\ marks # "none"
        /\ \E s \in Fragments : /\ due' = s \o rest
                                /\ heard' = s
                                /\ spaced' = Spaced(s)
        /\ marks' = "none"
        /\ own' = FALSE
  /\ ahead' = FALSE
  /\ sending' = Space

ClearQueues(rest) == text' = << >> /\ ClearElements(rest)
-------------------------------------------------------------------------------
(* Into command mode and out of it. *)

(* set_command_mode(false) *)
Leave(rest) ==
  /\ command_mode' = FALSE
  /\ wdt' = FALSE
  /\ ClearQueues(rest)

(* set_command_mode(true) *)
Enter ==
  /\ command_mode' = TRUE
  /\ wdt' = TRUE
  /\ Forget
  /\ ClearQueues(<< >>)
  /\ disturbed' = FALSE
  /\ odd' = FALSE
  /\ UNCHANGED mid

(* Fault: command mode waits for ever. *)
ToggleUnguarded ==
  /\ Free
  /\ held = 0
  /\ held' = 1
  /\ \/ ~command_mode /\ command_mode' = TRUE /\ wdt' = FALSE /\ Forget
        /\ ClearQueues(<< >>) /\ disturbed' = FALSE /\ odd' = FALSE
        /\ UNCHANGED mid
     \/ command_mode /\ Leave(<< >>) /\ UNCHANGED << statics, history >>
  /\ UNCHANGED << owed, memory >>

(* int6_debounce after 10, 2000 and 5000 ms; what it does to the settings  *)
(* other than the memories is left to the module Settings.                 *)
Toggle ==
  /\ Free
  /\ held = 0
  /\ held' = 1
  /\ \/ ~command_mode /\ Enter
     \/ command_mode /\ Leave(<< >>) /\ UNCHANGED << statics, history >>
  /\ UNCHANGED << owed, memory >>

Hold2000 ==
  /\ Free
  /\ held = 1
  /\ held' = 2
  /\ Leave(<< >>)
  /\ UNCHANGED << statics, history, owed, memory >>

Hold5000 ==
  /\ Free
  /\ held = 2
  /\ held' = 3
  /\ Leave(<< >>)
  /\ memory' = [m \in Mids |-> << >>]
  /\ UNCHANGED << statics, history, owed >>

(* The button is up, or its count passed 65535. *)
Release ==
  /\ Free
  /\ held # 0
  /\ held' = 0
  /\ UNCHANGED << command_mode, wdt, statics, line, owed, memory, history >>

(* exit_command_mode, thirty seconds after the last character. *)
Timeout ==
  /\ Free
  /\ wdt
  /\ Leave(<< >>)
  /\ UNCHANGED << held, statics, history, owed, memory >>

(* Fault: a minute that falls into command mode is not left out. *)
InjectAnyway ==
  /\ Free
  /\ Len(text) <= Backlog
  /\ owed' \in SUBSET Repeated
  /\ UNCHANGED << button, statics, line, memory, history >>

(* inject_string, once a minute: some memories are due, in their order. *)
Inject ==
  /\ Free
  /\ ~command_mode
  /\ Len(text) <= Backlog
  /\ owed' \in SUBSET Repeated
  /\ UNCHANGED << button, statics, line, memory, history >>

(* A full memory is not terminated on the stack of inject_string. *)
InjectMemory ==
  /\ \E m \in owed :
       /\ \A n \in owed : m <= n
       /\ owed' = owed \ {m}
       /\ \E s \in IF Len(memory[m]) = MsgLen THEN Stray ELSE {<< >>} :
            text' = Queued(text, "memory", memory[m] \o s)
  /\ UNCHANGED << button, statics, elements, decoding, memory, history >>
-------------------------------------------------------------------------------
(* command_mode_cb, one action per state it finds and what it does there.  *)

v == Head(due)

(* The callback is hid_nq, or the character is a space nobody waits for.   *)
OnAir ==
  /\ due # << >>
  /\ ~command_mode \/ (v = Space /\ cm_state # "output")
  /\ Deliver(Tail(due))
  /\ UNCHANGED << button, statics, text, elements, owed, memory, history >>

(* cm_state is state, and the character counts there. *)
Called(state) ==
  /\ due # << >>
  /\ command_mode
  /\ cm_state = state
  /\ state # "output" => v # Space

(* Any character puts the timeout off. *)
Go(rest) ==
  /\ wdt' = TRUE
  /\ Deliver(rest)
  /\ UNCHANGED << command_mode, held, elements, owed >>

(* n characters, or so the code thinks, are sent and then heard. *)
Answer(s, n) ==
  /\ text' = Queued(text, "answer", s)
  /\ cmd_bytes' = n
  /\ cm_state' = "output"

IdleAnswered ==
  /\ Called("idle")
  /\ v \notin Digits \cup {"e", ":"}
  /\ command' = v
  /\ next_action' = 0
  /\ CASE v \in Settings \cup Memories -> Answer(<< ":", v >>, 2)
       [] v = "a"                      -> Answer(<< "+" >>, 1)
       [] v = "q"                      -> Answer(<< "=", "=" >>, 2)
       [] OTHER                        -> Answer(<< "?" >>, 1)
  /\ Go(Tail(due))
  /\ UNCHANGED << msg, mid, memory, history >>

(* Fault: a memory is queued before command mode is left. *)
IdlePlayFirst ==
  /\ Called("idle")
  /\ \E m \in Mids :
       /\ v = Digit[m + 1] \/ (v = "e" /\ m = 0)
       /\ text' = Queued(text, "memory", memory[m])
  /\ command' = v
  /\ next_action' = 0
  /\ Go(Tail(due))
  /\ UNCHANGED << cm_state, cmd_bytes, msg, mid, memory, history >>

(* Leave command mode and play a memory; 'e' is a short '0'. *)
IdlePlay ==
  /\ Called("idle")
  /\ command_mode' = FALSE
  /\ wdt' = FALSE
  /\ ClearElements(Tail(due))
  /\ \E m \in Mids :
       /\ v = Digit[m + 1] \/ (v = "e" /\ m = 0)
       /\ text' = Queued(<< >>, "memory", memory[m])
  /\ command' = v
  /\ next_action' = 0
  /\ UNCHANGED << held, cm_state, cmd_bytes, msg, mid, owed, memory, history >>

(* soft_reset goes to the bootloader, which starts the program again. *)
IdleReset ==
  /\ Called("idle")
  /\ v = ":"
  /\ command_mode' = FALSE /\ wdt' = FALSE /\ held' = 0
  /\ Forget /\ mid' = 0
  /\ text' = Queued(<< >>, "memory", Greeting)
  /\ marks' = "none" /\ sending' = Space /\ ahead' = FALSE /\ spaced' = FALSE
  /\ due' = << >> /\ heard' = << >> /\ own' = FALSE
  /\ disturbed' = FALSE /\ odd' = FALSE
  /\ UNCHANGED << owed, memory >>

(* Fault: a mistake is taken back where nothing was keyed. *)
InputBackUnguarded ==
  /\ Called("input")
  /\ v = Backspace
  /\ msg' = IF msg = << >> THEN msg ELSE SubSeq(msg, 1, Len(msg) - 1)
  /\ cmd_bytes' = cmd_bytes + 1
  /\ Go(Tail(due))
  /\ UNCHANGED << cm_state, mid, next_action, command, text, memory, history >>

InputBack ==
  /\ Called("input")
  /\ v = Backspace
  /\ IF msg = << >> THEN UNCHANGED << msg, cmd_bytes >>
     ELSE /\ msg' = SubSeq(msg, 1, Len(msg) - 1)
          /\ cmd_bytes' = cmd_bytes + 1
  /\ Go(Tail(due))
  /\ UNCHANGED << cm_state, mid, next_action, command, text, memory, history >>

(* One more character of the parameter, a '_' being a space; the last one, *)
(* or a '+', ends it.                                                      *)
Input ==
  /\ Called("input")
  /\ v # Backspace
  /\ msg' = CASE v = "+" -> msg
              [] v = "_" -> Append(msg, Space)
              [] OTHER   -> Append(msg, v)
  /\ cmd_bytes' = cmd_bytes - 1
  /\ IF cmd_bytes = 1 \/ v = "+"
     THEN cm_state' = "next_action" /\ Go(<< Again >> \o Tail(due))
     ELSE UNCHANGED cm_state /\ Go(Tail(due))
  /\ UNCHANGED << mid, next_action, command, text, memory, history >>

(* Fault: cmd_bytes is wider than a byte. *)
OutputSigned ==
  /\ Called("output")
  /\ cmd_bytes' = cmd_bytes - 1
  /\ disturbed' = (disturbed \/ ~own)
  /\ IF cmd_bytes = 1
     THEN cm_state' = "next_action" /\ Go(<< Again >> \o Tail(due))
     ELSE UNCHANGED cm_state /\ Go(Tail(due))
  /\ UNCHANGED << msg, mid, next_action, command, text, memory, odd >>

(* One character of the answer has been heard; cmd_bytes is a byte. *)
Output ==
  /\ Called("output")
  /\ cmd_bytes' = (cmd_bytes - 1) % ByteMod
  /\ disturbed' = (disturbed \/ ~own)
  /\ IF cmd_bytes = 1
     THEN cm_state' = "next_action" /\ Go(<< Again >> \o Tail(due))
     ELSE UNCHANGED cm_state /\ Go(Tail(due))
  /\ UNCHANGED << msg, mid, next_action, command, text, memory, odd >>
-------------------------------------------------------------------------------
(* command_next_action: an answer was heard or a parameter keyed. *)

NotAMemory == 10

First == IF msg = << >> THEN Nul ELSE msg[1]
Value(c) == IF c \in Digits THEN (CHOOSE i \in 1..10 : Digit[i] = c) - 1
                            ELSE NotAMemory

(* atoi of at most two characters, neither of which is a sign: the '-' is  *)
(* never heard, and a '+' ends the parameter.                              *)
Number ==
  LET second == IF Len(msg) > 1 THEN msg[2] ELSE Nul
  IN  CASE First \in Digits -> IF second \in Digits
                               THEN 10 * Value(First) + Value(second)
                               ELSE Value(First)
        [] First = Space    -> IF second \in Digits THEN Value(second) ELSE 0
        [] OTHER            -> 0

(* The bytes of a parameter, when next_action becomes n. *)
Wanted(c, n) == IF c = "m" /\ n = 3 THEN MsgLen
                ELSE IF << c, n >> \in {<< "r", 3 >>, << "s", 1 >>, << "t", 1 >>}
                     THEN 2 ELSE 1

NextAsk ==
  /\ Called("next_action")
  /\ command \in Settings \cup Memories
  /\ next_action = 0 \/ (command \in Memories /\ next_action = 2)
  /\ next_action' = next_action + 1
  /\ cm_state' = "input"
  /\ cmd_bytes' = Wanted(command, next_action + 1)
  /\ msg' = << >>
  /\ Go(Tail(due))
  /\ UNCHANGED << mid, command, text, memory, history >>

Accepted ==
  CASE command = "d" -> First \in {"m", "o", "t", "0", "e", "i", "h", "s", "5"}
    [] command = "k" -> First \in {"a", "b", "c", "p", "s", "u"}
    [] command = "p" -> First \in Digits \cup {"?"}
    [] command = "s" -> Number > 4
    [] command = "t" -> Number > 8

(* The setting is stored and confirmed: 's' and 't' count a number as two  *)
(* characters, and a space at its start is sent but not heard.             *)
NextSet ==
  /\ Called("next_action")
  /\ command \in Settings /\ next_action = 1
  /\ Accepted
  /\ next_action' = 2
  /\ mid' = IF command = "p" THEN Value(First) ELSE mid
  /\ CASE command = "d" -> \E side \in {"L", "R"} :
                              Answer(<< "=", "=", Space, side >>, 4)
       [] command = "k" -> Answer(<< "=", "=", Space, First >>, 4)
       [] command = "p" -> IF First = "?"
                           THEN \E p \in Mids : Answer(<< Digit[p + 1] >>, 1)
                           ELSE Answer(<< "=", "=", Space, "p", First >>, 5)
       [] OTHER         -> Answer(<< "=", "=", Space >> \o msg, 5)
  /\ odd' = (odd \/ (command \in {"s", "t"} /\ (Len(msg) = 1 \/ First = Space)))
  /\ Go(Tail(due))
  /\ UNCHANGED << msg, command, memory, disturbed >>

(* Nothing is counted for a preset that does not exist. *)
NextRefuse ==
  /\ Called("next_action")
  /\ command \in Settings /\ next_action = 1
  /\ ~Accepted
  /\ next_action' = 0
  /\ mid' = IF command = "p" THEN NotAMemory ELSE mid
  /\ Answer(<< "!", ":", command >>, IF command = "p" THEN cmd_bytes ELSE 3)
  /\ odd' = (odd \/ command = "p")
  /\ Go(Tail(due))
  /\ UNCHANGED << msg, command, memory, disturbed >>

NextMemory ==
  /\ Called("next_action")
  /\ command \in Memories /\ next_action = 1
  /\ mid' = Value(First)
  /\ IF First \in Digits
     THEN next_action' = 2 /\ Answer(<< ":", First >>, 2)
     ELSE next_action' = 0 /\ Answer(<< "!", ":", command >>, 3)
  /\ Go(Tail(due))
  /\ UNCHANGED << msg, command, memory, history >>

(* How often a memory repeats is the business of the module Settings. *)
NextRepeat ==
  /\ Called("next_action")
  /\ command = "r" /\ next_action = 3
  /\ IF First = "0" \/ Number > 0
     THEN /\ next_action' = 4
          /\ Answer(<< "=", "=", Space, "r", Digit[mid + 1] >> \o msg,
                    5 + Len(msg))
     ELSE /\ next_action' = 2
          /\ Answer(<< "!", ":", "r", Digit[mid + 1] >>, 4)
  /\ Go(Tail(due))
  /\ UNCHANGED << msg, mid, command, memory, history >>

(* A '$' is heard as two characters, the second of two spaces not at all.  *)
Uneven(s) ==
  \E i \in DOMAIN s :
    s[i] = "$" \/ (s[i] = Space /\ (i = 1 \/ s[i - 1] = Space))

(* Fault: the message is counted without the '== ' before it. *)
NextStoreShort ==
  /\ Called("next_action")
  /\ command = "m" /\ next_action = 3
  /\ next_action' = 4
  /\ memory' = [memory EXCEPT ![mid] = msg]
  /\ Answer(<< "=", "=", Space >> \o msg, Len(msg))
  /\ odd' = (odd \/ Uneven(msg))
  /\ Go(Tail(due))
  /\ UNCHANGED << msg, mid, command, disturbed >>

NextStore ==
  /\ Called("next_action")
  /\ command = "m" /\ next_action = 3
  /\ next_action' = 4
  /\ memory' = [memory EXCEPT ![mid] = msg]
  /\ Answer(<< "=", "=", Space >> \o msg, 3 + Len(msg))
  /\ odd' = (odd \/ Uneven(msg))
  /\ Go(Tail(due))
  /\ UNCHANGED << msg, mid, command, disturbed >>

NextDone ==
  /\ Called("next_action")
  /\ command \in {"a", "q"} \cup Settings \cup Memories
  /\ next_action = CASE command \in {"a", "q"} -> next_action
                     [] command \in Settings   -> 2
                     [] command \in Memories   -> 4
  /\ cm_state' = "done"
  /\ Go(<< Again >> \o Tail(due))
  /\ UNCHANGED << cmd_bytes, msg, mid, next_action, command, text, memory,
                  history >>

(* A command that was not understood: wait for the next one. *)
NextIdle ==
  /\ Called("next_action")
  /\ command \notin {"a", "q"} \cup Settings \cup Memories
  /\ cm_state' = "idle"
  /\ Go(Tail(due))
  /\ UNCHANGED << cmd_bytes, msg, mid, next_action, command, text, memory,
                  history >>

Done ==
  /\ Called("done")
  /\ Forget
  /\ Leave(Tail(due))
  /\ UNCHANGED << held, mid, owed, memory, history >>

Callback ==
  \/ OnAir
  \/ IdleAnswered \/ IdlePlay \/ IdleReset
  \/ InputBack \/ Input
  \/ Output
  \/ NextAsk \/ NextSet \/ NextRefuse \/ NextMemory \/ NextRepeat \/ NextStore
  \/ NextDone \/ NextIdle
  \/ Done

Operator == OperatorMarks \/ Toggle \/ Hold2000 \/ Hold5000 \/ Release

Line == Send \/ HearSent \/ HearKeyed

Next ==
  \/ Operator
  \/ Line
  \/ Callback
  \/ Timeout \/ Inject \/ InjectMemory

Spec == Init /\ [][Next]_vars

(* The operator leaves the button and the paddles alone. *)
Quiet == /\ held' = held
         /\ marks = "none" => marks' # "keyed"
         /\ ahead' => ahead

(* There is nothing to send, to hear, to deliver or to time out. *)
AtRest == Free /\ text = << >> /\ marks = "none" /\ ~wdt

(* The tick goes on: unless it comes to rest, the firmware takes steps for *)
(* ever.  This is WF_vars(Next /\ Quiet), with ENABLED written out.        *)
FairSpec == Spec /\ ([]<>AtRest \/ []<><<Quiet>>_vars)
-------------------------------------------------------------------------------
States == {"idle", "input", "output", "next_action", "done"}

TypeOK ==
  /\ command_mode \in BOOLEAN
  /\ wdt \in BOOLEAN
  /\ held \in 0..3
  /\ cm_state \in States
  /\ cmd_bytes \in 0..(ByteMod - 1)
  /\ msg \in Seq(Chars)
  /\ mid \in 0..NotAMemory
  /\ next_action \in 0..4
  /\ command \in Chars \cup {Nul}
  /\ text \in Seq([ch : Chars, by : {"answer", "memory"}])
  /\ Len(text) <= TextSize
  /\ marks \in {"none", "keyed", "sent", "mixed"}
  /\ sending \in Coded \cup {Space}
  /\ ahead \in BOOLEAN
  /\ spaced \in BOOLEAN
  /\ due \in Seq(Chars \cup {Again})
  /\ heard \in Seq(Chars)
  /\ own \in BOOLEAN
  /\ owed \subseteq Repeated
  /\ memory \in [Mids -> Seq(Chars)]
  /\ disturbed \in BOOLEAN
  /\ odd \in BOOLEAN

(* msg is 65 bytes and there are ten memories: what has been keyed and     *)
(* what is still wanted add up to what was asked for, through any number   *)
(* of mistakes taken back, and a memory that is set exists.                *)
StaysInBounds ==
  /\ cm_state = "input" =>
       /\ cmd_bytes >= 1
       /\ Len(msg) + cmd_bytes = Wanted(command, next_action)
  /\ command \in Memories /\ next_action >= 2 => mid \in 0..9

(* What is on its way to the air belongs to the mode: memories are not     *)
(* sent in command mode, where they would be counted as an answer, and no  *)
(* answer goes on the air after command mode was left (cw-kbd.c:449 and    *)
(* cw-kbd.c:932).                                                          *)
LineOwned ==
  \A i \in DOMAIN text :
    text[i].by = IF command_mode THEN "answer" ELSE "memory"

(* Command mode knows when its answer has been sent: the characters still  *)
(* to be heard are those it counts, unless the operator keyed into the     *)
(* answer or the answer is one of those that are counted wrong.            *)
Pending == Len(text) + (IF marks = "sent" THEN 1 ELSE 0)

EchoCounted ==
  command_mode /\ Free /\ ~disturbed /\ ~odd =>
    Pending = IF cm_state = "output" THEN cmd_bytes ELSE 0

(* A command is finished or given up: when the operator leaves the button  *)
(* and the paddles alone, command mode is left (cw-kbd.c:558 and 921).     *)
AlwaysLeft == <>[][Quiet]_vars => <>[]~command_mode
===============================================================================
