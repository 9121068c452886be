--------------------------- MODULE CommandModeProofs ---------------------------
(***************************************************************************)
(* Proofs about command mode, for every alphabet, every size of a memory   *)
(* and of the text queue, and every operator.                              *)
(***************************************************************************)
EXTENDS CommandMode, SequenceTheorems, TLAPS

Item == [ch : Chars, by : {"answer", "memory"}]

StaticsOK ==
  /\ cm_state \in States
  /\ cmd_bytes \in 0..(ByteMod - 1)
  /\ msg \in Seq(Chars)
  /\ mid \in 0..NotAMemory
  /\ next_action \in 0..4
  /\ command \in Chars \cup {Nul}
  /\ memory \in [Mids -> Seq(Chars)]

(* A parameter fits what was asked for as long as it may be looked at.     *)
MsgFits ==
  next_action \in {1, 3} => Len(msg) <= Wanted(command, next_action)

(* command_mode_cb calls itself only to go on at once. *)
DueOK ==
  \/ due \in Seq(Chars)
  \/ /\ \E r \in Seq(Chars) : due = << Again >> \o r
     /\ command_mode
     /\ cm_state \in {"next_action", "done"}

LineOK ==
  /\ text \in Seq(Item) /\ Len(text) <= TextSize
  /\ marks \in {"none", "keyed", "sent", "mixed"}
  /\ sending \in Coded \cup {Space}
  /\ heard \in Seq(Chars)

FlagsOK ==
  /\ command_mode \in BOOLEAN /\ wdt \in BOOLEAN /\ held \in 0..3
  /\ ahead \in BOOLEAN /\ spaced \in BOOLEAN /\ own \in BOOLEAN
  /\ disturbed \in BOOLEAN /\ odd \in BOOLEAN

(* A minute is over before anything else happens. *)
OwedOK ==
  /\ owed \subseteq Repeated
  /\ owed # {} => due = << >> /\ ~command_mode

IInv == StaticsOK /\ StaysInBounds /\ MsgFits /\ DueOK /\ LineOK /\ FlagsOK
          /\ OwedOK /\ LineOwned
-------------------------------------------------------------------------------
LEMMA SomeChars ==
  /\ ":" \in Chars /\ "?" \in Chars /\ "+" \in Chars /\ "=" \in Chars
  /\ "!" \in Chars /\ "L" \in Chars /\ "R" \in Chars /\ "h" \in Chars
  /\ "i" \in Chars /\ "." \in Chars /\ Space \in Chars
  /\ "p" \in Chars /\ "r" \in Chars
  /\ Settings \subseteq Chars /\ Memories \subseteq Chars
  /\ \A i \in 1..10 : Digit[i] \in Chars
BY AlphabetAssumption DEF Settings, Memories, Digits, Digit

LEMMA ByType ==
  ASSUME NEW w \in {"answer", "memory"}, NEW s \in Seq(Chars)
  PROVE  /\ By(w, s) \in Seq(Item)
         /\ \A i \in DOMAIN By(w, s) : By(w, s)[i].by = w
<1>1. Len(s) \in Nat /\ DOMAIN s = 1..Len(s)
  BY LenProperties
<1>2. \A i \in 1..Len(s) : [ch |-> s[i], by |-> w] \in Item
  BY ElementOfSeq DEF Item
<1>3. [i \in 1..Len(s) |-> [ch |-> s[i], by |-> w]] \in Seq(Item)
  BY <1>1, <1>2, IsASeq
<1>. QED  BY <1>1, <1>3 DEF By

LEMMA QueuedType ==
  ASSUME NEW t \in Seq(Item), NEW w \in {"answer", "memory"},
         NEW s \in Seq(Chars)
  PROVE  /\ Queued(t, w, s) \in Seq(Item)
         /\ Len(Queued(t, w, s)) <= TextSize
<1>. DEFINE all == t \o By(w, s)
            n == Len(all)
<1>1. all \in Seq(Item) /\ n \in Nat
  BY ByType, ConcatProperties, LenProperties
<1>2. CASE n <= TextSize
  BY <1>1, <1>2 DEF Queued
<1>3. CASE ~(n <= TextSize)
  <2>1. TextSize \in Nat /\ n > TextSize
    BY <1>1, <1>3, SizesAssumption
  <2>2. \A i \in (n - TextSize + 1)..n : all[i] \in Item
    BY <1>1, <2>1, ElementOfSeq
  <2>3. SubSeq(all, n - TextSize + 1, n) \in Seq(Item)
        /\ Len(SubSeq(all, n - TextSize + 1, n)) <= TextSize
    <3>. HIDE DEF all, n
    <3>1. n - TextSize + 1 \in Int /\ n \in Int
      BY <1>1, <2>1
    <3>2. /\ SubSeq(all, n - TextSize + 1, n) \in Seq(Item)
          /\ Len(SubSeq(all, n - TextSize + 1, n))
               = IF n - TextSize + 1 <= n THEN n - (n - TextSize + 1) + 1 ELSE 0
      BY <2>2, <3>1, SubSeqProperties
    <3>. QED  BY <1>1, <2>1, <3>2
  <2>4. Queued(t, w, s) = SubSeq(all, n - TextSize + 1, n)
    BY <1>3 DEF Queued
  <2>. QED  BY <2>3, <2>4
<1>. QED  BY <1>2, <1>3

(* Whoever owned the queue owns it still. *)
LEMMA QueuedOwned ==
  ASSUME NEW t \in Seq(Item), NEW w \in {"answer", "memory"},
         NEW s \in Seq(Chars), \A i \in DOMAIN t : t[i].by = w
  PROVE  \A i \in DOMAIN Queued(t, w, s) : Queued(t, w, s)[i].by = w
<1>. DEFINE all == t \o By(w, s)
            n == Len(all)
<1>1. /\ By(w, s) \in Seq(Item) /\ Len(By(w, s)) \in Nat /\ Len(t) \in Nat
      /\ DOMAIN t = 1..Len(t) /\ DOMAIN By(w, s) = 1..Len(By(w, s))
  BY ByType, LenProperties
<1>2. /\ all \in Seq(Item) /\ n = Len(t) + Len(By(w, s))
      /\ \A i \in 1..n : all[i] = IF i <= Len(t) THEN t[i]
                                                 ELSE By(w, s)[i - Len(t)]
  BY <1>1, ConcatProperties
<1>3. n \in Nat /\ DOMAIN all = 1..n
  BY <1>1, <1>2, LenProperties
<1>4. \A i \in 1..n : all[i].by = w
  <2>. TAKE i \in 1..n
  <2>1. CASE i <= Len(t)
    BY <1>1, <1>2, <2>1
  <2>2. CASE ~(i <= Len(t))
    <3>1. i - Len(t) \in DOMAIN By(w, s)
      BY <1>1, <1>2, <1>3, <2>2
    <3>2. By(w, s)[i - Len(t)].by = w
      BY <3>1, ByType
    <3>. QED  BY <1>2, <2>2, <3>2
  <2>. QED  BY <2>1, <2>2
<1>5. CASE n <= TextSize
  BY <1>3, <1>4, <1>5 DEF Queued
<1>6. CASE ~(n <= TextSize)
  <2>. DEFINE k == n - TextSize + 1
              cut == SubSeq(all, k, n)
  <2>1. TextSize \in Nat /\ k \in Int /\ n \in Int /\ k \in 1..(n + 1)
    BY <1>3, <1>6, SizesAssumption
  <2>2. \A i \in k..n : all[i] \in Item
    BY <1>2, <1>3, <2>1, ElementOfSeq
  <2>3. /\ cut \in Seq(Item)
        /\ Len(cut) = IF k <= n THEN n - k + 1 ELSE 0
        /\ \A i \in 1..(n - k + 1) : cut[i] = all[k + i - 1]
    <3>. HIDE DEF all, n, k
    <3>. QED  BY <2>1, <2>2, SubSeqProperties
  <2>4. DOMAIN cut = 1..Len(cut)
    BY <2>3, LenProperties
  <2>5. \A i \in DOMAIN cut : cut[i].by = w
    <3>. TAKE i \in DOMAIN cut
    <3>. HIDE DEF cut, k, n, all
    <3>1. i \in 1..(n - k + 1) /\ k + i - 1 \in 1..n
      BY <2>1, <2>3, <2>4
    <3>. QED  BY <1>4, <2>3, <3>1
  <2>6. Queued(t, w, s) = cut
    BY <1>6 DEF Queued
  <2>. QED  BY <2>5, <2>6
<1>. QED  BY <1>5, <1>6

LEMMA TailItems ==
  ASSUME NEW t \in Seq(Item), t # << >>, NEW w, \A i \in DOMAIN t : t[i].by = w
  PROVE  \A i \in DOMAIN Tail(t) : Tail(t)[i].by = w
<1>1. /\ Tail(t) \in Seq(Item) /\ Len(Tail(t)) = Len(t) - 1
      /\ \A i \in 1..Len(Tail(t)) : Tail(t)[i] = t[i + 1]
  BY HeadTailProperties
<1>2. Len(t) \in Nat /\ DOMAIN t = 1..Len(t)
      /\ Len(Tail(t)) \in Nat /\ DOMAIN Tail(t) = 1..Len(Tail(t))
  BY <1>1, LenProperties
<1>. QED  BY <1>1, <1>2

LEMMA SpacedType == \A s : Spaced(s) \in BOOLEAN
BY DEF Spaced
-------------------------------------------------------------------------------
(* What the decoder delivers. *)

LEMMA DueTail ==
  ASSUME DueOK, due # << >>
  PROVE  /\ Tail(due) \in Seq(Chars)
         /\ v \in Chars \/ (v = Again /\ cm_state \in {"next_action", "done"})
<1>1. CASE due \in Seq(Chars)
  BY <1>1, HeadTailProperties DEF v
<1>2. ASSUME NEW r \in Seq(Chars), due = << Again >> \o r,
             cm_state \in {"next_action", "done"}
      PROVE  Tail(due) = r /\ v = Again
  <2>. DEFINE S == Chars \cup {Again}
  <2>1. << Again >> \in Seq(S) /\ r \in Seq(S) /\ Len(<< Again >>) = 1
    BY SeqMonotonic
  <2>2. Len(r) \in Nat
    BY LenProperties
  <2>3. /\ due \in Seq(S) /\ Len(due) = 1 + Len(r)
        /\ due[1] = Again
        /\ \A i \in 2..Len(due) : due[i] = r[i - 1]
    BY <1>2, <2>1, <2>2, ConcatProperties
  <2>4. /\ Tail(due) \in Seq(S) /\ Len(Tail(due)) = Len(r)
        /\ \A i \in 1..Len(Tail(due)) : Tail(due)[i] = due[i + 1]
    BY <2>2, <2>3, HeadTailProperties
  <2>5. \A i \in 1..Len(r) : Tail(due)[i] = r[i]
    BY <2>2, <2>3, <2>4
  <2>6. Tail(due) = r
    BY <2>1, <2>4, <2>5, SeqEqual
  <2>. QED  BY <2>3, <2>6 DEF v
<1>. QED  BY <1>1, <1>2 DEF DueOK

LEMMA DueType == DueOK => due \in Seq(Chars \cup {Again})
<1>1. CASE due \in Seq(Chars)
  BY <1>1, SeqMonotonic
<1>2. ASSUME NEW r \in Seq(Chars)
      PROVE  << Again >> \o r \in Seq(Chars \cup {Again})
  <2>1. r \in Seq(Chars \cup {Again}) /\ << Again >> \in Seq(Chars \cup {Again})
    BY SeqMonotonic
  <2>. QED  BY <2>1, ConcatProperties
<1>. QED  BY <1>1, <1>2 DEF DueOK

LEMMA SoundsType ==
  ASSUME NEW c \in Coded \cup {Space}
  PROVE  Sounds(c) \in Seq(Chars)
<1>1. << Space >> \in Seq(Chars) /\ << >> \in Seq(Chars)
  BY SomeChars
<1>2. c # Space => Echo[c] \in Seq(Chars)
  BY AlphabetAssumption
<1>. QED  BY <1>1, <1>2 DEF Sounds

LEMMA FragmentsType ==
  ASSUME LineOK
  PROVE  Fragments \subseteq Seq(Chars)
<1>1. << >> \in Seq(Chars) /\ heard \in Seq(Chars)
  BY DEF LineOK
<1>2. Sounds(sending) \in Seq(Chars) /\ Keyed \subseteq Seq(Chars)
  BY SoundsType, AlphabetAssumption DEF LineOK
<1>. QED  BY <1>1, <1>2 DEF Fragments

(* A code decoded. *)
LEMMA DecodeType ==
  ASSUME LineOK, FlagsOK, NEW s \in Seq(Chars), NEW mine \in BOOLEAN,
         Decode(s, mine)
  PROVE  /\ due' \in Seq(Chars) /\ heard' \in Seq(Chars)
         /\ own' \in BOOLEAN /\ spaced' \in BOOLEAN /\ ahead' \in BOOLEAN
         /\ marks' \in {"none", "keyed"} /\ sending' = Space
<1>1. spaced' \in BOOLEAN
  BY SpacedType DEF Decode
<1>2. own' \in BOOLEAN
  BY Zenon DEF Decode
<1>. QED  BY <1>1, <1>2 DEF Decode

(* A character delivered. *)
LEMMA DeliverType ==
  ASSUME LineOK, FlagsOK, NEW rest, Deliver(rest)
  PROVE  due' = rest /\ heard' \in Seq(Chars) /\ own' \in BOOLEAN
<1>1. heard' \in Seq(Chars)
  <2>1. << >> \in Seq(Chars) /\ heard \in Seq(Chars)
    BY DEF LineOK
  <2>. QED  BY <2>1 DEF Deliver
<1>2. own' \in BOOLEAN
  BY Zenon DEF Deliver
<1>. QED  BY <1>1, <1>2 DEF Deliver

(* Clearing the queues may put one more character before the rest. *)
LEMMA ClearType ==
  ASSUME LineOK, FlagsOK, NEW rest \in Seq(Chars), ClearElements(rest)
  PROVE  /\ due' \in Seq(Chars) /\ heard' \in Seq(Chars)
         /\ own' \in BOOLEAN /\ spaced' \in BOOLEAN /\ ahead' = FALSE
         /\ marks' \in {"none", "keyed"} /\ sending' = Space
<1>1. CASE Deliver(rest) /\ UNCHANGED << marks, spaced >>
             /\ (marks = "none" \/ (marks = "keyed" /\ ~ahead))
  BY <1>1, DeliverType DEF ClearElements, FlagsOK
<1>2. ASSUME NEW s \in Fragments, due' = s \o rest, heard' = s,
             spaced' = Spaced(s), marks' = "none", own' = FALSE
      PROVE  /\ due' \in Seq(Chars) /\ heard' \in Seq(Chars)
             /\ own' \in BOOLEAN /\ spaced' \in BOOLEAN
             /\ marks' \in {"none", "keyed"}
  <2>1. s \in Seq(Chars)
    BY FragmentsType
  <2>2. s \o rest \in Seq(Chars)
    BY <2>1, ConcatProperties
  <2>. QED  BY <1>2, <2>1, <2>2, SpacedType
<1>. QED  BY <1>1, <1>2 DEF ClearElements
-------------------------------------------------------------------------------
(* The protocol. *)

LEMMA WantedType ==
  \A c, n : Wanted(c, n) \in 1..(ByteMod - 1) /\ Wanted(c, n) \in {1, 2, MsgLen}
BY SizesAssumption DEF Wanted

LEMMA ValueType ==
  /\ \A c : Value(c) \in 0..NotAMemory
  /\ \A c \in Digits : Value(c) \in 0..9
<1>1. \A c \in Digits : \E i \in 1..10 : Digit[i] = c
  BY DEF Digits, Digit
<1>2. \A c \in Digits : (CHOOSE i \in 1..10 : Digit[i] = c) \in 1..10
  BY <1>1
<1>. QED  BY <1>2 DEF Value, NotAMemory

LEMMA FirstType ==
  ASSUME msg \in Seq(Chars)
  PROVE  First \in Chars \cup {Nul}
BY EmptySeq, ElementOfSeq DEF First

LEMMA ProtocolInit == Init => StaticsOK /\ StaysInBounds /\ MsgFits
BY SizesAssumption DEF Init, StaticsOK, StaysInBounds, MsgFits, States,
   NotAMemory, Mids, Memories

(* Nothing of a command is left behind by command_mode_cb(0). *)
LEMMA ForgetProtocol ==
  ASSUME StaticsOK, Forget, mid' \in 0..NotAMemory,
         memory' \in [Mids -> Seq(Chars)]
  PROVE  StaticsOK' /\ StaysInBounds' /\ MsgFits'
BY SizesAssumption DEF Forget, StaticsOK, StaysInBounds, MsgFits, States, Memories

LEMMA SameProtocol ==
  ASSUME StaticsOK, StaysInBounds, MsgFits, UNCHANGED statics,
         memory' \in [Mids -> Seq(Chars)]
  PROVE  StaticsOK' /\ StaysInBounds' /\ MsgFits'
BY DEF statics, StaticsOK, StaysInBounds, MsgFits, Wanted

LEMMA IdleProtocol ==
  ASSUME StaticsOK, DueOK, IdleAnswered \/ IdlePlay
  PROVE  StaticsOK' /\ StaysInBounds' /\ MsgFits'
<1>1. v \in Chars
  BY DueTail DEF IdleAnswered, IdlePlay, Called
<1>2. CASE IdleAnswered
  <2>1. /\ cmd_bytes' \in 0..(ByteMod - 1) /\ cm_state' = "output"
        /\ command' = v /\ next_action' = 0
        /\ UNCHANGED << msg, mid, memory >>
    BY <1>2, SizesAssumption DEF IdleAnswered, Answer
  <2>. QED  BY <1>1, <2>1 DEF StaticsOK, StaysInBounds, MsgFits, States
<1>3. CASE IdlePlay
  <2>1. /\ cm_state' = "idle" /\ cmd_bytes' = cmd_bytes
        /\ command' = v /\ next_action' = 0
        /\ UNCHANGED << msg, mid, memory >>
    BY <1>3 DEF IdlePlay, Called
  <2>. QED  BY <1>1, <2>1 DEF StaticsOK, StaysInBounds, MsgFits, States
<1>. QED  BY <1>2, <1>3

(* What is keyed and what is wanted, while a parameter is keyed. *)
LEMMA Keying ==
  ASSUME StaticsOK, StaysInBounds, cm_state = "input"
  PROVE  /\ msg \in Seq(Chars) /\ Len(msg) \in Nat
         /\ cmd_bytes \in Nat /\ cmd_bytes >= 1 /\ ByteMod \in Nat
         /\ Len(msg) + cmd_bytes = Wanted(command, next_action)
         /\ Wanted(command, next_action) \in Nat
         /\ Wanted(command, next_action) <= ByteMod - 1
<1>1. msg \in Seq(Chars)
  BY DEF StaticsOK
<1>2. Len(msg) \in Nat
  BY <1>1, LenProperties
<1>3. cmd_bytes \in Nat /\ ByteMod \in Nat
  BY SizesAssumption DEF StaticsOK
<1>4. cmd_bytes >= 1 /\ Len(msg) + cmd_bytes = Wanted(command, next_action)
  BY DEF StaysInBounds
<1>5. Wanted(command, next_action) \in 1..(ByteMod - 1)
  BY WantedType
<1>. QED  BY <1>1, <1>2, <1>3, <1>4, <1>5

(* A mistake gives back what it takes. *)
LEMMA InputBackProtocol ==
  ASSUME StaticsOK, StaysInBounds, MsgFits, InputBack
  PROVE  StaticsOK' /\ StaysInBounds' /\ MsgFits'
<1>. DEFINE want == Wanted(command, next_action)
<1>0. /\ cm_state = "input" /\ cm_state' = "input"
      /\ UNCHANGED << mid, next_action, command, memory >>
  BY DEF InputBack, Called
<1>1. /\ msg \in Seq(Chars) /\ Len(msg) \in Nat
      /\ cmd_bytes \in Nat /\ cmd_bytes >= 1 /\ ByteMod \in Nat
      /\ Len(msg) + cmd_bytes = want /\ want \in Nat /\ want <= ByteMod - 1
  BY <1>0, Keying
<1>2. want' = want
  BY <1>0 DEF Wanted
<1>. HIDE DEF want
<1>3. CASE msg = << >>
  <2>1. UNCHANGED << msg, cmd_bytes >>
    BY <1>3 DEF InputBack
  <2>. QED  BY <1>0, <1>1, <1>2, <2>1 DEF StaticsOK, StaysInBounds, MsgFits, want
<1>4. CASE msg # << >>
  <2>. DEFINE n == Len(msg) - 1
  <2>1. n \in Nat /\ Len(msg) = n + 1
    BY <1>1, <1>4, EmptySeq
  <2>2. \A i \in 1..n : msg[i] \in Chars
    <3>1. \A i \in 1..Len(msg) : msg[i] \in Chars
      BY <1>1, ElementOfSeq
    <3>. QED  BY <2>1, <3>1
  <2>3. msg' = SubSeq(msg, 1, n) /\ cmd_bytes' = cmd_bytes + 1
    BY <1>4 DEF InputBack
  <2>. HIDE DEF n
  <2>4. /\ msg' \in Seq(Chars)
        /\ Len(msg') = IF 1 <= n THEN n - 1 + 1 ELSE 0
    BY <2>1, <2>2, <2>3, SubSeqProperties
  <2>5. Len(msg') = n
    BY <2>1, <2>4
  <2>6. /\ Len(msg') + cmd_bytes' = want /\ Len(msg') <= want
        /\ cmd_bytes' >= 1 /\ cmd_bytes' \in 0..(ByteMod - 1)
    BY <1>1, <2>1, <2>3, <2>5
  <2>. QED  BY <1>0, <1>2, <2>4, <2>6 DEF StaticsOK, StaysInBounds, MsgFits, want
<1>. QED  BY <1>3, <1>4

LEMMA InputProtocol ==
  ASSUME StaticsOK, StaysInBounds, MsgFits, DueOK, Input
  PROVE  StaticsOK' /\ StaysInBounds' /\ MsgFits'
<1>. DEFINE want == Wanted(command, next_action)
<1>0. /\ cm_state = "input" /\ due # << >>
      /\ UNCHANGED << mid, next_action, command, memory >>
  BY DEF Input, Called
<1>1. /\ msg \in Seq(Chars) /\ Len(msg) \in Nat
      /\ cmd_bytes \in Nat /\ cmd_bytes >= 1 /\ ByteMod \in Nat
      /\ Len(msg) + cmd_bytes = want /\ want \in Nat /\ want <= ByteMod - 1
  BY <1>0, Keying
<1>2. want' = want
  BY <1>0 DEF Wanted
<1>3. v \in Chars
  BY <1>0, DueTail
<1>. HIDE DEF want
<1>4. cmd_bytes' = cmd_bytes - 1
  BY DEF Input
<1>5. cmd_bytes' \in 0..(ByteMod - 1)
  BY <1>1, <1>4
<1>6. CASE v = "+"
  <2>1. msg' = msg /\ cm_state' = "next_action"
    BY <1>6 DEF Input
  <2>. QED  BY <1>0, <1>1, <1>2, <1>5, <2>1 DEF StaticsOK, StaysInBounds,
            MsgFits, States, want
<1>7. CASE v # "+"
  <2>1. PICK c \in Chars : msg' = Append(msg, c)
    BY <1>3, <1>7, SomeChars DEF Input
  <2>2. msg' \in Seq(Chars) /\ Len(msg') = Len(msg) + 1
    BY <1>1, <2>1, AppendProperties
  <2>3. \/ cm_state' = "next_action"
        \/ cm_state' = "input" /\ cmd_bytes # 1
    BY <1>0, <1>7 DEF Input
  <2>4. Len(msg') + cmd_bytes' = want /\ Len(msg') <= want
    BY <1>1, <1>4, <2>2
  <2>5. cm_state' = "input" => cmd_bytes' >= 1
    BY <1>1, <1>4, <2>3
  <2>. QED  BY <1>0, <1>2, <1>5, <2>2, <2>3, <2>4, <2>5 DEF StaticsOK,
            StaysInBounds, MsgFits, States, want
<1>. QED  BY <1>6, <1>7

LEMMA OutputProtocol ==
  ASSUME StaticsOK, StaysInBounds, MsgFits, Output
  PROVE  StaticsOK' /\ StaysInBounds' /\ MsgFits'
<1>1. cmd_bytes' \in 0..(ByteMod - 1)
  <2>1. cmd_bytes \in Int /\ ByteMod \in Nat /\ ByteMod > 0
    BY SizesAssumption DEF StaticsOK
  <2>2. (cmd_bytes - 1) % ByteMod \in 0..(ByteMod - 1)
    BY <2>1
  <2>. QED  BY <2>2 DEF Output
<1>2. cm_state' \in {"output", "next_action"}
  BY DEF Output, Called
<1>3. UNCHANGED << msg, mid, next_action, command, memory >>
  BY DEF Output
<1>. QED  BY <1>1, <1>2, <1>3 DEF StaticsOK, StaysInBounds, MsgFits, States, Wanted

LEMMA AskProtocol ==
  ASSUME StaticsOK, StaysInBounds, NextAsk
  PROVE  StaticsOK' /\ StaysInBounds' /\ MsgFits'
<1>1. /\ next_action' \in {1, 3} /\ next_action' = next_action + 1
      /\ next_action' = 3 => command \in Memories /\ next_action = 2
      /\ cm_state' = "input" /\ msg' = << >>
      /\ cmd_bytes' = Wanted(command', next_action')
      /\ UNCHANGED << mid, command, memory >>
  BY DEF NextAsk
<1>2. cmd_bytes' \in 1..(ByteMod - 1)
  BY <1>1, WantedType
<1>3. msg' \in Seq(Chars) /\ Len(msg') = 0
  BY <1>1
<1>4. cmd_bytes' >= 1 /\ Len(msg') + cmd_bytes' = Wanted(command', next_action')
      /\ Len(msg') <= Wanted(command', next_action')
      /\ cmd_bytes' \in 0..(ByteMod - 1)
  BY <1>1, <1>2, <1>3, SizesAssumption
<1>. QED  BY <1>1, <1>3, <1>4 DEF StaticsOK, StaysInBounds, MsgFits, States

(* An answer to anything but a parameter of a memory. *)
LEMMA AnsweredProtocol ==
  ASSUME StaticsOK, NEW s, NEW n \in 0..(ByteMod - 1), Answer(s, n),
         next_action' \in {0, 2, 4}, mid' \in 0..NotAMemory,
         command' = command, msg' = msg, memory' \in [Mids -> Seq(Chars)],
         command \in Memories /\ next_action' # 0 => mid' \in 0..9
  PROVE  StaticsOK' /\ StaysInBounds' /\ MsgFits'
<1>1. cmd_bytes' \in 0..(ByteMod - 1) /\ cm_state' = "output"
  BY DEF Answer
<1>. QED  BY <1>1 DEF StaticsOK, StaysInBounds, MsgFits, States

LEMMA SmallCounts ==
  /\ 1 \in 0..(ByteMod - 1) /\ 2 \in 0..(ByteMod - 1) /\ 3 \in 0..(ByteMod - 1)
  /\ 4 \in 0..(ByteMod - 1) /\ 5 \in 0..(ByteMod - 1)
BY SizesAssumption

LEMMA SetProtocol ==
  ASSUME StaticsOK, NextSet \/ NextRefuse
  PROVE  StaticsOK' /\ StaysInBounds' /\ MsgFits'
<1>1. /\ command \notin Memories /\ msg' = msg
      /\ command' = command /\ next_action' \in {0, 2}
      /\ memory' \in [Mids -> Seq(Chars)]
  BY DEF NextSet, NextRefuse, Settings, Memories, StaticsOK
<1>2. mid' \in 0..NotAMemory
  BY ValueType DEF NextSet, NextRefuse, StaticsOK, NotAMemory
<1>3. cmd_bytes \in 0..(ByteMod - 1)
  BY DEF StaticsOK
<1>4. \E s : \E n \in 0..(ByteMod - 1) : Answer(s, n)
  BY <1>3, SmallCounts DEF NextSet, NextRefuse
<1>. QED  BY <1>1, <1>2, <1>4, AnsweredProtocol

LEMMA MemoryProtocol ==
  ASSUME StaticsOK, NextMemory
  PROVE  StaticsOK' /\ StaysInBounds' /\ MsgFits'
<1>1. /\ msg' = msg /\ command' = command /\ next_action' \in {0, 2}
      /\ memory' \in [Mids -> Seq(Chars)]
  BY DEF NextMemory, StaticsOK
<1>2. mid' \in 0..NotAMemory /\ (next_action' # 0 => mid' \in 0..9)
  BY ValueType DEF NextMemory
<1>3. \E s : \E n \in 0..(ByteMod - 1) : Answer(s, n)
  BY SmallCounts DEF NextMemory
<1>. QED  BY <1>1, <1>2, <1>3, AnsweredProtocol

LEMMA RepeatProtocol ==
  ASSUME StaticsOK, StaysInBounds, MsgFits, NextRepeat
  PROVE  StaticsOK' /\ StaysInBounds' /\ MsgFits'
<1>1. /\ msg' = msg /\ command' = command /\ next_action' \in {2, 4}
      /\ mid' = mid /\ memory' = memory
      /\ command = "r" /\ next_action = 3
  BY DEF NextRepeat
<1>2. mid \in 0..9
  BY <1>1 DEF StaysInBounds, Memories
<1>3. Len(msg) \in Nat
  BY LenProperties DEF StaticsOK
<1>4. Wanted(command, next_action) = 2
  BY <1>1 DEF Wanted
<1>5. Len(msg) <= 2
  BY <1>1, <1>4 DEF MsgFits
<1>6. 5 + Len(msg) \in 0..(ByteMod - 1)
  BY <1>3, <1>5, SizesAssumption
<1>7. \E s : \E n \in 0..(ByteMod - 1) : Answer(s, n)
  BY <1>6, SmallCounts DEF NextRepeat
<1>8. mid' \in 0..NotAMemory /\ mid' \in 0..9 /\ memory' \in [Mids -> Seq(Chars)]
  BY <1>1, <1>2 DEF StaticsOK
<1>. QED  BY <1>1, <1>7, <1>8, AnsweredProtocol

(* A memory that is set exists, and its answer fits the counter. *)
LEMMA StoreProtocol ==
  ASSUME StaticsOK, StaysInBounds, MsgFits, NextStore
  PROVE  StaticsOK' /\ StaysInBounds' /\ MsgFits'
<1>1. /\ msg' = msg /\ command' = command /\ next_action' = 4
      /\ mid' = mid /\ memory' = [memory EXCEPT ![mid] = msg]
      /\ command = "m" /\ next_action = 3
      /\ Answer(<< "=", "=", Space >> \o msg, 3 + Len(msg))
  BY DEF NextStore
<1>2. mid \in 0..9
  BY <1>1 DEF StaysInBounds, Memories
<1>3. Len(msg) \in Nat
  BY LenProperties DEF StaticsOK
<1>4. Wanted(command, next_action) = MsgLen
  BY <1>1 DEF Wanted
<1>5. Len(msg) <= MsgLen
  BY <1>1, <1>4 DEF MsgFits
<1>6. 3 + Len(msg) \in 0..(ByteMod - 1)
  BY <1>3, <1>5, SizesAssumption
<1>7. memory' \in [Mids -> Seq(Chars)]
  BY <1>1, <1>2 DEF StaticsOK, Mids
<1>8. mid' \in 0..NotAMemory
  BY <1>1 DEF StaticsOK
<1>. QED  BY <1>1, <1>2, <1>6, <1>7, <1>8, AnsweredProtocol

LEMMA GoingOnProtocol ==
  ASSUME StaticsOK, StaysInBounds, MsgFits, NextDone \/ NextIdle
  PROVE  StaticsOK' /\ StaysInBounds' /\ MsgFits'
<1>1. /\ cm_state' \in {"done", "idle"}
      /\ UNCHANGED << cmd_bytes, msg, mid, next_action, command, memory >>
  BY DEF NextDone, NextIdle
<1>. QED  BY <1>1 DEF StaticsOK, StaysInBounds, MsgFits, States, Wanted

(* The button, and leaving and entering command mode. *)
LEMMA ButtonProtocol ==
  ASSUME StaticsOK, StaysInBounds, MsgFits,
         Toggle \/ Hold2000 \/ Hold5000 \/ Release \/ Timeout \/ Done \/ IdleReset
  PROVE  StaticsOK' /\ StaysInBounds' /\ MsgFits'
<1>1. memory' \in [Mids -> Seq(Chars)]
  <2>1. << >> \in Seq(Chars)
    OBVIOUS
  <2>2. [m \in Mids |-> << >>] \in [Mids -> Seq(Chars)]
    BY <2>1
  <2>3. memory' = memory \/ memory' = [m \in Mids |-> << >>]
    BY DEF Toggle, Hold2000, Hold5000, Release, Timeout, Done, IdleReset
  <2>. QED  BY <2>2, <2>3 DEF StaticsOK
<1>2. (Forget /\ mid' \in {0, mid}) \/ UNCHANGED statics
  BY DEF Toggle, Enter, Hold2000, Hold5000, Release, Timeout, Done, IdleReset
<1>3. CASE Forget /\ mid' \in {0, mid}
  <2>1. mid' \in 0..NotAMemory
    BY <1>3 DEF StaticsOK, NotAMemory
  <2>. QED  BY <1>1, <1>3, <2>1, ForgetProtocol
<1>4. CASE UNCHANGED statics
  BY <1>1, <1>4, SameProtocol
<1>. QED  BY <1>2, <1>3, <1>4

LEMMA LineProtocol ==
  ASSUME StaticsOK, StaysInBounds, MsgFits,
         \/ OperatorMarks \/ Line \/ OnAir \/ Inject \/ InjectMemory
         \/ UNCHANGED vars
  PROVE  StaticsOK' /\ StaysInBounds' /\ MsgFits'
<1>1. UNCHANGED << statics, memory >>
  BY DEF OperatorMarks, Line, Send, HearSent, HearKeyed, OnAir, Inject,
         InjectMemory, vars
<1>2. memory' \in [Mids -> Seq(Chars)]
  BY <1>1 DEF StaticsOK
<1>. QED  BY <1>1, <1>2, SameProtocol

LEMMA ProtocolStep ==
  ASSUME StaticsOK, StaysInBounds, MsgFits, DueOK, [Next]_vars
  PROVE  StaticsOK' /\ StaysInBounds' /\ MsgFits'
<1>1. CASE Callback
  BY <1>1, LineProtocol, IdleProtocol, ButtonProtocol, InputBackProtocol,
     InputProtocol, OutputProtocol, AskProtocol, SetProtocol, MemoryProtocol,
     RepeatProtocol, StoreProtocol, GoingOnProtocol DEF Callback
<1>2. CASE Operator \/ Line \/ Timeout \/ Inject \/ InjectMemory \/ UNCHANGED vars
  BY <1>2, ButtonProtocol, LineProtocol DEF Operator
<1>. QED  BY <1>1, <1>2 DEF Next
-------------------------------------------------------------------------------
(* The line. *)

(* Every answer is text. *)
LEMMA SettingAnswers ==
  ASSUME StaticsOK, NextSet
  PROVE  \E s \in Seq(Chars) : \E n : Answer(s, n)
<1>1. msg \in Seq(Chars) /\ First \in Chars \cup {Nul}
  BY FirstType DEF StaticsOK
<1>2. CASE command = "d"
  <2>1. PICK side \in {"L", "R"} : Answer(<< "=", "=", Space, side >>, 4)
    BY <1>2 DEF NextSet
  <2>2. << "=", "=", Space, side >> \in Seq(Chars)
    BY SomeChars
  <2>. QED  BY <2>1, <2>2
<1>3. CASE command = "k"
  <2>1. First \in Chars
    BY <1>1, <1>3 DEF NextSet, Accepted, Nul
  <2>2. << "=", "=", Space, First >> \in Seq(Chars)
    BY <2>1, SomeChars
  <2>3. Answer(<< "=", "=", Space, First >>, 4)
    BY <1>3 DEF NextSet
  <2>. QED  BY <2>2, <2>3
<1>4. CASE command = "p"
  <2>1. First \in Chars
    BY <1>1, <1>4 DEF NextSet, Accepted, Nul, Digits
  <2>2. CASE First = "?"
    <3>1. PICK p \in Mids : Answer(<< Digit[p + 1] >>, 1)
      BY <1>4, <2>2 DEF NextSet
    <3>2. p + 1 \in 1..10
      BY DEF Mids
    <3>3. << Digit[p + 1] >> \in Seq(Chars)
      BY <3>2, SomeChars
    <3>. QED  BY <3>1, <3>3
  <2>3. CASE First # "?"
    <3>1. << "=", "=", Space, "p", First >> \in Seq(Chars)
      BY <2>1, SomeChars
    <3>2. Answer(<< "=", "=", Space, "p", First >>, 5)
      BY <1>4, <2>3 DEF NextSet
    <3>. QED  BY <3>1, <3>2
  <2>. QED  BY <2>2, <2>3
<1>5. CASE command \notin {"d", "k", "p"}
  <2>1. << "=", "=", Space >> \in Seq(Chars)
    BY SomeChars
  <2>2. << "=", "=", Space >> \o msg \in Seq(Chars)
    BY <1>1, <2>1, ConcatProperties
  <2>3. Answer(<< "=", "=", Space >> \o msg, 5)
    BY <1>5 DEF NextSet
  <2>. QED  BY <2>2, <2>3
<1>. QED  BY <1>2, <1>3, <1>4, <1>5

LEMMA OtherAnswers ==
  ASSUME StaticsOK, StaysInBounds, DueOK,
         IdleAnswered \/ NextRefuse \/ NextMemory \/ NextRepeat \/ NextStore
  PROVE  \E s \in Seq(Chars) : \E n : Answer(s, n)
<1>1. CASE IdleAnswered
  <2>1. v \in Chars
    BY <1>1, DueTail DEF IdleAnswered, Called
  <2>2. /\ << ":", v >> \in Seq(Chars) /\ << "+" >> \in Seq(Chars)
        /\ << "=", "=" >> \in Seq(Chars) /\ << "?" >> \in Seq(Chars)
    BY <2>1, SomeChars
  <2>3. \/ Answer(<< ":", v >>, 2) \/ Answer(<< "+" >>, 1)
        \/ Answer(<< "=", "=" >>, 2) \/ Answer(<< "?" >>, 1)
    BY <1>1 DEF IdleAnswered
  <2>. QED  BY <2>2, <2>3
<1>2. CASE NextRefuse
  <2>1. << "!", ":", command >> \in Seq(Chars)
    BY <1>2, SomeChars DEF NextRefuse
  <2>. QED  BY <1>2, <2>1 DEF NextRefuse
<1>3. CASE NextMemory
  <2>1. command \in Chars
    BY <1>3, SomeChars DEF NextMemory
  <2>2. << "!", ":", command >> \in Seq(Chars)
    BY <2>1, SomeChars
  <2>3. First \in Digits => << ":", First >> \in Seq(Chars)
    BY SomeChars, AlphabetAssumption
  <2>. QED  BY <1>3, <2>2, <2>3 DEF NextMemory
<1>4. CASE NextRepeat
  <2>1. mid \in 0..9
    BY <1>4 DEF NextRepeat, StaysInBounds, Memories
  <2>2. mid + 1 \in 1..10
    BY <2>1
  <2>3. Digit[mid + 1] \in Chars
    BY <2>2, SomeChars
  <2>. DEFINE prompt == << "=", "=", Space, "r", Digit[mid + 1] >>
              again == << "!", ":", "r", Digit[mid + 1] >>
  <2>4. prompt \in Seq(Chars) /\ again \in Seq(Chars)
    BY <2>3, SomeChars
  <2>5. prompt \o msg \in Seq(Chars)
    BY <2>4, ConcatProperties DEF StaticsOK
  <2>6. Answer(prompt \o msg, 5 + Len(msg)) \/ Answer(again, 4)
    BY <1>4 DEF NextRepeat
  <2>. QED  BY <2>4, <2>5, <2>6
<1>5. CASE NextStore
  <2>1. << "=", "=", Space >> \in Seq(Chars)
    BY SomeChars
  <2>2. << "=", "=", Space >> \o msg \in Seq(Chars)
    BY <2>1, ConcatProperties DEF StaticsOK
  <2>. QED  BY <1>5, <2>2 DEF NextStore
<1>. QED  BY <1>1, <1>2, <1>3, <1>4, <1>5

(* The memory whose turn it is, and what follows it on the stack. *)
LEMMA InjectedText ==
  ASSUME StaticsOK, OwedOK, InjectMemory
  PROVE  \E s \in Seq(Chars) : text' = Queued(text, "memory", s)
<1>1. PICK m \in owed :
        \E s \in IF Len(memory[m]) = MsgLen THEN Stray ELSE {<< >>} :
          text' = Queued(text, "memory", memory[m] \o s)
  BY DEF InjectMemory
<1>2. PICK s \in IF Len(memory[m]) = MsgLen THEN Stray ELSE {<< >>} :
             text' = Queued(text, "memory", memory[m] \o s)
  BY <1>1
<1>3. m \in Mids
  BY SizesAssumption DEF OwedOK, Mids
<1>4. memory[m] \in Seq(Chars)
  BY <1>3 DEF StaticsOK
<1>5. << >> \in Seq(Chars)
  OBVIOUS
<1>6. s \in Seq(Chars)
  BY <1>5, AlphabetAssumption
<1>7. memory[m] \o s \in Seq(Chars)
  BY <1>4, <1>6, ConcatProperties
<1>. QED  BY <1>2, <1>7

TextOK(t) == t \in Seq(Item) /\ Len(t) <= TextSize

LEMMA TextStep ==
  ASSUME StaticsOK, StaysInBounds, DueOK, LineOK, OwedOK, [Next]_vars
  PROVE  TextOK(text')
<1>0. TextOK(text) /\ text \in Seq(Item)
  BY DEF LineOK, TextOK
<1>1. CASE UNCHANGED text
  BY <1>0, <1>1
<1>2. CASE text' = << >>
  <2>1. << >> \in Seq(Item) /\ Len(<< >>) = 0
    OBVIOUS
  <2>. QED  BY <1>2, <2>1, SizesAssumption DEF TextOK
<1>3. CASE text # << >> /\ text' = Tail(text)
  <2>1. Tail(text) \in Seq(Item) /\ Len(Tail(text)) = Len(text) - 1
    BY <1>0, <1>3, HeadTailProperties
  <2>2. Len(text) \in Nat /\ TextSize \in Nat
    BY <1>0, LenProperties, SizesAssumption
  <2>. QED  BY <1>0, <1>3, <2>1, <2>2 DEF TextOK
<1>4. ASSUME NEW t \in Seq(Item), NEW w \in {"answer", "memory"},
             NEW s \in Seq(Chars), text' = Queued(t, w, s)
      PROVE  TextOK(text')
  BY <1>4, QueuedType DEF TextOK
<1>5. CASE \E s \in Seq(Chars) : \E n : Answer(s, n)
  BY <1>0, <1>4, <1>5 DEF Answer
<1>6. CASE IdlePlay
  <2>1. PICK m \in Mids : text' = Queued(<< >>, "memory", memory[m])
    BY <1>6 DEF IdlePlay
  <2>2. memory[m] \in Seq(Chars) /\ << >> \in Seq(Item)
    BY DEF StaticsOK
  <2>. QED  BY <1>4, <2>1, <2>2
<1>7. CASE IdleReset
  <2>1. Greeting \in Seq(Chars) /\ << >> \in Seq(Item)
    BY SomeChars DEF Greeting
  <2>. QED  BY <1>4, <1>7, <2>1 DEF IdleReset
<1>8. CASE InjectMemory
  BY <1>0, <1>4, <1>8, InjectedText
<1>9. CASE Callback
  BY <1>1, <1>2, <1>5, <1>6, <1>7, <1>9, SettingAnswers, OtherAnswers
     DEF Callback, OnAir, InputBack, Input, Output, NextAsk, NextDone, NextIdle,
         Done, Leave, ClearQueues
<1>10. CASE Operator \/ Line \/ Timeout \/ Inject \/ InjectMemory \/ UNCHANGED vars
  BY <1>1, <1>2, <1>3, <1>8, <1>10
     DEF Operator, OperatorMarks, Toggle, Enter, Hold2000, Hold5000, Release,
         Leave, ClearQueues, Line, Send, HearSent, HearKeyed, Timeout, Inject,
         vars, line
<1>. QED  BY <1>9, <1>10 DEF Next
-------------------------------------------------------------------------------
(* The decoder and what it delivers. *)

(* A code keyed or sent is heard. *)
LEMMA KeyedType ==
  ASSUME LineOK, FlagsOK, Free, HearSent \/ HearKeyed
  PROVE  /\ due' \in Seq(Chars) /\ heard' \in Seq(Chars)
         /\ own' \in BOOLEAN /\ spaced' \in BOOLEAN /\ ahead' \in BOOLEAN
         /\ marks' \in {"none", "keyed"} /\ sending' = Space
<1>1. Keyed \subseteq Seq(Chars) /\ Sounds(sending) \in Seq(Chars)
  BY SoundsType, AlphabetAssumption DEF LineOK
<1>2. \E s \in Seq(Chars) : \E mine \in BOOLEAN : Decode(s, mine)
  BY <1>1 DEF HearSent, HearKeyed
<1>. QED  BY <1>2, DecodeType

LEMMA DelivererType ==
  ASSUME LineOK, FlagsOK, NEW rest \in Seq(Chars), Go(rest)
  PROVE  /\ due' = rest /\ heard' \in Seq(Chars) /\ own' \in BOOLEAN
         /\ wdt' = TRUE /\ UNCHANGED << command_mode, held, elements, owed >>
BY DeliverType DEF Go
DecoderOK ==
  /\ marks \in {"none", "keyed", "sent", "mixed"}
  /\ sending \in Coded \cup {Space}
  /\ ahead \in BOOLEAN /\ spaced \in BOOLEAN
  /\ heard \in Seq(Chars) /\ own \in BOOLEAN

LEMMA DecoderHolds == LineOK /\ FlagsOK => DecoderOK
BY DEF LineOK, FlagsOK, DecoderOK

LEMMA ClearDecoder ==
  ASSUME LineOK, FlagsOK, NEW rest \in Seq(Chars), ClearElements(rest)
  PROVE  DueOK' /\ DecoderOK'
BY ClearType DEF DueOK, DecoderOK

LEMMA GoDecoder ==
  ASSUME LineOK, FlagsOK, NEW rest \in Seq(Chars), Go(rest)
  PROVE  DueOK' /\ DecoderOK'
BY DelivererType, DecoderHolds DEF DueOK, DecoderOK, elements

(* command_mode_cb calls itself once more. *)
LEMMA AgainDecoder ==
  ASSUME LineOK, FlagsOK, NEW rest \in Seq(Chars), Go(<< Again >> \o rest),
         command_mode, cm_state' \in {"next_action", "done"}
  PROVE  DueOK' /\ DecoderOK'
<1>1. /\ due' = << Again >> \o rest /\ heard' \in Seq(Chars)
      /\ own' \in BOOLEAN /\ command_mode' = command_mode
      /\ UNCHANGED << marks, sending, ahead, spaced >>
  BY DeliverType DEF Go, elements
<1>2. DueOK'
  BY <1>1 DEF DueOK
<1>3. DecoderOK'
  BY <1>1, DecoderHolds DEF DecoderOK
<1>. QED  BY <1>2, <1>3

LEMMA CallbackDecoder ==
  ASSUME DueOK, LineOK, FlagsOK, Callback
  PROVE  DueOK' /\ DecoderOK'
<1>1. due # << >>
  BY DEF Callback, OnAir, IdleAnswered, IdlePlay, IdleReset, InputBack, Input,
         Output, NextAsk, NextSet, NextRefuse, NextMemory, NextRepeat,
         NextStore, NextDone, NextIdle, Done, Called
<1>2. Tail(due) \in Seq(Chars)
  BY <1>1, DueTail
<1>3. CASE OnAir
  <2>1. /\ due' = Tail(due) /\ heard' \in Seq(Chars) /\ own' \in BOOLEAN
        /\ UNCHANGED << marks, sending, ahead, spaced >>
    BY <1>3, DeliverType DEF OnAir, elements
  <2>. QED  BY <1>2, <2>1, DecoderHolds DEF DueOK, DecoderOK
<1>4. CASE IdlePlay \/ Done
  <2>1. ClearElements(Tail(due))
    BY <1>4 DEF IdlePlay, Done, Leave, ClearQueues
  <2>. QED  BY <1>2, <2>1, ClearDecoder
<1>5. CASE IdleReset
  <2>1. /\ marks' = "none" /\ sending' = Space /\ ahead' = FALSE
        /\ spaced' = FALSE /\ due' = << >> /\ heard' = << >> /\ own' = FALSE
    BY <1>5 DEF IdleReset
  <2>2. << >> \in Seq(Chars)
    OBVIOUS
  <2>. QED  BY <2>1, <2>2 DEF DueOK, DecoderOK
<1>6. CASE Go(Tail(due))
  BY <1>2, <1>6, GoDecoder
<1>7. CASE Go(<< Again >> \o Tail(due)) /\ command_mode
             /\ cm_state' \in {"next_action", "done"}
  BY <1>2, <1>7, AgainDecoder
<1>8. CASE Input
  <2>1. \/ Go(Tail(due))
        \/ Go(<< Again >> \o Tail(due)) /\ cm_state' = "next_action"
    BY <1>8 DEF Input
  <2>2. command_mode
    BY <1>8 DEF Input, Called
  <2>. QED  BY <1>6, <1>7, <2>1, <2>2
<1>9. CASE Output
  <2>1. \/ Go(Tail(due))
        \/ Go(<< Again >> \o Tail(due)) /\ cm_state' = "next_action"
    BY <1>9 DEF Output
  <2>2. command_mode
    BY <1>9 DEF Output, Called
  <2>. QED  BY <1>6, <1>7, <2>1, <2>2
<1>10. CASE NextDone
  <2>1. /\ Go(<< Again >> \o Tail(due)) /\ cm_state' = "done"
        /\ command_mode
    BY <1>10 DEF NextDone, Called
  <2>. QED  BY <1>7, <2>1
<1>11. CASE \/ IdleAnswered \/ InputBack \/ NextAsk \/ NextSet \/ NextRefuse
            \/ NextMemory \/ NextRepeat \/ NextStore \/ NextIdle
  <2>1. Go(Tail(due))
    BY <1>11 DEF IdleAnswered, InputBack, NextAsk, NextSet, NextRefuse,
       NextMemory, NextRepeat, NextStore, NextIdle
  <2>. QED  BY <1>6, <2>1
<1>. QED  BY <1>3, <1>4, <1>5, <1>8, <1>9, <1>10, <1>11 DEF Callback

LEMMA DecoderStep ==
  ASSUME DueOK, LineOK, FlagsOK, [Next]_vars
  PROVE  DueOK' /\ DecoderOK'
<1>1. CASE Callback
  BY <1>1, CallbackDecoder
<1>2. CASE HearSent \/ HearKeyed
  <2>1. Free
    BY <1>2 DEF HearSent, HearKeyed
  <2>. QED  BY <1>2, <2>1, KeyedType DEF DueOK, DecoderOK
<1>3. CASE Toggle \/ Hold2000 \/ Hold5000 \/ Timeout
  <2>1. ClearElements(<< >>)
    BY <1>3 DEF Toggle, Enter, Hold2000, Hold5000, Timeout, Leave, ClearQueues
  <2>2. << >> \in Seq(Chars)
    OBVIOUS
  <2>. QED  BY <2>1, <2>2, ClearDecoder
<1>4. CASE Send
  <2>1. UNCHANGED << command_mode, cm_state, due >>
    BY <1>4 DEF Send, button, statics, decoding
  <2>2. UNCHANGED << ahead, spaced, heard, own >>
    BY <1>4 DEF Send, decoding
  <2>3. marks' \in {marks, "sent", "mixed"}
        /\ sending' \in Coded \cup {Space, sending}
    BY <1>4 DEF Send
  <2>. QED  BY <2>1, <2>2, <2>3, DecoderHolds DEF DueOK, DecoderOK
<1>5. CASE OperatorMarks
  <2>1. UNCHANGED << command_mode, cm_state, due, sending, spaced, heard, own >>
    BY <1>5 DEF OperatorMarks, button, statics, decoding
  <2>2. marks' \in {marks, "keyed"} /\ ahead' \in {ahead, TRUE}
    BY <1>5 DEF OperatorMarks
  <2>. QED  BY <2>1, <2>2, DecoderHolds DEF DueOK, DecoderOK
<1>6. CASE Release \/ Inject \/ InjectMemory \/ UNCHANGED vars
  <2>1. UNCHANGED << command_mode, cm_state, due, sending, spaced, heard, own,
                     marks, ahead >>
    BY <1>6 DEF Release, Inject, InjectMemory, vars, button, statics, line,
                elements, decoding
  <2>. QED  BY <2>1, DecoderHolds DEF DueOK, DecoderOK
<1>. QED  BY <1>1, <1>2, <1>3, <1>4, <1>5, <1>6 DEF Next, Operator, Line
-------------------------------------------------------------------------------
(* The flags. *)

LEMMA ModeStep ==
  ASSUME FlagsOK, [Next]_vars
  PROVE  command_mode' \in BOOLEAN /\ wdt' \in BOOLEAN /\ held' \in 0..3
<1>1. CASE Callback
  <2>1. /\ command_mode' \in {command_mode, FALSE} /\ wdt' \in {wdt, TRUE, FALSE}
        /\ held' \in {held, 0}
    BY <1>1 DEF Callback, OnAir, IdleAnswered, IdlePlay, IdleReset, InputBack,
       Input, Output, NextAsk, NextSet, NextRefuse, NextMemory, NextRepeat,
       NextStore, NextDone, NextIdle, Done, Leave, Go, button
  <2>2. command_mode' \in BOOLEAN /\ wdt' \in BOOLEAN
    BY <2>1, Zenon DEF FlagsOK
  <2>. QED  BY <2>1, <2>2 DEF FlagsOK
<1>2. CASE Operator \/ Line \/ Timeout \/ Inject \/ InjectMemory \/ UNCHANGED vars
  <2>1. /\ command_mode' \in {command_mode, FALSE, TRUE}
        /\ wdt' \in {wdt, TRUE, FALSE} /\ held' \in {held, 0, 1, 2, 3}
    BY <1>2 DEF Operator, OperatorMarks, Toggle, Enter, Hold2000, Hold5000,
       Release, Line, Send, HearSent, HearKeyed, Timeout, Inject, InjectMemory,
       Leave, vars, button
  <2>2. command_mode' \in BOOLEAN /\ wdt' \in BOOLEAN
    BY <2>1, Zenon DEF FlagsOK
  <2>. QED  BY <2>1, <2>2 DEF FlagsOK
<1>. QED  BY <1>1, <1>2 DEF Next

LEMMA HistoryStep ==
  ASSUME FlagsOK, [Next]_vars
  PROVE  disturbed' \in BOOLEAN /\ odd' \in BOOLEAN
<1>0. disturbed \in BOOLEAN /\ odd \in BOOLEAN
  BY DEF FlagsOK
<1>1. CASE Send
  BY <1>0, <1>1, Zenon DEF Send
<1>2. CASE HearKeyed
  BY <1>0, <1>2, Zenon DEF HearKeyed
<1>3. CASE Output
  BY <1>0, <1>3, Zenon DEF Output
<1>4. CASE NextSet
  BY <1>0, <1>4, Zenon DEF NextSet
<1>5. CASE NextRefuse
  BY <1>0, <1>5, Zenon DEF NextRefuse
<1>6. CASE NextStore
  BY <1>0, <1>6, Zenon DEF NextStore
<1>7. CASE disturbed' = FALSE /\ odd' = FALSE
  BY <1>7
<1>8. CASE UNCHANGED history
  BY <1>0, <1>8 DEF history
<1>9. CASE Callback
  BY <1>3, <1>4, <1>5, <1>6, <1>7, <1>8, <1>9 DEF Callback, OnAir,
     IdleAnswered, IdlePlay, IdleReset, InputBack, Input, NextAsk, NextMemory,
     NextRepeat, NextDone, NextIdle, Done
<1>10. CASE Operator \/ Line \/ Timeout \/ Inject \/ InjectMemory \/ UNCHANGED vars
  BY <1>1, <1>2, <1>7, <1>8, <1>10 DEF Operator, OperatorMarks, Toggle, Enter,
     Hold2000, Hold5000, Release, Line, HearSent, Timeout, Inject,
     InjectMemory, vars
<1>. QED  BY <1>9, <1>10 DEF Next

(* A minute is injected out of command mode, and at once. *)
LEMMA OwedStep ==
  ASSUME OwedOK, [Next]_vars
  PROVE  OwedOK'
<1>1. CASE Inject
  BY <1>1 DEF Inject, Free, OwedOK, button, line, decoding
<1>2. CASE InjectMemory
  <2>1. owed # {} /\ owed' \subseteq owed /\ UNCHANGED << due, command_mode >>
    BY <1>2 DEF InjectMemory, button, decoding
  <2>. QED  BY <2>1 DEF OwedOK
<1>3. CASE UNCHANGED vars
  BY <1>3 DEF vars, button, line, decoding, OwedOK
<1>4. CASE Callback
  <2>1. due # << >> /\ owed' = owed
    BY <1>4 DEF Callback, OnAir, IdleAnswered, IdlePlay, IdleReset, InputBack,
       Input, Output, NextAsk, NextSet, NextRefuse, NextMemory, NextRepeat,
       NextStore, NextDone, NextIdle, Done, Called, Go
  <2>. QED  BY <2>1 DEF OwedOK
<1>5. CASE Operator \/ Line \/ Timeout
  <2>1. owed = {} /\ owed' = owed
    BY <1>5 DEF Operator, OperatorMarks, Toggle, Hold2000, Hold5000, Release,
       Line, Send, HearSent, HearKeyed, Timeout, Free
  <2>. QED  BY <2>1 DEF OwedOK
<1>. QED  BY <1>1, <1>2, <1>3, <1>4, <1>5 DEF Next
-------------------------------------------------------------------------------
(* Whose the line is. *)

LEMMA OwnedKept ==
  ASSUME LineOwned, UNCHANGED << text, command_mode >>
  PROVE  LineOwned'
BY DEF LineOwned

LEMMA OwnedEmpty ==
  ASSUME text' = << >>
  PROVE  LineOwned'
BY DEF LineOwned

(* Only its answers are queued in command mode. *)
LEMMA OwnedAnswer ==
  ASSUME LineOK, LineOwned, command_mode, command_mode' = command_mode,
         NEW s \in Seq(Chars), NEW n, Answer(s, n)
  PROVE  LineOwned'
<1>1. text \in Seq(Item) /\ \A i \in DOMAIN text : text[i].by = "answer"
  BY DEF LineOK, LineOwned
<1>2. \A i \in DOMAIN Queued(text, "answer", s) :
        Queued(text, "answer", s)[i].by = "answer"
  BY <1>1, QueuedOwned
<1>3. text' = Queued(text, "answer", s)
  BY DEF Answer
<1>. QED  BY <1>2, <1>3 DEF LineOwned

LEMMA OwnedMemory ==
  ASSUME NEW t \in Seq(Item), \A i \in DOMAIN t : t[i].by = "memory",
         NEW s \in Seq(Chars), text' = Queued(t, "memory", s), ~command_mode'
  PROVE  LineOwned'
<1>1. \A i \in DOMAIN Queued(t, "memory", s) :
        Queued(t, "memory", s)[i].by = "memory"
  BY QueuedOwned
<1>. QED  BY <1>1 DEF LineOwned

LEMMA OwnedStep ==
  ASSUME StaticsOK, StaysInBounds, DueOK, LineOK, OwedOK, LineOwned, [Next]_vars
  PROVE  LineOwned'
<1>1. CASE UNCHANGED << text, command_mode >>
  BY <1>1, OwnedKept
<1>2. CASE text' = << >>
  BY <1>2, OwnedEmpty
<1>3. CASE IdleAnswered \/ NextSet \/ NextRefuse \/ NextMemory \/ NextRepeat
             \/ NextStore
  <2>1. command_mode /\ command_mode' = command_mode
    BY <1>3 DEF IdleAnswered, NextSet, NextRefuse, NextMemory, NextRepeat,
       NextStore, Called, Go
  <2>2. \E s \in Seq(Chars) : \E n : Answer(s, n)
    BY <1>3, SettingAnswers, OtherAnswers
  <2>. QED  BY <2>1, <2>2, OwnedAnswer
<1>4. << >> \in Seq(Item) /\ \A i \in DOMAIN << >> : << >>[i].by = "memory"
  OBVIOUS
<1>5. CASE IdlePlay
  <2>1. PICK m \in Mids : text' = Queued(<< >>, "memory", memory[m])
    BY <1>5 DEF IdlePlay
  <2>2. memory[m] \in Seq(Chars)
    BY DEF StaticsOK
  <2>3. ~command_mode'
    BY <1>5 DEF IdlePlay
  <2>. QED  BY <1>4, <2>1, <2>2, <2>3, OwnedMemory
<1>6. CASE IdleReset
  <2>1. Greeting \in Seq(Chars)
    BY SomeChars DEF Greeting
  <2>2. text' = Queued(<< >>, "memory", Greeting) /\ ~command_mode'
    BY <1>6 DEF IdleReset
  <2>. QED  BY <1>4, <2>1, <2>2, OwnedMemory
<1>7. CASE InjectMemory
  <2>1. ~command_mode /\ ~command_mode'
    BY <1>7 DEF InjectMemory, OwedOK, button
  <2>2. text \in Seq(Item) /\ \A i \in DOMAIN text : text[i].by = "memory"
    BY <2>1 DEF LineOK, LineOwned
  <2>3. \E s \in Seq(Chars) : text' = Queued(text, "memory", s)
    BY <1>7, InjectedText
  <2>. QED  BY <2>1, <2>2, <2>3, OwnedMemory
<1>8. CASE Send
  <2>1. text # << >> /\ text' = Tail(text) /\ command_mode' = command_mode
    BY <1>8 DEF Send, button
  <2>2. text \in Seq(Item)
    BY DEF LineOK
  <2>3. \A i \in DOMAIN Tail(text) :
          Tail(text)[i].by = IF command_mode THEN "answer" ELSE "memory"
    BY <2>1, <2>2, TailItems DEF LineOwned
  <2>. QED  BY <2>1, <2>3 DEF LineOwned
<1>9. CASE Callback
  BY <1>1, <1>2, <1>3, <1>5, <1>6, <1>9 DEF Callback, OnAir, InputBack, Input,
     Output, NextAsk, NextDone, NextIdle, Done, Leave, ClearQueues, Go, button
<1>10. CASE Operator \/ Line \/ Timeout \/ Inject \/ InjectMemory \/ UNCHANGED vars
  BY <1>1, <1>2, <1>7, <1>8, <1>10 DEF Operator, OperatorMarks, Toggle, Enter,
     Hold2000, Hold5000, Release, Leave, ClearQueues, Line, HearSent,
     HearKeyed, Timeout, Inject, vars, button, line
<1>. QED  BY <1>9, <1>10 DEF Next
-------------------------------------------------------------------------------
(* The strengthened invariant. *)

LEMMA InvariantInit == Init => IInv
<1>. SUFFICES ASSUME Init PROVE IInv
  OBVIOUS
<1>1. StaticsOK /\ StaysInBounds /\ MsgFits
  BY ProtocolInit
<1>2. Greeting \in Seq(Chars) /\ << >> \in Seq(Item) /\ << >> \in Seq(Chars)
      /\ \A i \in DOMAIN << >> : << >>[i].by = "memory"
  BY SomeChars DEF Greeting
<1>3. text = Queued(<< >>, "memory", Greeting)
  BY DEF Init
<1>4. text \in Seq(Item) /\ Len(text) <= TextSize
  BY <1>2, <1>3, QueuedType
<1>5. \A i \in DOMAIN text : text[i].by = "memory"
  <2>1. PICK t \in Seq(Item) : t = << >>
    BY <1>2
  <2>2. \A i \in DOMAIN t : t[i].by = "memory"
    BY <2>1
  <2>3. \A i \in DOMAIN Queued(t, "memory", Greeting) :
          Queued(t, "memory", Greeting)[i].by = "memory"
    BY <1>2, <2>2, QueuedOwned
  <2>. QED  BY <1>3, <2>1, <2>3
<1>6. LineOwned
  BY <1>5 DEF Init, LineOwned
<1>7. DueOK /\ LineOK
  BY <1>2, <1>4 DEF Init, DueOK, LineOK
<1>8. FlagsOK
  <2>1. held \in 0..3
    BY DEF Init
  <2>. QED  BY <2>1, Zenon DEF Init, FlagsOK
<1>9. OwedOK
  BY DEF Init, OwedOK
<1>. QED  BY <1>1, <1>6, <1>7, <1>8, <1>9 DEF IInv

LEMMA InvariantStep == IInv /\ [Next]_vars => IInv'
<1>. SUFFICES ASSUME IInv, [Next]_vars PROVE IInv'
  OBVIOUS
<1>0. /\ StaticsOK /\ StaysInBounds /\ MsgFits /\ DueOK /\ LineOK /\ FlagsOK
      /\ OwedOK /\ LineOwned
  BY DEF IInv
<1>1. StaticsOK' /\ StaysInBounds' /\ MsgFits'
  BY <1>0, ProtocolStep
<1>2. DueOK' /\ DecoderOK'
  BY <1>0, DecoderStep
<1>3. text' \in Seq(Item) /\ Len(text') <= TextSize
  BY <1>0, TextStep DEF TextOK
<1>4. LineOK'
  BY <1>2, <1>3 DEF DecoderOK, LineOK
<1>5. FlagsOK'
  BY <1>0, <1>2, ModeStep, HistoryStep DEF DecoderOK, FlagsOK
<1>6. OwedOK'
  BY <1>0, OwedStep
<1>7. LineOwned'
  BY <1>0, OwnedStep
<1>. QED  BY <1>1, <1>2, <1>4, <1>5, <1>6, <1>7 DEF IInv

LEMMA InvariantHolds == Spec => []IInv
BY InvariantInit, InvariantStep, PTL DEF Spec

(* Every variable keeps its type: the state, the count, which memory and   *)
(* which step command_mode_cb and command_next_action find, and what is    *)
(* queued, decoded, delivered and owed.                                    *)
THEOREM TypeCorrect == Spec => []TypeOK
<1>1. IInv => TypeOK
  BY DueType DEF IInv, StaticsOK, LineOK, FlagsOK, OwedOK, TypeOK, Item
<1>. QED  BY <1>1, InvariantHolds, PTL

(* msg never holds more than was asked for, through any mistakes taken     *)
(* back, and no memory but the ten is set (cw-kbd.c:614 and 791).          *)
THEOREM ParametersStayInBounds == Spec => []StaysInBounds
<1>1. IInv => StaysInBounds
  BY DEF IInv
<1>. QED  BY <1>1, InvariantHolds, PTL

(* No memory is queued in command mode, where it would be counted as an    *)
(* answer, and no answer is left for the air when command mode is left     *)
(* (cw-kbd.c:449 and 932).                                                 *)
THEOREM LineStaysOwned == Spec => []LineOwned
<1>1. IInv => LineOwned
  BY DEF IInv
<1>. QED  BY <1>1, InvariantHolds, PTL
-------------------------------------------------------------------------------
(* What is heard of an answer is what is counted, in a command mode that   *)
(* the operator left alone and in which nothing was counted wrong.         *)

Sure == command_mode /\ ~disturbed /\ ~odd

Sendable == Plain \cup {Space}

(* A text of which every character will be heard as one: it has a code for *)
(* each, and no space is the first of all or follows another.              *)
Sayable(s) ==
  /\ s \in Seq(Chars) /\ s # << >>
  /\ s[1] # Space
  /\ \A i \in 1..Len(s) : s[i] \in Sendable
  /\ \A i \in 2..Len(s) : s[i] = Space => s[i - 1] # Space

(* What is left of the answer will be heard, too. *)
TextSayable ==
  /\ \A i \in 1..Len(text) : text[i].ch \in Sendable
  /\ \A i \in 2..Len(text) : text[i].ch = Space => text[i - 1].ch # Space
  /\ text # << >> /\ text[1].ch = Space
       => IF marks = "sent" THEN sending # Space ELSE spaced
  /\ marks = "sent" => sending \in Sendable /\ (sending = Space => spaced)

CountOK == cm_state = "output" => cmd_bytes = Pending + (IF own THEN 1 ELSE 0)

(* Only an answer is sent, and it alone. *)
SilentOK ==
  /\ marks # "mixed"
  /\ cm_state # "output" => text = << >> /\ marks # "sent"

(* The last character heard of an answer is the callback's to go on from. *)
OwnOK ==
  own => Len(due) = 1 /\ cm_state \in {"output", "next_action", "done"}

(* The callback goes on at once, asking only at the end of an answer. *)
GoesOn ==
  /\ cm_state \in {"next_action", "done"} => due # << >> /\ v = Again
  /\ cm_state = "input" => next_action \in {1, 3}
  /\ cm_state = "next_action" => own \/ next_action \in {1, 3}

(* A parameter is made of what can be sent, but for the '$'. *)
MsgOK ==
  \A i \in 1..Len(msg) : \/ msg[i] \in Sendable
                         \/ msg[i] = "$" /\ i > 1 /\ msg[i - 1] = "/"

InputOK ==
  cm_state = "input" =>
    \A i \in 1..Len(due) :
      \/ due[i] \in Sendable \cup {Backspace}
      \/ /\ due[i] = "$"
         /\ IF i = 1 THEN msg # << >> /\ msg[Len(msg)] = "/"
                     ELSE due[i - 1] = "/"

Counting == CountOK /\ SilentOK /\ OwnOK /\ GoesOn /\ TextSayable /\ MsgOK
              /\ InputOK

EchoInv == Sure => Counting

LEMMA SendableType ==
  /\ Sendable \subseteq Chars /\ Sendable \subseteq Coded
  /\ Digits \subseteq Sendable /\ Settings \subseteq Sendable
  /\ Memories \subseteq Sendable /\ Space \in Sendable
  /\ {":", "?", "+", "=", "!", "L", "R", "a", "b", "c", "p", "s", "u"}
       \subseteq Sendable
  /\ \A i \in 1..10 : Digit[i] \in Sendable /\ Digit[i] \in Digits
<1>1. \A i \in 1..10 : Digit[i] \in Digits
  BY DEF Digit, Digits
<1>2. Plain \subseteq Coded
  BY DEF Plain
<1>. QED  BY <1>1, <1>2, AlphabetAssumption, EchoAssumption DEF Sendable

(* One character of an answer is heard for one sent. *)
LEMMA SoundsOne ==
  ASSUME NEW c \in Sendable, c = Space => spaced
  PROVE  \E h \in Chars : /\ Sounds(c) = << h >>
                          /\ Spaced(Sounds(c)) <=> c # Space
<1>1. CASE c = Space
  BY <1>1, SomeChars DEF Sounds, Spaced
<1>2. CASE c # Space
  <2>1. c \in Plain
    BY <1>2 DEF Sendable
  <2>2. PICK h \in Chars \ {Space, Backspace} : Echo[c] = << h >>
    BY <2>1 DEF Plain
  <2>. QED  BY <1>2, <2>2 DEF Sounds, Spaced
<1>. QED  BY <1>1, <1>2

(* Nothing was counted wrong before, and command mode was entered before. *)
LEMMA SureBefore ==
  ASSUME FlagsOK, [Next]_vars, Sure'
  PROVE  Sure \/ (Toggle /\ Enter)
<1>. DEFINE Kept == (command_mode' => command_mode)
                    /\ (disturbed => disturbed') /\ (odd => odd')
<1>0. Kept => Sure
  BY Zenon DEF Sure
<1>1. CASE UNCHANGED << command_mode, history >>
  BY <1>1, Zenon DEF Sure, history
<1>2. CASE ~command_mode'
  BY <1>2, Zenon DEF Sure
<1>3. CASE Send
  BY <1>0, <1>3, Zenon DEF Send, button
<1>4. CASE HearKeyed
  BY <1>0, <1>4, Zenon DEF HearKeyed, button
<1>5. CASE Output
  BY <1>0, <1>5, Zenon DEF Output, Go
<1>6. CASE NextSet
  BY <1>0, <1>6, Zenon DEF NextSet, Go
<1>7. CASE NextRefuse
  BY <1>0, <1>7, Zenon DEF NextRefuse, Go
<1>8. CASE NextStore
  BY <1>0, <1>8, Zenon DEF NextStore, Go
<1>9. CASE Toggle
  BY <1>2, <1>9, Zenon DEF Toggle, Leave
<1>10. CASE Callback
  BY <1>1, <1>2, <1>5, <1>6, <1>7, <1>8, <1>10 DEF Callback, OnAir,
     IdleAnswered, IdlePlay, IdleReset, InputBack, Input, NextAsk, NextMemory,
     NextRepeat, NextDone, NextIdle, Done, Leave, Go, button
<1>11. CASE Operator \/ Line \/ Timeout \/ Inject \/ InjectMemory \/ UNCHANGED vars
  BY <1>1, <1>2, <1>3, <1>4, <1>9, <1>11 DEF Operator, OperatorMarks, Hold2000,
     Hold5000, Release, Line, HearSent, Timeout, Inject, InjectMemory, Leave,
     vars, button
<1>. QED  BY <1>10, <1>11 DEF Next

(* An answer is queued whole, and behind nothing. *)
LEMMA AnswerText ==
  ASSUME NEW s \in Seq(Chars), Len(s) <= TextSize, text = << >>,
         NEW n, Answer(s, n)
  PROVE  /\ text' \in Seq(Item) /\ Len(text') = Len(s)
         /\ \A i \in 1..Len(s) : text'[i].ch = s[i]
<1>1. By("answer", s) \in Seq(Item)
  BY ByType
<1>2. Len(s) \in Nat /\ DOMAIN s = 1..Len(s)
  BY LenProperties
<1>3. By("answer", s) = [i \in 1..Len(s) |-> [ch |-> s[i], by |-> "answer"]]
  BY <1>2 DEF By
<1>4. \A i \in 1..Len(s) : By("answer", s)[i].ch = s[i]
  BY <1>3
<1>5. DOMAIN By("answer", s) = 1..Len(s)
  BY <1>3
<1>6. Len(By("answer", s)) = Len(s)
  <2>1. /\ Len(By("answer", s)) \in Nat
        /\ DOMAIN By("answer", s) = 1..Len(By("answer", s))
    BY <1>1, LenProperties
  <2>2. \A k \in Nat : 1 <= k => (k <= Len(By("answer", s)) <=> k <= Len(s))
    BY <1>2, <1>5, <2>1
  <2>3. ~(Len(s) > Len(By("answer", s)))
    BY <1>2, <2>1, <2>2
  <2>4. ~(Len(s) < Len(By("answer", s)))
    BY <1>2, <2>1, <2>2
  <2>. QED  BY <1>2, <2>1, <2>3, <2>4
<1>7. text \o By("answer", s) = By("answer", s)
  BY <1>1, ConcatEmptySeq
<1>8. text' = By("answer", s)
  BY <1>6, <1>7 DEF Answer, Queued
<1>. QED  BY <1>1, <1>4, <1>6, <1>8

(* A text put behind another. *)
LEMMA SayBehind ==
  ASSUME NEW p, Sayable(p), NEW s \in Seq(Chars),
         \A i \in 1..Len(s) : s[i] \in Sendable,
         \A i \in 2..Len(s) : s[i] = Space => s[i - 1] # Space,
         s = << >> \/ s[1] # Space \/ p[Len(p)] # Space
  PROVE  Sayable(p \o s) /\ Len(p \o s) = Len(p) + Len(s)
<1>. DEFINE q == p \o s
<1>1. p \in Seq(Chars) /\ p # << >>
  BY DEF Sayable
<1>2. Len(p) \in Nat \ {0} /\ Len(s) \in Nat
  BY <1>1, EmptySeq, LenProperties
<1>3. /\ q \in Seq(Chars) /\ Len(q) = Len(p) + Len(s)
      /\ \A i \in 1..Len(q) : q[i] = IF i <= Len(p) THEN p[i] ELSE s[i - Len(p)]
  BY <1>1, <1>2, ConcatProperties
<1>. HIDE DEF q
<1>4. q # << >> /\ q[1] = p[1] /\ q[1] # Space
  BY <1>2, <1>3, EmptySeq DEF Sayable
<1>5. \A i \in 1..Len(q) : q[i] \in Sendable
  <2>. TAKE i \in 1..Len(q)
  <2>1. CASE i <= Len(p)
    BY <1>2, <1>3, <2>1 DEF Sayable
  <2>2. CASE ~(i <= Len(p))
    <3>1. i - Len(p) \in 1..Len(s)
      BY <1>2, <1>3, <2>2
    <3>. QED  BY <1>3, <2>2, <3>1
  <2>. QED  BY <2>1, <2>2
<1>6. \A i \in 2..Len(q) : q[i] = Space => q[i - 1] # Space
  <2>. SUFFICES ASSUME NEW i \in 2..Len(q), q[i] = Space
                PROVE  q[i - 1] # Space
    OBVIOUS
  <2>0. i \in 1..Len(q) /\ i - 1 \in 1..Len(q)
    BY <1>2, <1>3
  <2>1. CASE i <= Len(p)
    <3>1. i \in 2..Len(p) /\ i - 1 <= Len(p)
      BY <1>2, <2>0, <2>1
    <3>2. q[i] = p[i]
      BY <1>3, <2>0, <2>1
    <3>3. q[i - 1] = p[i - 1]
      BY <1>3, <2>0, <3>1
    <3>. QED  BY <3>1, <3>2, <3>3 DEF Sayable
  <2>2. CASE i = Len(p) + 1
    <3>1. q[i] = s[1] /\ q[i - 1] = p[Len(p)] /\ Len(s) # 0
      BY <1>2, <1>3, <2>0, <2>2
    <3>2. s # << >>
      BY <3>1, EmptySeq
    <3>. QED  BY <3>1, <3>2
  <2>3. CASE i > Len(p) + 1
    <3>. DEFINE j == i - Len(p)
    <3>1. j \in 2..Len(s) /\ i - 1 - Len(p) = j - 1
      BY <1>2, <1>3, <2>0, <2>3
    <3>2. q[i] = s[j]
      BY <1>2, <1>3, <2>0, <2>3
    <3>3. q[i - 1] = s[i - 1 - Len(p)]
      BY <1>2, <1>3, <2>0, <2>3
    <3>4. q[i - 1] = s[j - 1]
      BY <3>1, <3>3
    <3>. HIDE DEF j
    <3>5. s[j] = Space
      BY <3>2
    <3>. QED  BY <3>1, <3>4, <3>5
  <2>. QED  BY <1>2, <2>0, <2>1, <2>2, <2>3
<1>. QED  BY <1>3, <1>4, <1>5, <1>6 DEF Sayable, q

(* What follows from an answer that is counted right. *)
LEMMA AnswerCounting ==
  ASSUME IInv, Counting, cm_state # "output", due # << >>,
         NEW s, Sayable(s), Len(s) <= TextSize, Answer(s, Len(s)),
         Go(Tail(due)), msg' = msg
  PROVE  Counting'
<1>0. text = << >> /\ marks # "sent" /\ marks # "mixed" /\ s \in Seq(Chars)
      /\ s # << >>
  BY DEF Counting, SilentOK, Sayable
<1>1. /\ text' \in Seq(Item) /\ Len(text') = Len(s)
      /\ \A i \in 1..Len(s) : text'[i].ch = s[i]
  BY <1>0, AnswerText
<1>2. cmd_bytes' = Len(s) /\ cm_state' = "output" /\ UNCHANGED elements
  BY DEF Answer, Go
<1>3. marks' = marks /\ sending' = sending /\ spaced' = spaced
  BY <1>2 DEF elements
<1>4. own' = FALSE
  <2>1. own => Tail(due) = << >>
    <3>1. due \in Seq(Chars \cup {Again})
      BY DueType DEF IInv
    <3>2. Len(Tail(due)) = Len(due) - 1 /\ Tail(due) \in Seq(Chars \cup {Again})
      BY <3>1, HeadTailProperties
    <3>. QED  BY <3>2, EmptySeq DEF Counting, OwnOK
  <2>2. own' = (own /\ Tail(due) # << >>)
    BY DEF Go, Deliver
  <2>. QED  BY <2>1, <2>2, Zenon
<1>5. Len(s) \in Nat /\ Len(s) # 0
  BY <1>0, EmptySeq, LenProperties
<1>6. CountOK'
  BY <1>0, <1>1, <1>2, <1>3, <1>4, <1>5 DEF CountOK, Pending
<1>7. SilentOK' /\ OwnOK' /\ GoesOn' /\ InputOK'
  BY <1>0, <1>2, <1>3, <1>4 DEF SilentOK, OwnOK, GoesOn, InputOK
<1>8. TextSayable'
  <2>1. \A i \in 1..Len(text') : text'[i].ch \in Sendable
    BY <1>1 DEF Sayable
  <2>2. \A i \in 2..Len(text') : text'[i].ch = Space => text'[i - 1].ch # Space
    <3>1. \A i \in 2..Len(s) : i \in 1..Len(s) /\ i - 1 \in 1..Len(s)
      BY <1>5
    <3>. QED  BY <1>1, <3>1 DEF Sayable
  <2>3. text'[1].ch # Space
    <3>1. 1 \in 1..Len(s)
      BY <1>5
    <3>. QED  BY <1>1, <3>1 DEF Sayable
  <2>. QED  BY <1>0, <1>3, <2>1, <2>2, <2>3 DEF TextSayable, Sendable
<1>9. MsgOK'
  BY DEF Counting, MsgOK, Sendable
<1>. QED  BY <1>6, <1>7, <1>8, <1>9 DEF Counting

LEMMA PlainType ==
  /\ Plain \subseteq Chars /\ Space \notin Plain /\ Plain \subseteq Sendable
  /\ Digits \subseteq Plain /\ Settings \subseteq Plain /\ Memories \subseteq Plain
  /\ {":", "?", "+", "=", "!", "L", "R", "a", "b", "c", "p", "s", "u"} \subseteq Plain
  /\ \A i \in 1..10 : Digit[i] \in Plain
<1>1. \A i \in 1..10 : Digit[i] \in Digits
  BY DEF Digit, Digits
<1>. QED  BY <1>1, AlphabetAssumption, EchoAssumption DEF Plain, Sendable

(* The forms of an answer. *)
LEMMA SayWords ==
  ASSUME NEW c \in Plain, NEW d \in Plain, NEW e \in Plain, NEW f \in Plain
  PROVE  /\ Sayable(<< c >>) /\ Len(<< c >>) = 1
         /\ Sayable(<< c, d >>) /\ Len(<< c, d >>) = 2
         /\ Sayable(<< c, d, e >>) /\ Len(<< c, d, e >>) = 3
         /\ Sayable(<< c, d, e, f >>) /\ Len(<< c, d, e, f >>) = 4
<1>1. /\ c \in Chars /\ d \in Chars /\ e \in Chars /\ f \in Chars
      /\ c # Space /\ d # Space /\ e # Space /\ f # Space
      /\ c \in Sendable /\ d \in Sendable /\ e \in Sendable /\ f \in Sendable
  BY PlainType
<1>2. Sayable(<< c >>)
  BY <1>1 DEF Sayable
<1>3. Sayable(<< c, d >>)
  BY <1>1 DEF Sayable
<1>4. Sayable(<< c, d, e >>)
  BY <1>1 DEF Sayable
<1>5. Sayable(<< c, d, e, f >>)
  BY <1>1 DEF Sayable
<1>. QED  BY <1>2, <1>3, <1>4, <1>5

LEMMA SaySpaced ==
  ASSUME NEW c \in Plain, NEW d \in Plain, NEW e \in Plain, NEW f \in Plain
  PROVE  /\ Sayable(<< c, d, Space >>) /\ Len(<< c, d, Space >>) = 3
         /\ << c, d, Space >>[3] = Space
         /\ Sayable(<< c, d, Space, e >>) /\ Len(<< c, d, Space, e >>) = 4
         /\ Sayable(<< c, d, Space, e, f >>) /\ Len(<< c, d, Space, e, f >>) = 5
         /\ << c, d, Space, e, f >>[5] = f
<1>1. /\ c \in Chars /\ d \in Chars /\ e \in Chars /\ f \in Chars
      /\ c # Space /\ d # Space /\ e # Space /\ f # Space
      /\ c \in Sendable /\ d \in Sendable /\ e \in Sendable /\ f \in Sendable
      /\ Space \in Sendable /\ Space \in Chars
  BY PlainType, SendableType
<1>2. Sayable(<< c, d, Space >>)
  BY <1>1 DEF Sayable
<1>3. Sayable(<< c, d, Space, e >>)
  BY <1>1 DEF Sayable
<1>4. Sayable(<< c, d, Space, e, f >>)
  BY <1>1 DEF Sayable
<1>. QED  BY <1>2, <1>3, <1>4

(* What an answer to a parameter repeats of it. *)
LEMMA MsgSayable ==
  ASSUME IInv, MsgOK, \A i \in 1..Len(msg) : msg[i] # "$"
  PROVE  /\ msg \in Seq(Chars) /\ Len(msg) \in Nat
         /\ \A i \in 1..Len(msg) : msg[i] \in Sendable
BY LenProperties DEF IInv, StaticsOK, MsgOK

LEMMA IdleCounting ==
  ASSUME IInv, Counting, IdleAnswered
  PROVE  Counting'
<1>1. /\ due # << >> /\ cm_state = "idle" /\ Go(Tail(due)) /\ msg' = msg
  BY DEF IdleAnswered, Called
<1>2. /\ 1 <= TextSize /\ 2 <= TextSize
  BY SizesAssumption
<1>3. \/ v \in Settings \cup Memories /\ Answer(<< ":", v >>, 2)
      \/ Answer(<< "+" >>, 1) \/ Answer(<< "=", "=" >>, 2) \/ Answer(<< "?" >>, 1)
  BY DEF IdleAnswered
<1>4. /\ "+" \in Plain /\ "?" \in Plain /\ "=" \in Plain /\ ":" \in Plain
      /\ v \in Settings \cup Memories => v \in Plain
  BY PlainType
<1>5. \E s : Sayable(s) /\ Len(s) <= TextSize /\ Answer(s, Len(s))
  <2>1. CASE v \in Settings \cup Memories /\ Answer(<< ":", v >>, 2)
    <3>1. Sayable(<< ":", v >>) /\ Len(<< ":", v >>) = 2
      BY <1>4, <2>1, SayWords
    <3>. QED  BY <1>2, <2>1, <3>1
  <2>2. CASE Answer(<< "+" >>, 1)
    <3>1. Sayable(<< "+" >>) /\ Len(<< "+" >>) = 1
      BY <1>4, SayWords
    <3>. QED  BY <1>2, <2>2, <3>1
  <2>3. CASE Answer(<< "=", "=" >>, 2)
    <3>1. Sayable(<< "=", "=" >>) /\ Len(<< "=", "=" >>) = 2
      BY <1>4, SayWords
    <3>. QED  BY <1>2, <2>3, <3>1
  <2>4. CASE Answer(<< "?" >>, 1)
    <3>1. Sayable(<< "?" >>) /\ Len(<< "?" >>) = 1
      BY <1>4, SayWords
    <3>. QED  BY <1>2, <2>4, <3>1
  <2>. QED  BY <1>3, <2>1, <2>2, <2>3, <2>4
<1>. QED  BY <1>1, <1>5, AnswerCounting

(* A parameter that begins with a digit, or with a space before a digit,   *)
(* and has two characters at most.                                         *)
LEMMA ShortMsg ==
  ASSUME IInv, MsgOK, Len(msg) <= 2, msg # << >>,
         First \in Digits \/ (First = Space /\ Number > 0)
  PROVE  /\ \A i \in 1..Len(msg) : msg[i] \in Sendable
         /\ \A i \in 2..Len(msg) : msg[i] = Space => msg[i - 1] # Space
<1>1. msg \in Seq(Chars) /\ Len(msg) \in Nat \ {0}
  BY EmptySeq DEF IInv, StaticsOK
<1>2. First = msg[1] /\ (First \in Digits => First \in Plain)
  BY PlainType DEF First
<1>3. First # "/" /\ msg[1] # "/"
  BY <1>2 DEF Digits, Space
<1>4. \A i \in 1..Len(msg) : msg[i] \in Sendable
  BY <1>1, <1>3 DEF MsgOK
<1>5. ASSUME Len(msg) = 2, msg[2] = Space PROVE msg[1] # Space
  <2>1. CASE First \in Digits
    BY <1>2, <2>1, PlainType
  <2>2. CASE First = Space /\ Number > 0
    <3>1. Space \notin Digits
      BY DEF Space, Digits
    <3>2. Number = 0
      BY <1>5, <2>2, <3>1 DEF Number
    <3>. QED  BY <2>2, <3>2
  <2>. QED  BY <2>1, <2>2
<1>6. \A i \in 2..Len(msg) : i = 2 /\ Len(msg) = 2
  <2>1. \A n \in Nat : n <= 2 => \A i \in 2..n : i = 2 /\ n = 2
    OBVIOUS
  <2>2. Len(msg) \in Nat
    BY <1>1
  <2>. QED  BY <2>1, <2>2
<1>7. \A i \in 2..Len(msg) : msg[i] = Space => msg[i - 1] # Space
  BY <1>5, <1>6
<1>. QED  BY <1>4, <1>7

(* Nothing else is a number. *)
LEMMA NumberFirst == Number > 0 => First \in Digits \/ First = Space
BY DEF Number

LEMMA SetCounting ==
  ASSUME IInv, Counting, NextSet, ~odd'
  PROVE  Counting'
<1>1. /\ due # << >> /\ cm_state = "next_action" /\ Go(Tail(due)) /\ msg' = msg
      /\ command \in Settings /\ next_action = 1 /\ Accepted
  BY DEF NextSet, Called
<1>2. /\ 1 <= TextSize /\ 4 <= TextSize /\ 5 <= TextSize
  BY SizesAssumption
<1>3. /\ "=" \in Plain /\ "L" \in Plain /\ "R" \in Plain /\ "p" \in Plain
      /\ {"a", "b", "c", "p", "s", "u"} \subseteq Plain /\ Digits \subseteq Plain
  BY PlainType
<1>4. CASE command = "d"
  <2>1. PICK side \in {"L", "R"} : Answer(<< "=", "=", Space, side >>, 4)
    BY <1>4 DEF NextSet
  <2>2. /\ Sayable(<< "=", "=", Space, side >>)
        /\ Len(<< "=", "=", Space, side >>) = 4
    BY <1>3, SaySpaced
  <2>. QED  BY <1>1, <1>2, <2>1, <2>2, AnswerCounting
<1>5. CASE command = "k"
  <2>1. First \in Plain
    BY <1>1, <1>3, <1>5 DEF Accepted
  <2>2. Answer(<< "=", "=", Space, First >>, 4)
    BY <1>5 DEF NextSet
  <2>3. /\ Sayable(<< "=", "=", Space, First >>)
        /\ Len(<< "=", "=", Space, First >>) = 4
    BY <1>3, <2>1, SaySpaced
  <2>. QED  BY <1>1, <1>2, <2>2, <2>3, AnswerCounting
<1>6. CASE command = "p" /\ First = "?"
  <2>1. PICK p \in Mids : Answer(<< Digit[p + 1] >>, 1)
    BY <1>6 DEF NextSet
  <2>2. Digit[p + 1] \in Plain
    <3>1. p + 1 \in 1..10
      BY DEF Mids
    <3>. QED  BY <3>1, PlainType
  <2>3. Sayable(<< Digit[p + 1] >>) /\ Len(<< Digit[p + 1] >>) = 1
    BY <2>2, SayWords
  <2>. QED  BY <1>1, <1>2, <2>1, <2>3, AnswerCounting
<1>7. CASE command = "p" /\ First # "?"
  <2>1. First \in Plain
    BY <1>1, <1>3, <1>7 DEF Accepted
  <2>2. Answer(<< "=", "=", Space, "p", First >>, 5)
    BY <1>7 DEF NextSet
  <2>3. /\ Sayable(<< "=", "=", Space, "p", First >>)
        /\ Len(<< "=", "=", Space, "p", First >>) = 5
    BY <1>3, <2>1, SaySpaced
  <2>. QED  BY <1>1, <1>2, <2>2, <2>3, AnswerCounting
<1>8. CASE command \in {"s", "t"}
  <2>1. Len(msg) # 1 /\ First # Space
    BY <1>8 DEF NextSet
  <2>2. Number > 0
    <3>1. Number > 4 \/ Number > 8
      BY <1>1, <1>8 DEF Accepted
    <3>2. Number \in Int
      BY ValueType DEF Number, NotAMemory
    <3>. QED  BY <3>1, <3>2
  <2>3. First \in Digits
    BY <2>1, <2>2, NumberFirst
  <2>4. msg # << >>
    BY <2>3 DEF First, Nul, Digits
  <2>5. msg \in Seq(Chars) /\ Len(msg) \in Nat \ {0}
    BY <2>4, EmptySeq DEF IInv, StaticsOK
  <2>6. Len(msg) = 2
    <3>1. Len(msg) <= Wanted(command, 1)
      BY <1>1 DEF IInv, MsgFits
    <3>2. Wanted(command, 1) = 2
      BY <1>8 DEF Wanted
    <3>3. Len(msg) <= 2
      BY <3>1, <3>2
    <3>4. Len(msg) \in Nat /\ Len(msg) # 0 /\ Len(msg) # 1
      BY <2>1, <2>5
    <3>5. \A n \in Nat : n <= 2 /\ n # 0 /\ n # 1 => n = 2
      OBVIOUS
    <3>. QED  BY <3>3, <3>4, <3>5
  <2>7. /\ \A i \in 1..Len(msg) : msg[i] \in Sendable
        /\ \A i \in 2..Len(msg) : msg[i] = Space => msg[i - 1] # Space
    BY <2>3, <2>4, <2>6, ShortMsg DEF Counting
  <2>8. msg[1] # Space
    BY <2>1, <2>4 DEF First
  <2>. DEFINE p == << "=", "=", Space >>
  <2>9. Sayable(p) /\ Len(p) = 3
    BY <1>3, SaySpaced
  <2>10. Answer(p \o msg, 5)
    BY <1>8 DEF NextSet
  <2>11. Sayable(p \o msg) /\ Len(p \o msg) = Len(p) + Len(msg)
    BY <2>5, <2>7, <2>8, <2>9, SayBehind
  <2>12. Len(p \o msg) = 5
    BY <2>6, <2>9, <2>11
  <2>. HIDE DEF p
  <2>. QED  BY <1>1, <1>2, <2>10, <2>11, <2>12, AnswerCounting
<1>. QED  BY <1>1, <1>4, <1>5, <1>6, <1>7, <1>8 DEF Settings

LEMMA RefuseCounting ==
  ASSUME IInv, Counting, NextRefuse, ~odd'
  PROVE  Counting'
<1>1. /\ due # << >> /\ cm_state = "next_action" /\ Go(Tail(due)) /\ msg' = msg
      /\ command \in Settings /\ command # "p"
  BY DEF NextRefuse, Called
<1>2. Answer(<< "!", ":", command >>, 3)
  BY <1>1 DEF NextRefuse
<1>3. Sayable(<< "!", ":", command >>) /\ Len(<< "!", ":", command >>) = 3
  BY <1>1, PlainType, SayWords
<1>4. 3 <= TextSize
  BY SizesAssumption
<1>. QED  BY <1>1, <1>2, <1>3, <1>4, AnswerCounting

LEMMA MemoryCounting ==
  ASSUME IInv, Counting, NextMemory
  PROVE  Counting'
<1>1. /\ due # << >> /\ cm_state = "next_action" /\ Go(Tail(due)) /\ msg' = msg
      /\ command \in Memories
  BY DEF NextMemory, Called
<1>2. 2 <= TextSize /\ 3 <= TextSize
  BY SizesAssumption
<1>3. CASE First \in Digits
  <2>1. Answer(<< ":", First >>, 2)
    BY <1>3 DEF NextMemory
  <2>2. Sayable(<< ":", First >>) /\ Len(<< ":", First >>) = 2
    BY <1>3, PlainType, SayWords
  <2>. QED  BY <1>1, <1>2, <2>1, <2>2, AnswerCounting
<1>4. CASE First \notin Digits
  <2>1. Answer(<< "!", ":", command >>, 3)
    BY <1>4 DEF NextMemory
  <2>2. Sayable(<< "!", ":", command >>) /\ Len(<< "!", ":", command >>) = 3
    BY <1>1, PlainType, SayWords
  <2>. QED  BY <1>1, <1>2, <2>1, <2>2, AnswerCounting
<1>. QED  BY <1>3, <1>4

LEMMA RepeatCounting ==
  ASSUME IInv, Counting, NextRepeat
  PROVE  Counting'
<1>1. /\ due # << >> /\ cm_state = "next_action" /\ Go(Tail(due)) /\ msg' = msg
      /\ command = "r" /\ next_action = 3
  BY DEF NextRepeat, Called
<1>2. 4 <= TextSize /\ 7 <= TextSize /\ TextSize \in Nat
  BY SizesAssumption
<1>3. Digit[mid + 1] \in Plain
  <2>1. mid \in 0..9
    BY <1>1 DEF IInv, StaysInBounds, Memories
  <2>2. mid + 1 \in 1..10
    BY <2>1
  <2>. QED  BY <2>2, PlainType
<1>4. /\ "=" \in Plain /\ "!" \in Plain /\ ":" \in Plain /\ "r" \in Plain
  BY PlainType DEF Memories
<1>5. CASE First = "0" \/ Number > 0
  <2>. DEFINE p == << "=", "=", Space, "r", Digit[mid + 1] >>
  <2>1. Answer(p \o msg, 5 + Len(msg))
    BY <1>5 DEF NextRepeat
  <2>2. First \in Digits \/ (First = Space /\ Number > 0)
    BY <1>5, NumberFirst DEF Digits
  <2>3. msg # << >>
    BY <2>2 DEF First, Nul, Digits, Space
  <2>4. msg \in Seq(Chars) /\ Len(msg) \in Nat
    BY LenProperties DEF IInv, StaticsOK
  <2>5. Len(msg) <= 2
    <3>1. Len(msg) <= Wanted(command, 3)
      BY <1>1 DEF IInv, MsgFits
    <3>2. Wanted(command, 3) = 2
      BY <1>1 DEF Wanted
    <3>. QED  BY <3>1, <3>2
  <2>6. /\ \A i \in 1..Len(msg) : msg[i] \in Sendable
        /\ \A i \in 2..Len(msg) : msg[i] = Space => msg[i - 1] # Space
    BY <2>2, <2>3, <2>5, ShortMsg DEF Counting
  <2>7. /\ Sayable(p) /\ Len(p) = 5 /\ p[Len(p)] # Space
    BY <1>3, <1>4, SaySpaced, PlainType
  <2>8. Sayable(p \o msg) /\ Len(p \o msg) = Len(p) + Len(msg)
    BY <2>4, <2>6, <2>7, SayBehind
  <2>9. Len(p \o msg) = 5 + Len(msg) /\ Len(p \o msg) <= TextSize
    BY <1>2, <2>4, <2>5, <2>7, <2>8
  <2>. HIDE DEF p
  <2>. QED  BY <1>1, <2>1, <2>8, <2>9, AnswerCounting
<1>6. CASE ~(First = "0" \/ Number > 0)
  <2>1. Answer(<< "!", ":", "r", Digit[mid + 1] >>, 4)
    BY <1>6 DEF NextRepeat
  <2>2. /\ Sayable(<< "!", ":", "r", Digit[mid + 1] >>)
        /\ Len(<< "!", ":", "r", Digit[mid + 1] >>) = 4
    BY <1>3, <1>4, SayWords
  <2>. QED  BY <1>1, <1>2, <2>1, <2>2, AnswerCounting
<1>. QED  BY <1>5, <1>6

LEMMA StoreCounting ==
  ASSUME IInv, Counting, NextStore, ~odd'
  PROVE  Counting'
<1>1. /\ due # << >> /\ cm_state = "next_action" /\ Go(Tail(due)) /\ msg' = msg
      /\ command = "m" /\ next_action = 3 /\ ~Uneven(msg)
  BY DEF NextStore, Called
<1>. DEFINE p == << "=", "=", Space >>
<1>2. Answer(p \o msg, 3 + Len(msg))
  BY DEF NextStore
<1>3. msg \in Seq(Chars) /\ Len(msg) \in Nat /\ DOMAIN msg = 1..Len(msg)
  BY LenProperties DEF IInv, StaticsOK
<1>4. \A i \in 1..Len(msg) :
        msg[i] # "$" /\ ~(msg[i] = Space /\ (i = 1 \/ msg[i - 1] = Space))
  BY <1>1, <1>3 DEF Uneven
<1>5. \A i \in 1..Len(msg) : msg[i] \in Sendable
  BY <1>4, MsgSayable DEF Counting
<1>6. /\ \A i \in 2..Len(msg) : msg[i] = Space => msg[i - 1] # Space
      /\ msg = << >> \/ msg[1] # Space
  <2>1. msg # << >> => Len(msg) # 0
    BY <1>3, EmptySeq
  <2>. QED  BY <1>3, <1>4, <2>1
<1>7. Sayable(p) /\ Len(p) = 3
  BY PlainType, SaySpaced
<1>8. Sayable(p \o msg) /\ Len(p \o msg) = Len(p) + Len(msg)
  BY <1>3, <1>5, <1>6, <1>7, SayBehind
<1>9. Len(msg) <= MsgLen
  <2>1. Len(msg) <= Wanted(command, 3)
    BY <1>1 DEF IInv, MsgFits
  <2>. QED  BY <1>1, <2>1 DEF Wanted
<1>10. Len(p \o msg) = 3 + Len(msg) /\ Len(p \o msg) <= TextSize
  BY <1>3, <1>7, <1>8, <1>9, SizesAssumption
<1>. HIDE DEF p
<1>. QED  BY <1>1, <1>2, <1>8, <1>10, AnswerCounting

(* What the callback has been given, and what comes after it. *)
LEMMA DueParts ==
  ASSUME IInv, due # << >>
  PROVE  /\ due \in Seq(Chars \cup {Again}) /\ Len(due) \in Nat \ {0}
         /\ v = due[1]
         /\ Tail(due) \in Seq(Chars \cup {Again})
         /\ Len(Tail(due)) \in Nat /\ Len(Tail(due)) = Len(due) - 1
         /\ \A i \in 1..Len(Tail(due)) : Tail(due)[i] = due[i + 1]
<1>1. due \in Seq(Chars \cup {Again})
  BY DueType DEF IInv
<1>2. Len(due) \in Nat \ {0}
  BY <1>1, EmptySeq
<1>3. /\ Tail(due) \in Seq(Chars \cup {Again})
      /\ Len(Tail(due)) = Len(due) - 1
      /\ \A i \in 1..Len(Tail(due)) : Tail(due)[i] = due[i + 1]
  BY <1>1, HeadTailProperties
<1>. QED  BY <1>1, <1>2, <1>3 DEF v

LEMMA AgainDue ==
  ASSUME IInv, due # << >>, due' = << Again >> \o Tail(due)
  PROVE  due' # << >> /\ v' = Again /\ Len(due') = Len(due)
<1>. DEFINE S == Chars \cup {Again}
<1>1. << Again >> \in Seq(S) /\ Len(<< Again >>) = 1 /\ << Again >>[1] = Again
  OBVIOUS
<1>2. Tail(due) \in Seq(S) /\ Len(Tail(due)) \in Nat /\ Len(due) \in Nat \ {0}
      /\ Len(Tail(due)) = Len(due) - 1
  BY DueParts
<1>3. /\ due' \in Seq(S) /\ Len(due') = 1 + Len(Tail(due)) /\ due'[1] = Again
  BY <1>1, <1>2, ConcatProperties
<1>4. Len(due') = Len(due) /\ due' # << >>
  BY <1>2, <1>3, EmptySeq
<1>. QED  BY <1>3, <1>4 DEF v

(* The end of one's own character. *)
LEMMA OwnEnds ==
  ASSUME IInv, OwnOK, due # << >>, Deliver(Tail(due))
  PROVE  own' = FALSE
<1>1. own => Tail(due) = << >>
  <2>1. Tail(due) \in Seq(Chars \cup {Again}) /\ Len(Tail(due)) = Len(due) - 1
    BY DueParts
  <2>. QED  BY <2>1, EmptySeq DEF OwnOK
<1>2. own' = (own /\ Tail(due) # << >>)
  BY DEF Deliver
<1>. QED  BY <1>1, <1>2, Zenon

(* Nothing to send, and nothing sent, in any state but "output". *)
LEMMA Unsaid ==
  ASSUME Counting, cm_state # "output", cm_state' # "output",
         text' = text, UNCHANGED elements
  PROVE  CountOK' /\ SilentOK' /\ TextSayable'
<1>1. text = << >> /\ marks # "sent" /\ marks # "mixed"
  BY DEF Counting, SilentOK
<1>2. text' = << >> /\ marks' # "sent" /\ marks' # "mixed"
  BY <1>1 DEF elements
<1>. QED  BY <1>2 DEF CountOK, SilentOK, TextSayable

LEMMA EnterCounting ==
  ASSUME IInv, Free, Enter
  PROVE  Counting'
<1>1. /\ text' = << >> /\ ClearElements(<< >>) /\ cm_state' = "idle"
      /\ msg' = << >>
  BY DEF Enter, ClearQueues, Forget
<1>2. own' = FALSE /\ marks' \in {"none", "keyed"}
  <2>1. Deliver(<< >>) => own' = FALSE
    <3>1. Deliver(<< >>) => own' = (own /\ << >> # << >>)
      BY DEF Deliver
    <3>. QED  BY <3>1, Zenon
  <2>. QED  BY <1>1, <2>1 DEF ClearElements
<1>. QED  BY <1>1, <1>2 DEF Counting, CountOK, SilentOK, OwnOK, GoesOn,
          TextSayable, MsgOK, InputOK

LEMMA SameCounting ==
  ASSUME Counting, UNCHANGED << statics, text, sending, spaced, decoding >>,
         marks' = marks \/ (marks = "none" /\ marks' = "keyed")
  PROVE  Counting'
<1>1. /\ UNCHANGED << cm_state, cmd_bytes, msg, next_action, text, sending,
                      spaced, due, own >>
      /\ marks' = "sent" <=> marks = "sent"
      /\ marks' = "mixed" <=> marks = "mixed"
  BY DEF statics, decoding
<1>2. v' = v
  BY <1>1 DEF v
<1>3. CountOK' /\ SilentOK' /\ OwnOK' /\ GoesOn'
  BY <1>1, <1>2 DEF Counting, CountOK, SilentOK, OwnOK, GoesOn, Pending
<1>4. TextSayable' /\ MsgOK' /\ InputOK'
  BY <1>1 DEF Counting, TextSayable, MsgOK, InputOK
<1>. QED  BY <1>3, <1>4 DEF Counting

LEMMA SendCounting ==
  ASSUME IInv, Counting, Send, ~disturbed'
  PROVE  Counting'
<1>0. /\ due = << >> /\ text # << >> /\ text' = Tail(text)
      /\ UNCHANGED << cm_state, cmd_bytes, msg, next_action, spaced, due, own >>
  BY DEF Send, Free, statics, decoding
<1>1. cm_state = "output"
  BY <1>0 DEF Counting, SilentOK
<1>2. /\ text \in Seq(Item) /\ Len(text) \in Nat \ {0}
      /\ Len(text') = Len(text) - 1
      /\ \A i \in 1..Len(text') : text'[i] = text[i + 1]
  <2>1. text \in Seq(Item)
    BY DEF IInv, LineOK
  <2>. QED  BY <1>0, <2>1, EmptySeq, HeadTailProperties
<1>3. Head(text) = text[1] /\ text[1].ch \in Sendable
  BY <1>2 DEF Counting, TextSayable
<1>4. text[1].ch \in Coded
  BY <1>3, SendableType
<1>5. marks = "none"
  <2>1. disturbed' = (disturbed \/ marks # "none")
    BY <1>3, <1>4 DEF Send
  <2>. QED  BY <2>1, Zenon
<1>6. marks' = "sent" /\ sending' = text[1].ch
  BY <1>3, <1>4, <1>5 DEF Send
<1>7. CountOK'
  <2>1. own = FALSE
    <3>1. ~own
      BY <1>0, EmptySeq DEF Counting, OwnOK
    <3>. QED  BY <3>1, Zenon DEF IInv, FlagsOK
  <2>2. cmd_bytes = Len(text)
    BY <1>1, <1>2, <1>5, <2>1 DEF Counting, CountOK, Pending
  <2>. QED  BY <1>0, <1>2, <1>6, <2>1, <2>2 DEF CountOK, Pending
<1>8. SilentOK' /\ OwnOK' /\ GoesOn' /\ MsgOK' /\ InputOK'
  BY <1>0, <1>1, <1>6 DEF Counting, SilentOK, OwnOK, GoesOn, MsgOK, InputOK
<1>9. TextSayable'
  <2>1. \A i \in 1..Len(text') : text'[i].ch \in Sendable
    <3>1. \A i \in 1..Len(text') : i + 1 \in 1..Len(text)
      BY <1>2
    <3>. QED  BY <1>2, <3>1 DEF Counting, TextSayable
  <2>2. \A i \in 2..Len(text') : text'[i].ch = Space => text'[i - 1].ch # Space
    <3>. SUFFICES ASSUME NEW i \in 2..Len(text'), text'[i].ch = Space
                  PROVE  text'[i - 1].ch # Space
      OBVIOUS
    <3>1. i \in 1..Len(text') /\ i - 1 \in 1..Len(text')
          /\ i + 1 \in 2..Len(text) /\ (i - 1) + 1 = (i + 1) - 1
      BY <1>2
    <3>2. text'[i] = text[i + 1] /\ text'[i - 1] = text[(i + 1) - 1]
      BY <1>2, <3>1
    <3>. QED  BY <3>1, <3>2 DEF Counting, TextSayable
  <2>3. text' # << >> /\ text'[1].ch = Space => sending' # Space
    <3>. SUFFICES ASSUME text' # << >>, text'[1].ch = Space
                  PROVE  text[1].ch # Space
      BY <1>6
    <3>1. Len(text') # 0
      <4>1. text' \in Seq(Item)
        BY <1>0, <1>2, HeadTailProperties
      <4>. QED  BY <4>1, EmptySeq
    <3>2. 1 \in 1..Len(text') /\ 2 \in 2..Len(text)
      BY <1>2, <3>1
    <3>3. text'[1] = text[2]
      BY <1>2, <3>2
    <3>. QED  BY <3>2, <3>3 DEF Counting, TextSayable
  <2>4. sending' \in Sendable /\ (sending' = Space => spaced')
    BY <1>0, <1>3, <1>5, <1>6 DEF Counting, TextSayable
  <2>. QED  BY <1>6, <2>1, <2>2, <2>3, <2>4 DEF TextSayable
<1>. QED  BY <1>7, <1>8, <1>9 DEF Counting

LEMMA HearSentCounting ==
  ASSUME IInv, Counting, HearSent
  PROVE  Counting'
<1>0. /\ due = << >> /\ marks = "sent" /\ Decode(Sounds(sending), TRUE)
      /\ UNCHANGED << cm_state, cmd_bytes, msg, next_action, text >>
  BY DEF HearSent, Free, statics, Counting, SilentOK
<1>1. cm_state = "output"
  BY <1>0 DEF Counting, SilentOK
<1>2. sending \in Sendable /\ (sending = Space => spaced)
  BY <1>0 DEF Counting, TextSayable
<1>3. PICK h \in Chars : /\ Sounds(sending) = << h >>
                         /\ Spaced(Sounds(sending)) <=> sending # Space
  BY <1>2, SoundsOne
<1>4. /\ due' = << h >> /\ marks' \in {"none", "keyed"}
      /\ spaced' <=> sending # Space
  BY <1>0, <1>3 DEF Decode
<1>5. own' = TRUE
  <2>1. own' = (TRUE /\ << h >> # << >>)
    BY <1>0, <1>3 DEF Decode
  <2>2. << h >> # << >>
    OBVIOUS
  <2>. QED  BY <2>1, <2>2, Zenon
<1>6. CountOK'
  <2>1. own = FALSE
    <3>1. ~own
      BY <1>0, EmptySeq DEF Counting, OwnOK
    <3>. QED  BY <3>1, Zenon DEF IInv, FlagsOK
  <2>2. cmd_bytes = Len(text) + 1 /\ Len(text) \in Nat
    <3>1. Len(text) \in Nat
      BY LenProperties DEF IInv, LineOK
    <3>. QED  BY <1>0, <1>1, <2>1, <3>1 DEF Counting, CountOK, Pending
  <2>. QED  BY <1>0, <1>4, <1>5, <2>2 DEF CountOK, Pending
<1>7. SilentOK' /\ OwnOK' /\ GoesOn' /\ MsgOK' /\ InputOK'
  BY <1>0, <1>1, <1>4 DEF Counting, SilentOK, OwnOK, GoesOn, MsgOK, InputOK
<1>8. TextSayable'
  BY <1>0, <1>4 DEF Counting, TextSayable
<1>. QED  BY <1>6, <1>7, <1>8 DEF Counting

LEMMA HearKeyedCounting ==
  ASSUME IInv, Counting, HearKeyed, command_mode, ~disturbed'
  PROVE  Counting'
<1>0. /\ due = << >> /\ marks = "keyed"
      /\ UNCHANGED << cm_state, cmd_bytes, msg, next_action, text >>
  BY DEF HearKeyed, Free, statics
<1>1. cm_state # "output"
  <2>1. disturbed' = (disturbed \/ (command_mode /\ cm_state = "output"))
    BY DEF HearKeyed
  <2>. QED  BY <2>1, Zenon
<1>2. cm_state \notin {"next_action", "done"} /\ text = << >>
  BY <1>0, <1>1 DEF Counting, GoesOn, SilentOK
<1>3. PICK s \in Keyed : Decode(s, FALSE)
  BY DEF HearKeyed
<1>4. due' = s /\ marks' \in {"none", "keyed"}
  BY <1>3 DEF Decode
<1>5. own' = FALSE
  <2>1. own' = (FALSE /\ s # << >>)
    BY <1>3 DEF Decode
  <2>. QED  BY <2>1, Zenon
<1>6. CountOK' /\ SilentOK' /\ OwnOK' /\ GoesOn' /\ MsgOK' /\ TextSayable'
  BY <1>0, <1>1, <1>2, <1>4, <1>5 DEF Counting, CountOK, SilentOK, OwnOK, GoesOn,
     MsgOK, TextSayable
<1>7. InputOK'
  <2>1. DOMAIN s = 1..Len(s)
    BY AlphabetAssumption, LenProperties
  <2>2. \A i \in 1..Len(s) : \/ s[i] \in Sendable \cup {Backspace}
                             \/ s[i] = "$" /\ i # 1 /\ s[i - 1] = "/"
    BY <2>1, EchoAssumption DEF Sendable
  <2>. QED  BY <1>4, <2>2 DEF InputOK
<1>. QED  BY <1>6, <1>7 DEF Counting

(* While a parameter is keyed, one character is delivered. *)
LEMMA InputRest ==
  ASSUME IInv, InputOK, cm_state = "input", due # << >>, due' = Tail(due),
         \/ v # "/"
         \/ msg' # << >> /\ msg'[Len(msg')] = "/"
  PROVE  InputOK'
<1>1. /\ Len(due) \in Nat \ {0} /\ v = due[1]
      /\ Len(due') = Len(due) - 1
      /\ \A i \in 1..Len(due') : due'[i] = due[i + 1]
  BY DueParts
<1>2. ASSUME NEW i \in 1..Len(due')
      PROVE  \/ due'[i] \in Sendable \cup {Backspace}
             \/ /\ due'[i] = "$"
                /\ IF i = 1 THEN msg' # << >> /\ msg'[Len(msg')] = "/"
                            ELSE due'[i - 1] = "/"
  <2>1. i + 1 \in 1..Len(due) /\ i + 1 # 1 /\ due'[i] = due[i + 1]
        /\ (i + 1) - 1 = i
    BY <1>1
  <2>2. \/ due'[i] \in Sendable \cup {Backspace}
        \/ due'[i] = "$" /\ due[i] = "/"
    BY <2>1 DEF InputOK
  <2>3. CASE i = 1
    BY <1>1, <2>2, <2>3
  <2>4. CASE i # 1
    <3>1. i - 1 \in 1..Len(due') /\ (i - 1) + 1 = i
      BY <1>1, <2>4
    <3>2. due'[i - 1] = due[i]
      BY <1>1, <3>1
    <3>. QED  BY <2>2, <2>4, <3>2
  <2>. QED  BY <2>3, <2>4
<1>. QED  BY <1>2 DEF InputOK

LEMMA OnAirCounting ==
  ASSUME IInv, Counting, OnAir, command_mode
  PROVE  Counting'
<1>0. /\ due # << >> /\ v = Space /\ cm_state # "output" /\ Deliver(Tail(due))
      /\ UNCHANGED << cm_state, cmd_bytes, msg, next_action, text >>
      /\ UNCHANGED elements
  BY DEF OnAir, statics
<1>1. due' = Tail(due)
  BY <1>0 DEF Deliver
<1>2. cm_state \notin {"next_action", "done"}
  BY <1>0, AlphabetAssumption DEF Counting, GoesOn
<1>3. own' = FALSE
  BY <1>0, OwnEnds DEF Counting
<1>4. CountOK' /\ SilentOK' /\ TextSayable'
  BY <1>0, Unsaid
<1>5. OwnOK' /\ GoesOn' /\ MsgOK'
  BY <1>0, <1>2, <1>3 DEF Counting, OwnOK, GoesOn, MsgOK
<1>6. InputOK'
  <2>1. CASE cm_state = "input"
    BY <1>0, <1>1, <2>1, InputRest DEF Counting, Space
  <2>2. CASE cm_state # "input"
    BY <1>0, <2>2 DEF InputOK
  <2>. QED  BY <2>1, <2>2
<1>. QED  BY <1>4, <1>5, <1>6 DEF Counting

(* What is taken back was keyed, and what is left was keyed before it. *)
LEMMA InputBackCounting ==
  ASSUME IInv, Counting, InputBack
  PROVE  Counting'
<1>0. /\ due # << >> /\ cm_state = "input" /\ v = Backspace /\ Go(Tail(due))
      /\ UNCHANGED << cm_state, next_action, text >>
  BY DEF InputBack, Called
<1>1. due' = Tail(due) /\ Deliver(Tail(due)) /\ UNCHANGED elements
  BY <1>0 DEF Go, Deliver
<1>2. own' = FALSE
  BY <1>0, <1>1, OwnEnds DEF Counting
<1>3. CountOK' /\ SilentOK' /\ TextSayable'
  BY <1>0, <1>1, Unsaid
<1>4. OwnOK' /\ GoesOn'
  BY <1>0, <1>2 DEF Counting, OwnOK, GoesOn
<1>5. InputOK'
  BY <1>0, <1>1, InputRest DEF Counting, Backspace
<1>6. MsgOK'
  <2>1. CASE msg = << >>
    BY <2>1 DEF InputBack, Counting, MsgOK
  <2>2. CASE msg # << >>
    <3>1. msg \in Seq(Chars) /\ Len(msg) \in Nat \ {0}
      BY <2>2, EmptySeq DEF IInv, StaticsOK
    <3>. DEFINE n == Len(msg) - 1
    <3>2. n \in Nat /\ n <= Len(msg) /\ \A i \in 1..n : i \in 1..Len(msg)
      BY <3>1
    <3>3. \A i \in 1..n : msg[i] \in Chars
      BY <3>1, <3>2, ElementOfSeq
    <3>4. msg' = SubSeq(msg, 1, n)
      BY <2>2 DEF InputBack
    <3>. HIDE DEF n
    <3>5. /\ Len(msg') = IF 1 <= n THEN n - 1 + 1 ELSE 0
          /\ \A i \in 1..n - 1 + 1 : msg'[i] = msg[1 + i - 1]
      <4>1. 1 \in Int /\ n \in Int
        BY <3>2
      <4>. QED  BY <3>3, <3>4, <4>1, SubSeqProperties
    <3>6. Len(msg') = n /\ \A i \in 1..n : msg'[i] = msg[i]
      BY <3>2, <3>5
    <3>7. \A i \in 1..n : i > 1 => i - 1 \in 1..n
      BY <3>2
    <3>. QED  BY <3>2, <3>6, <3>7 DEF Counting, MsgOK
  <2>. QED  BY <2>1, <2>2
<1>. QED  BY <1>2, <1>3, <1>4, <1>5, <1>6 DEF Counting

LEMMA InputCounting ==
  ASSUME IInv, Counting, Input
  PROVE  Counting'
<1>0. /\ due # << >> /\ cm_state = "input" /\ v # Backspace /\ v # Space
      /\ UNCHANGED << next_action, text >>
  BY DEF Input, Called
<1>1. /\ msg \in Seq(Chars) /\ Len(msg) \in Nat
  BY LenProperties DEF IInv, StaticsOK
<1>2. ~own /\ next_action \in {1, 3}
  BY <1>0 DEF Counting, OwnOK, GoesOn
<1>3. v \in Chars
  BY <1>0, DueTail DEF IInv
<1>4. \/ v \in Sendable
      \/ v = "$" /\ msg # << >> /\ msg[Len(msg)] = "/"
  <2>1. 1 \in 1..Len(due) /\ v = due[1]
    BY <1>0, DueParts
  <2>. QED  BY <1>0, <2>1 DEF Counting, InputOK
<1>5. /\ MsgOK'
      /\ v = "/" => msg' # << >> /\ msg'[Len(msg')] = "/"
  <2>1. CASE v = "+"
    BY <2>1 DEF Input, Counting, MsgOK
  <2>2. CASE v # "+"
    <3>1. PICK c \in Chars : /\ msg' = Append(msg, c)
                             /\ c = IF v = "_" THEN Space ELSE v
      BY <1>3, <2>2, SomeChars DEF Input
    <3>2. /\ msg' # << >> /\ Len(msg') = Len(msg) + 1
          /\ \A i \in 1..Len(msg) : msg'[i] = msg[i]
          /\ msg'[Len(msg) + 1] = c
      <4>1. /\ Append(msg, c) # << >> /\ Len(Append(msg, c)) = Len(msg) + 1
            /\ \A i \in 1..Len(msg) : Append(msg, c)[i] = msg[i]
            /\ Append(msg, c)[Len(msg) + 1] = c
        BY <1>1, AppendProperties
      <4>. QED  BY <3>1, <4>1
    <3>3. \/ c \in Sendable
          \/ c = "$" /\ msg # << >> /\ msg[Len(msg)] = "/"
      BY <1>4, <3>1, SendableType
    <3>4. ASSUME NEW i \in 1..Len(msg')
          PROVE  \/ msg'[i] \in Sendable
                 \/ msg'[i] = "$" /\ i > 1 /\ msg'[i - 1] = "/"
      <4>1. CASE i = Len(msg) + 1 /\ c \in Sendable
        BY <3>2, <4>1
      <4>2. CASE i = Len(msg) + 1 /\ c = "$" /\ msg # << >>
                   /\ msg[Len(msg)] = "/"
        <5>1. Len(msg) # 0
          BY <1>1, <4>2, EmptySeq
        <5>2. i > 1 /\ i - 1 = Len(msg) /\ i - 1 \in 1..Len(msg)
          BY <1>1, <4>2, <5>1
        <5>. QED  BY <3>2, <4>2, <5>2
      <4>3. CASE i \in 1..Len(msg)
        <5>1. i > 1 => i - 1 \in 1..Len(msg)
          BY <1>1, <4>3
        <5>. QED  BY <3>2, <4>3, <5>1 DEF Counting, MsgOK
      <4>4. i = Len(msg) + 1 \/ i \in 1..Len(msg)
        BY <1>1, <3>2
      <4>. QED  BY <3>3, <4>1, <4>2, <4>3, <4>4
    <3>5. MsgOK'
      BY <3>4 DEF MsgOK
    <3>6. v = "/" => c = "/"
      BY <3>1
    <3>. QED  BY <3>2, <3>5, <3>6
  <2>. QED  BY <2>1, <2>2
<1>6. CASE Go(Tail(due)) /\ cm_state' = cm_state
  <2>1. due' = Tail(due) /\ Deliver(Tail(due)) /\ UNCHANGED elements
    BY <1>6 DEF Go, Deliver
  <2>2. own' = FALSE
    BY <1>0, <2>1, OwnEnds DEF Counting
  <2>3. CountOK' /\ SilentOK' /\ TextSayable'
    BY <1>0, <1>6, <2>1, Unsaid
  <2>4. OwnOK' /\ GoesOn'
    BY <1>0, <1>2, <1>6, <2>2 DEF OwnOK, GoesOn
  <2>5. InputOK'
    BY <1>0, <1>5, <2>1, InputRest DEF Counting
  <2>. QED  BY <1>5, <2>3, <2>4, <2>5 DEF Counting
<1>7. CASE Go(<< Again >> \o Tail(due)) /\ cm_state' = "next_action"
  <2>1. /\ due' = << Again >> \o Tail(due) /\ UNCHANGED elements
        /\ Deliver(<< Again >> \o Tail(due))
    BY <1>7 DEF Go, Deliver
  <2>2. due' # << >> /\ v' = Again
    BY <1>0, <2>1, AgainDue
  <2>3. ~own'
    <3>1. own' = (own /\ << Again >> \o Tail(due) # << >>)
      BY <2>1 DEF Deliver
    <3>. QED  BY <1>2, <3>1, Zenon
  <2>4. CountOK' /\ SilentOK' /\ TextSayable'
    BY <1>0, <1>7, <2>1, Unsaid
  <2>5. OwnOK' /\ GoesOn' /\ InputOK'
    BY <1>0, <1>2, <1>7, <2>2, <2>3 DEF OwnOK, GoesOn, InputOK
  <2>. QED  BY <1>5, <2>4, <2>5 DEF Counting
<1>. QED  BY <1>6, <1>7 DEF Input

LEMMA OutputCounting ==
  ASSUME IInv, Counting, Output, ~disturbed'
  PROVE  Counting'
<1>0. /\ due # << >> /\ cm_state = "output"
      /\ cmd_bytes' = (cmd_bytes - 1) % ByteMod
      /\ UNCHANGED << msg, next_action, text >>
  BY DEF Output, Called
<1>1. own = TRUE
  <2>1. disturbed' = (disturbed \/ ~own)
    BY DEF Output
  <2>. QED  BY <2>1, Zenon DEF IInv, FlagsOK
<1>2. Len(due) = 1
  BY <1>1 DEF Counting, OwnOK
<1>3. /\ cmd_bytes = Pending + 1 /\ Pending \in Nat
      /\ cmd_bytes \in 0..(ByteMod - 1) /\ ByteMod \in Nat
      /\ Len(text) \in Nat
  <2>1. Len(text) \in Nat
    BY LenProperties DEF IInv, LineOK
  <2>. QED  BY <1>0, <1>1, <2>1, SizesAssumption
            DEF Counting, CountOK, Pending, IInv, StaticsOK
<1>4. cmd_bytes' = Pending
  <2>1. cmd_bytes - 1 = Pending /\ Pending < ByteMod
    BY <1>3
  <2>2. (cmd_bytes - 1) % ByteMod = Pending
    BY <1>3, <2>1
  <2>. QED  BY <1>0, <2>2
<1>5. CASE cmd_bytes = 1
  <2>1. /\ Go(<< Again >> \o Tail(due)) /\ cm_state' = "next_action"
    BY <1>5 DEF Output
  <2>2. /\ due' = << Again >> \o Tail(due) /\ UNCHANGED elements
        /\ Deliver(<< Again >> \o Tail(due))
    BY <2>1 DEF Go, Deliver
  <2>3. due' # << >> /\ v' = Again /\ Len(due') = 1
    BY <1>0, <1>2, <2>2, AgainDue
  <2>4. own'
    <3>1. own' = (own /\ due' # << >>)
      BY <2>2 DEF Deliver
    <3>. QED  BY <1>1, <2>3, <3>1, Zenon
  <2>5. text = << >> /\ marks # "sent" /\ marks # "mixed"
    <3>1. Len(text) = 0 /\ marks # "sent"
      BY <1>3, <1>5 DEF Pending
    <3>2. text = << >>
      BY <3>1, EmptySeq DEF IInv, LineOK
    <3>. QED  BY <3>1, <3>2 DEF Counting, SilentOK
  <2>6. text' = << >> /\ marks' # "sent" /\ marks' # "mixed"
    BY <1>0, <2>2, <2>5 DEF elements
  <2>. QED  BY <1>0, <2>1, <2>3, <2>4, <2>6 DEF Counting, CountOK, SilentOK,
            OwnOK, GoesOn, TextSayable, MsgOK, InputOK
<1>6. CASE cmd_bytes # 1
  <2>1. Go(Tail(due)) /\ cm_state' = "output"
    BY <1>0, <1>6 DEF Output
  <2>2. Deliver(Tail(due)) /\ UNCHANGED elements
    BY <2>1 DEF Go
  <2>3. own' = FALSE
    BY <1>0, <2>2, OwnEnds DEF Counting
  <2>4. UNCHANGED << marks, sending, spaced >>
    BY <2>2 DEF elements
  <2>5. CountOK'
    <3>1. Pending' = Pending
      BY <1>0, <2>4 DEF Pending
    <3>. QED  BY <1>3, <1>4, <2>3, <3>1 DEF CountOK
  <2>6. SilentOK' /\ OwnOK' /\ GoesOn' /\ MsgOK' /\ InputOK' /\ TextSayable'
    BY <1>0, <2>1, <2>3, <2>4 DEF Counting, SilentOK, OwnOK, GoesOn, MsgOK,
       InputOK, TextSayable
  <2>. QED  BY <2>5, <2>6 DEF Counting
<1>. QED  BY <1>5, <1>6

LEMMA AskCounting ==
  ASSUME IInv, Counting, NextAsk
  PROVE  Counting'
<1>0. /\ due # << >> /\ cm_state = "next_action" /\ Go(Tail(due))
      /\ cm_state' = "input" /\ msg' = << >> /\ text' = text
      /\ next_action \in {0, 2} /\ next_action' = next_action + 1
  BY DEF NextAsk, Called
<1>1. own /\ Len(due) = 1
  BY <1>0 DEF Counting, GoesOn, OwnOK
<1>2. /\ due' = Tail(due) /\ Deliver(Tail(due)) /\ UNCHANGED elements
  BY <1>0 DEF Go, Deliver
<1>3. own' = FALSE
  BY <1>0, <1>2, OwnEnds DEF Counting
<1>4. due' = << >>
  <2>1. Len(Tail(due)) = 0 /\ Tail(due) \in Seq(Chars \cup {Again})
    BY <1>0, <1>1, DueParts
  <2>. QED  BY <1>2, <2>1, EmptySeq
<1>5. CountOK' /\ SilentOK' /\ TextSayable'
  BY <1>0, <1>2, Unsaid
<1>6. OwnOK' /\ GoesOn' /\ MsgOK' /\ InputOK'
  BY <1>0, <1>3, <1>4 DEF OwnOK, GoesOn, MsgOK, InputOK
<1>. QED  BY <1>5, <1>6 DEF Counting

LEMMA OverCounting ==
  ASSUME IInv, Counting, NextDone \/ NextIdle
  PROVE  Counting'
<1>0. /\ due # << >> /\ cm_state = "next_action"
      /\ UNCHANGED << msg, next_action, text >>
  BY DEF NextDone, NextIdle, Called
<1>1. CASE NextDone
  <2>1. /\ due' = << Again >> \o Tail(due) /\ UNCHANGED elements
        /\ Deliver(<< Again >> \o Tail(due)) /\ cm_state' = "done"
    BY <1>1 DEF NextDone, Go, Deliver
  <2>2. due' # << >> /\ v' = Again /\ Len(due') = Len(due)
    BY <1>0, <2>1, AgainDue
  <2>3. own' => own
    <3>1. own' = (own /\ << Again >> \o Tail(due) # << >>)
      BY <2>1 DEF Deliver
    <3>. QED  BY <3>1, Zenon
  <2>4. CountOK' /\ SilentOK' /\ TextSayable'
    BY <1>0, <2>1, Unsaid
  <2>5. OwnOK' /\ GoesOn' /\ MsgOK' /\ InputOK'
    BY <1>0, <2>1, <2>2, <2>3 DEF Counting, OwnOK, GoesOn, MsgOK, InputOK
  <2>. QED  BY <2>4, <2>5 DEF Counting
<1>2. CASE NextIdle
  <2>1. Deliver(Tail(due)) /\ UNCHANGED elements /\ cm_state' = "idle"
    BY <1>2 DEF NextIdle, Go
  <2>2. own' = FALSE
    BY <1>0, <2>1, OwnEnds DEF Counting
  <2>3. CountOK' /\ SilentOK' /\ TextSayable'
    BY <1>0, <2>1, Unsaid
  <2>4. OwnOK' /\ GoesOn' /\ MsgOK' /\ InputOK'
    BY <1>0, <2>1, <2>2 DEF Counting, OwnOK, GoesOn, MsgOK, InputOK
  <2>. QED  BY <2>3, <2>4 DEF Counting
<1>. QED  BY <1>1, <1>2

LEMMA EchoInit == Init => EchoInv
BY DEF Init, EchoInv, Sure

(* The invariant of the count is kept. *)
LEMMA EchoStep == IInv /\ EchoInv /\ [Next]_vars => EchoInv'
<1>. SUFFICES ASSUME IInv, EchoInv, [Next]_vars, Sure' PROVE Counting'
  BY DEF EchoInv
<1>0. command_mode' /\ ~disturbed' /\ ~odd'
  BY DEF Sure
<1>1. CASE Toggle /\ Enter
  BY <1>1, EnterCounting DEF Toggle
<1>2. CASE Sure
  <2>0. Counting /\ command_mode
    BY <1>2 DEF EchoInv, Sure
  <2>1. CASE Callback
    <3>1. CASE IdlePlay \/ IdleReset \/ Done
      BY <1>0, <3>1 DEF IdlePlay, IdleReset, Done, Leave
    <3>. QED  BY <1>0, <2>0, <2>1, <3>1, OnAirCounting, IdleCounting,
              InputBackCounting, InputCounting, OutputCounting, AskCounting,
              SetCounting, RefuseCounting, MemoryCounting, RepeatCounting,
              StoreCounting, OverCounting DEF Callback
  <2>2. CASE Line
    BY <1>0, <2>0, <2>2, SendCounting, HearSentCounting, HearKeyedCounting
       DEF Line
  <2>3. CASE OperatorMarks \/ Release \/ UNCHANGED vars
    <3>1. /\ UNCHANGED << statics, text, sending, spaced, decoding >>
          /\ marks' = marks \/ (marks = "none" /\ marks' = "keyed")
      BY <2>3 DEF OperatorMarks, Release, vars, line, elements
    <3>. QED  BY <2>0, <3>1, SameCounting
  <2>4. CASE Toggle
    <3>1. ~command_mode'
      BY <1>0, <2>0, <2>4 DEF Toggle, Leave
    <3>. QED  BY <1>0, <3>1
  <2>5. CASE Hold2000 \/ Hold5000 \/ Timeout
    BY <1>0, <2>5 DEF Hold2000, Hold5000, Timeout, Leave
  <2>6. CASE Inject \/ InjectMemory
    BY <2>0, <2>6 DEF Inject, InjectMemory, IInv, OwedOK
  <2>. QED  BY <2>1, <2>2, <2>3, <2>4, <2>5, <2>6 DEF Next, Operator
<1>. QED  BY <1>1, <1>2, SureBefore DEF IInv

(* Command mode never loses count of its answer: in a command mode whose   *)
(* answers the operator has let pass, and none of which is one of those    *)
(* that are counted wrong, the characters still queued or on their way are *)
(* those command_mode_cb waits for, and there are none when it waits for   *)
(* none (cw-kbd.c:616 and 645).                                            *)
THEOREM AnswersAreCounted == Spec => []EchoCounted
<1>1. IInv /\ EchoInv => EchoCounted
  <2>. SUFFICES ASSUME IInv, EchoInv, command_mode, Free, ~disturbed, ~odd
                PROVE  Pending = IF cm_state = "output" THEN cmd_bytes ELSE 0
    BY DEF EchoCounted
  <2>1. Counting /\ due = << >>
    BY DEF EchoInv, Sure, Free
  <2>2. ~own
    BY <2>1, EmptySeq DEF Counting, OwnOK
  <2>3. Len(text) \in Nat
    BY LenProperties DEF IInv, LineOK
  <2>4. CASE cm_state = "output"
    BY <2>1, <2>2, <2>3, <2>4 DEF Counting, CountOK, Pending
  <2>5. CASE cm_state # "output"
    BY <2>1, <2>5, EmptySeq DEF Counting, SilentOK, Pending
  <2>. QED  BY <2>4, <2>5
<1>2. Spec => []EchoInv
  <2>1. Init => EchoInv
    BY EchoInit
  <2>2. IInv /\ EchoInv /\ [Next]_vars => EchoInv'
    BY EchoStep
  <2>. QED  BY <2>1, <2>2, InvariantHolds, PTL DEF Spec
<1>. QED  BY <1>1, <1>2, InvariantHolds, PTL
-------------------------------------------------------------------------------
(* The timeout. *)

Watched == wdt <=> command_mode

LEMMA WatchedStep == IInv /\ Watched /\ [Next]_vars => Watched'
<1>. SUFFICES ASSUME IInv, Watched, [Next]_vars PROVE Watched'
  OBVIOUS
<1>1. CASE wdt' = FALSE /\ command_mode' = FALSE
  BY <1>1 DEF Watched
<1>2. CASE wdt' = TRUE /\ command_mode' = TRUE
  BY <1>2 DEF Watched
<1>3. CASE UNCHANGED << wdt, command_mode >>
  BY <1>3 DEF Watched
<1>4. CASE command_mode /\ (\E rest : Go(rest))
  BY <1>4, Zenon DEF Go, Watched
<1>5. CASE Callback
  BY <1>1, <1>3, <1>4, <1>5 DEF Callback, OnAir, IdleAnswered, IdlePlay,
     IdleReset, InputBack, Input, Output, NextAsk, NextSet, NextRefuse,
     NextMemory, NextRepeat, NextStore, NextDone, NextIdle, Done, Called,
     Leave, button
<1>6. CASE Operator \/ Line \/ Timeout \/ Inject \/ InjectMemory
             \/ UNCHANGED vars
  BY <1>1, <1>2, <1>3, <1>6 DEF Operator, OperatorMarks, Toggle, Enter,
     Hold2000, Hold5000, Release, Leave, Line, Send, HearSent, HearKeyed,
     Timeout, Inject, InjectMemory, vars, button
<1>. QED  BY <1>5, <1>6 DEF Next

(* The thirty seconds run exactly in command mode: whoever enters it, any  *)
(* character that puts them off and every way out leave it so.  Command    *)
(* mode cannot wait for ever, nor the timeout clear the queues outside of  *)
(* it (cw-kbd.c:558, 921 and 935).                                         *)
THEOREM AlwaysTimed == Spec => [](wdt <=> command_mode)
<1>1. Init => Watched
  BY DEF Init, Watched
<1>2. IInv /\ Watched /\ [Next]_vars => Watched'
  BY WatchedStep
<1>3. Spec => []Watched
  BY <1>1, <1>2, InvariantHolds, PTL DEF Spec
<1>4. Watched => (wdt <=> command_mode)
  BY DEF Watched
<1>. QED  BY <1>3, <1>4, PTL
===============================================================================
