---------------------------- MODULE HidReportProofs ----------------------------
(***************************************************************************)
(* Proofs about module HidReport, for every layout and size of the queue.  *)
(***************************************************************************)
EXTENDS HidReport, SequenceTheorems, FiniteSetTheorems, TLAPS

Report == [code : Nat, shift : BOOLEAN]
Known == Chars \cup {NUL}
-------------------------------------------------------------------------------
LEMMA KeyType == \A x \in Known : Key(x) \in Report
BY KeysAssumption DEF Key, Known, NoKey, Report, NUL

LEMMA OldestType ==
  ASSUME hid_q \in Seq(Chars)
  PROVE  /\ Oldest(hid_q) \in Known
         /\ Oldest(hid_q) # NUL => /\ hid_q # << >>
                                   /\ Oldest(hid_q) = Head(hid_q)
         /\ hid_q # << >> => /\ Oldest(hid_q) = Head(hid_q)
                             /\ Head(hid_q) \in Chars
                             /\ Head(hid_q) # NUL
BY CharsAssumption, HeadTailProperties DEF Oldest, Known, NUL

LEMMA PoppedType ==
  ASSUME hid_q \in Seq(Chars), Len(hid_q) <= HidSize
  PROVE  Popped(hid_q) \in Seq(Chars) /\ Len(Popped(hid_q)) <= HidSize
<1>1. CASE hid_q = << >>
  BY <1>1 DEF Popped
<1>2. CASE hid_q # << >>
  <2>1. Tail(hid_q) \in Seq(Chars) /\ Len(Tail(hid_q)) = Len(hid_q) - 1
    BY <1>2, HeadTailProperties
  <2>2. Len(hid_q) \in Nat
    BY LenProperties
  <2>. QED  BY <1>2, <2>1, <2>2, QueueAssumption DEF Popped
<1>. QED  BY <1>1, <1>2

LEMMA PushedType ==
  ASSUME hid_q \in Seq(Chars), Len(hid_q) <= HidSize, NEW ch \in Chars
  PROVE  /\ Pushed(hid_q, ch, HidSize) \in Seq(Chars)
         /\ Len(Pushed(hid_q, ch, HidSize)) <= HidSize
         /\ Len(hid_q) # HidSize => Pushed(hid_q, ch, HidSize) = Append(hid_q, ch)
<1>0. Len(hid_q) \in Nat /\ HidSize \in Nat \ {0}
  BY LenProperties, QueueAssumption
<1>1. CASE Len(hid_q) < HidSize
  BY <1>0, <1>1, AppendProperties DEF Pushed
<1>2. CASE Len(hid_q) = HidSize
  <2>1. hid_q # << >>
    BY <1>0, <1>2, EmptySeq
  <2>2. Tail(hid_q) \in Seq(Chars) /\ Len(Tail(hid_q)) = HidSize - 1
    BY <1>2, <2>1, HeadTailProperties
  <2>3. Pushed(hid_q, ch, HidSize) = Append(Tail(hid_q), ch)
    BY <1>2 DEF Pushed
  <2>. QED  BY <1>0, <1>2, <2>2, <2>3, AppendProperties
<1>. QED  BY <1>0, <1>1, <1>2

LEMMA SendType ==
  ASSUME typed \in Seq(Report), NEW r \in Report, Send(r)
  PROVE  typed' \in Seq(Report) /\ report' \in Report
BY AppendProperties DEF Send

LEMMA TakeType ==
  ASSUME hid_q \in Seq(Chars), Len(hid_q) <= HidSize,
         taken \in Seq(Chars), due \in Seq(Report), NEW x \in Known, Take(x)
  PROVE  /\ hid_q' \in Seq(Chars) /\ Len(hid_q') <= HidSize
         /\ taken' \in Seq(Chars) /\ due' \in Seq(Report)
<1>1. Key(x) \in Report
  BY KeyType
<1>2. due' \in Seq(Report)
  BY <1>1, AppendProperties DEF Take
<1>3. taken' \in Seq(Chars)
  BY AppendProperties DEF Take, Known
<1>. QED  BY <1>2, <1>3, PoppedType DEF Take

LEMMA InitType == Init => TypeOK
<1>. SUFFICES ASSUME Init PROVE TypeOK
  OBVIOUS
<1>1. \A S : << >> \in Seq(S) /\ Len(<< >>) = 0
  BY EmptySeq
<1>2. report \in Report
  BY DEF Init, NoKey, Report
<1>3. 0 \in 0..MaxQueued /\ 0 <= HidSize
  BY QueueAssumption
<1>. QED  BY <1>1, <1>2, <1>3 DEF Init, TypeOK, Report

LEMMA NextType == TypeOK /\ [Next]_vars => TypeOK'
<1>. SUFFICES ASSUME TypeOK, [Next]_vars PROVE TypeOK'
  OBVIOUS
<1>0. /\ hid_q \in Seq(Chars) /\ Len(hid_q) <= HidSize
      /\ last_key \in Known /\ c \in Known
      /\ taken \in Seq(Chars) /\ due \in Seq(Report)
      /\ typed \in Seq(Report) /\ report \in Report
  BY DEF TypeOK, Known, Report
<1>1. ASSUME NEW ch \in Chars, hid_nq(ch) PROVE TypeOK'
  BY <1>0, <1>1, PushedType, QueueAssumption DEF hid_nq, TypeOK, main
<1>2. CASE TickReport
  <2>. DEFINE ch == Oldest(hid_q)
              press == ch \notin {NUL, last_key}
  <2>1. ch \in Known
    BY <1>0, OldestType
  <2>2. last_key' \in Known
    BY <1>2, <2>1 DEF TickReport, Known
  <2>3. Send(Key(last_key')) /\ Key(last_key') \in Report
    BY <1>2, <2>2, KeyType DEF TickReport
  <2>4. typed' \in Seq(Report) /\ report' \in Report
    BY <1>0, <2>3, SendType
  <2>5. /\ hid_q' \in Seq(Chars) /\ Len(hid_q') <= HidSize
        /\ taken' \in Seq(Chars) /\ due' \in Seq(Report)
    <3>1. CASE press
      BY <1>0, <1>2, <2>1, <3>1, TakeType DEF TickReport
    <3>2. CASE ~press
      BY <1>0, <1>2, <3>2 DEF TickReport
    <3>. QED  BY <3>1, <3>2
  <2>6. raced' \in BOOLEAN
    BY <1>2 DEF TickReport, TypeOK
  <2>. QED  BY <1>2, <2>2, <2>4, <2>5, <2>6
            DEF TickReport, TypeOK, main, Known, Report
<1>3. CASE MainPeek
  BY <1>0, <1>3, OldestType DEF MainPeek, TypeOK, Known
<1>4. CASE MainPop
  <2>1. c' \in Known
    BY <1>0, <1>4, OldestType DEF MainPop
  <2>2. /\ hid_q' \in Seq(Chars) /\ Len(hid_q') <= HidSize
        /\ taken' \in Seq(Chars) /\ due' \in Seq(Report)
    BY <1>0, <1>4, <2>1, TakeType DEF MainPop
  <2>. QED  BY <1>4, <2>1, <2>2 DEF MainPop, TypeOK, Known, Report
<1>5. CASE MainRelease
  BY <1>5 DEF MainRelease, TypeOK
<1>6. CASE MainRemember
  BY <1>6 DEF MainRemember, TypeOK
<1>7. CASE MainSend
  <2>1. Key(c) \in Report
    BY <1>0, KeyType
  <2>2. typed' \in Seq(Report) /\ report' \in Report
    BY <1>0, <1>7, <2>1, SendType DEF MainSend
  <2>. QED  BY <1>7, <2>2 DEF MainSend, TypeOK, Report
<1>8. CASE MainTest
  BY <1>8 DEF MainTest, TypeOK
<1>9. CASE UNCHANGED vars
  BY <1>9 DEF TypeOK, vars, main
<1>. QED  BY <1>1, <1>2, <1>3, <1>4, <1>5, <1>6, <1>7, <1>8, <1>9 DEF Next

(* Every variable keeps its type, whatever the layout and the interleaving.*)
THEOREM TypeCorrect == Spec => []TypeOK
BY InitType, NextType, PTL DEF Spec
-------------------------------------------------------------------------------
(* The report follows last_key, and what was typed is what was due, except *)
(* between the pop and the report of main, which makes up for it.          *)
Current == report = Key(last_key)
Caught == typed = due
Owed == due = IF Key(c).code \notin {0, report.code} THEN Append(typed, Key(c))
                                                    ELSE typed

AtRest == pc \in {"out", "peeked", "chosen"} => Current /\ Caught
AtPeeked == pc \in {"peeked", "chosen"} /\ c # NUL
              => hid_q # << >> /\ c = Head(hid_q)
AtChosen == pc = "chosen" => c \notin {NUL, last_key}
AtPopped == pc = "popped" => Current /\ Owed
AtReady == pc = "ready" => c = last_key /\ Owed
InStep == ~raced => AtRest /\ AtPeeked /\ AtChosen /\ AtPopped /\ AtReady

(* A character reported over another one is seen if it is visible.         *)
LEMMA VisibleOver ==
  ASSUME Current, NEW x \in Known, x # last_key
  PROVE  Visible(x) <=> Key(x).code \notin {0, report.code}
BY DEF Current, Visible

LEMMA InitInStep == Init => InStep
<1>. SUFFICES ASSUME Init
              PROVE  AtRest /\ AtPeeked /\ AtChosen /\ AtPopped /\ AtReady
  BY DEF InStep
<1>1. Current
  BY DEF Init, Current, Key
<1>. QED  BY <1>1
          DEF Init, AtRest, AtPeeked, AtChosen, AtPopped, AtReady, Caught

LEMMA NextInStep ==
  ASSUME TypeOK, InStep, [Next]_vars
  PROVE  InStep'
<1>. SUFFICES ASSUME ~raced'
              PROVE  AtRest' /\ AtPeeked' /\ AtChosen' /\ AtPopped' /\ AtReady'
  BY DEF InStep
<1>0. /\ hid_q \in Seq(Chars) /\ Len(hid_q) <= HidSize
      /\ last_key \in Known /\ c \in Known
      /\ pc \in {"out", "peeked", "chosen", "popped", "ready"}
      /\ raced \in BOOLEAN
  BY DEF TypeOK, Known
<1>1. ~raced
  BY <1>0 DEF Next, hid_nq, TickReport, MainPeek, MainTest, MainPop,
              MainRelease, MainRemember, MainSend, vars
<1>2. AtRest /\ AtPeeked /\ AtChosen /\ AtPopped /\ AtReady
  BY <1>1 DEF InStep
<1>3. ASSUME NEW ch \in Chars, hid_nq(ch)
      PROVE  AtRest' /\ AtPeeked' /\ AtChosen' /\ AtPopped' /\ AtReady'
  <2>1. /\ UNCHANGED << last_key, c, pc, report, due, typed >>
        /\ pc \in {"peeked", "chosen"} => hid_q' = Append(hid_q, ch)
    BY <1>0, <1>3, PushedType DEF hid_nq, main
  <2>2. pc \in {"peeked", "chosen"} /\ hid_q # << >>
        => hid_q' # << >> /\ Head(hid_q') = Head(hid_q)
    BY <1>0, <2>1, AppendProperties, HeadTailProperties, EmptySeq
  <2>3. AtPeeked'
    BY <1>2, <2>1, <2>2 DEF AtPeeked
  <2>. QED  BY <1>2, <2>1, <2>3 DEF AtRest, AtChosen, AtPopped, AtReady,
            Current, Caught, Owed
<1>4. CASE TickReport
  <2>1. pc = "out" /\ pc' = "out" /\ Current /\ Caught
    BY <1>0, <1>2, <1>4 DEF TickReport, main, AtRest
  <2>2. Current'
    BY <1>4 DEF TickReport, Send, Current
  <2>3. CASE Oldest(hid_q) \notin {NUL, last_key}
    <3>. DEFINE x == Oldest(hid_q)
    <3>1. x \in Known /\ x # last_key
      BY <1>0, <2>3, OldestType
    <3>2. Send(Key(x)) /\ Take(x)
      BY <1>4, <2>3 DEF TickReport
    <3>3. Visible(x) <=> Key(x).code \notin {0, report.code}
      BY <2>1, <3>1, VisibleOver
    <3>. HIDE DEF x
    <3>4. Caught'
      BY <2>1, <3>2, <3>3 DEF Caught, Send, Take
    <3>. QED  BY <2>1, <2>2, <3>4
              DEF AtRest, AtPeeked, AtChosen, AtPopped, AtReady
  <2>4. CASE Oldest(hid_q) \in {NUL, last_key}
    <3>1. due' = due /\ Send(Key(NUL))
      BY <1>4, <2>4 DEF TickReport
    <3>2. Caught'
      BY <2>1, <3>1 DEF Send, Key, NoKey, Caught
    <3>. QED  BY <2>1, <2>2, <3>2
              DEF AtRest, AtPeeked, AtChosen, AtPopped, AtReady
  <2>. QED  BY <2>3, <2>4
<1>5. CASE MainPeek
  BY <1>0, <1>2, <1>5, OldestType
     DEF MainPeek, AtRest, AtPeeked, AtChosen, AtPopped, AtReady, Current, Caught
<1>6. CASE MainTest
  BY <1>2, <1>6
     DEF MainTest, AtRest, AtPeeked, AtChosen, AtPopped, AtReady, Current, Caught
<1>7. CASE MainPop
  <2>1. pc = "chosen" /\ pc' = "popped" /\ Current /\ Caught
    BY <1>2, <1>7 DEF MainPop, AtRest
  <2>2. hid_q # << >> /\ c = Head(hid_q) /\ c \notin {NUL, last_key}
    BY <1>2, <2>1 DEF AtPeeked, AtChosen
  <2>3. c' = c /\ Take(c) /\ UNCHANGED << last_key, report, typed >>
    BY <1>0, <1>7, <2>2, OldestType DEF MainPop
  <2>4. Visible(c) <=> Key(c).code \notin {0, report.code}
    BY <1>0, <2>1, <2>2, VisibleOver
  <2>5. Owed'
    BY <2>1, <2>3, <2>4 DEF Owed, Caught, Take
  <2>6. Current'
    BY <2>1, <2>3 DEF Current
  <2>. QED  BY <2>1, <2>5, <2>6
            DEF AtRest, AtPeeked, AtChosen, AtPopped, AtReady
<1>8. CASE MainRelease
  <2>1. /\ pc = "peeked" /\ pc' = "popped" /\ c' = NUL /\ Current /\ Caught
        /\ UNCHANGED << last_key, report, due, typed >>
    BY <1>2, <1>8 DEF MainRelease, AtRest
  <2>2. Current' /\ Owed'
    BY <2>1 DEF Current, Caught, Owed, Key, NoKey
  <2>. QED  BY <2>1, <2>2 DEF AtRest, AtPeeked, AtChosen, AtPopped, AtReady
<1>9. CASE MainRemember
  BY <1>2, <1>9 DEF MainRemember, AtRest, AtPeeked, AtChosen, AtPopped, AtReady,
                    Owed
<1>10. CASE MainSend
  <2>1. /\ pc = "ready" /\ pc' = "out" /\ Send(Key(c)) /\ c = last_key /\ Owed
        /\ UNCHANGED << last_key, due >>
    BY <1>2, <1>10 DEF MainSend, AtReady
  <2>2. Current' /\ Caught'
    BY <2>1 DEF Current, Caught, Owed, Send
  <2>. QED  BY <2>1, <2>2 DEF AtRest, AtPeeked, AtChosen, AtPopped, AtReady
<1>11. CASE UNCHANGED vars
  BY <1>2, <1>11 DEF vars, main, AtRest, AtPeeked, AtChosen, AtPopped, AtReady,
                     Current, Caught, Owed
<1>. QED  BY <1>3, <1>4, <1>5, <1>6, <1>7, <1>8, <1>9, <1>10, <1>11 DEF Next

(* For every layout, shared keys and characters without one included, and  *)
(* every size of the queue: outside a race the host misses only characters *)
(* that have no key, or that share one with the other character reported   *)
(* right before, and sees all the rest once and in order.                  *)
THEOREM KeysInOrder == Spec => []AllTyped
<1>1. TypeOK /\ InStep /\ [Next]_vars => InStep'
  BY NextInStep
<1>2. InStep => AllTyped
  BY DEF InStep, AtRest, Caught, AllTyped
<1>. QED  BY <1>1, <1>2, InitInStep, TypeCorrect, PTL DEF Spec
-------------------------------------------------------------------------------
(* What main has taken from the queue and not reported yet. *)
Due(k) == IF pc \in {"popped", "ready"} /\ c # NUL /\ Key(c) = k THEN 1 ELSE 0

PaidOnce ==
  \A k \in {Key(ch) : ch \in Chars} :
    Times(typed, k) + Due(k) <= Times(Keys(taken), k)

LEMMA KeysAppend ==
  ASSUME NEW s \in Seq(Chars), NEW x \in Chars
  PROVE  Keys(Append(s, x)) = Append(Keys(s), Key(x))
<1>1. /\ Append(s, x) \in Seq(Chars)
      /\ Len(Append(s, x)) = Len(s) + 1
      /\ \A i \in 1..Len(s) : Append(s, x)[i] = s[i]
      /\ Append(s, x)[Len(s) + 1] = x
  BY AppendProperties
<1>2. /\ DOMAIN s = 1..Len(s)
      /\ Len(s) \in Nat
      /\ \A i \in 1..Len(s) : s[i] \in Chars
  BY LenProperties, ElementOfSeq
<1>3. Keys(s) \in Seq(Report) /\ Len(Keys(s)) = Len(s)
  <2>1. Keys(s) \in [1..Len(s) -> Report]
    BY <1>2, KeyType DEF Keys, Known
  <2>2. Keys(s) \in Seq(Report)
    BY <1>2, <2>1, SeqDef
  <2>. QED  BY <1>2, <2>1, <2>2, LenProperties
<1>4. DOMAIN Append(s, x) = 1..(Len(s) + 1)
  BY <1>1, LenProperties
<1>5. Key(x) \in Report
  BY KeyType DEF Known
<1>6. /\ Append(Keys(s), Key(x)) \in Seq(Report)
      /\ Len(Append(Keys(s), Key(x))) = Len(s) + 1
      /\ \A i \in 1..Len(s) : Append(Keys(s), Key(x))[i] = Keys(s)[i]
      /\ Append(Keys(s), Key(x))[Len(s) + 1] = Key(x)
  BY <1>3, <1>5, AppendProperties
<1>7. Keys(Append(s, x)) \in Seq(Report)
      /\ Len(Keys(Append(s, x))) = Len(s) + 1
  <2>1. Keys(Append(s, x)) \in [1..(Len(s) + 1) -> Report]
    BY <1>1, <1>4, KeyType, ElementOfSeq DEF Keys, Known
  <2>2. Keys(Append(s, x)) \in Seq(Report)
    BY <1>2, <2>1, SeqDef
  <2>. QED  BY <1>2, <2>1, <2>2, LenProperties
<1>8. \A i \in 1..(Len(s) + 1) :
        Keys(Append(s, x))[i] = Append(Keys(s), Key(x))[i]
  <2>. SUFFICES ASSUME NEW i \in 1..(Len(s) + 1)
                PROVE  Keys(Append(s, x))[i] = Append(Keys(s), Key(x))[i]
    OBVIOUS
  <2>1. Keys(Append(s, x))[i] = Key(Append(s, x)[i])
    BY <1>4 DEF Keys
  <2>2. CASE i \in 1..Len(s)
    <3>1. Keys(s)[i] = Key(s[i])
      BY <1>2, <2>2 DEF Keys
    <3>. QED  BY <1>1, <1>6, <2>1, <2>2, <3>1
  <2>3. CASE i = Len(s) + 1
    BY <1>1, <1>6, <2>1, <2>3
  <2>4. i \in 1..Len(s) \/ i = Len(s) + 1
    <3>1. Len(s) \in Nat
      BY <1>2
    <3>. QED  BY <3>1
  <2>. QED  BY <2>2, <2>3, <2>4
<1>. QED  BY <1>6, <1>7, <1>8, SeqEqual

LEMMA TimesAppend ==
  ASSUME NEW S, NEW s \in Seq(S), NEW y \in S, NEW x
  PROVE  /\ Times(s, x) \in Nat
         /\ Times(Append(s, y), x)
              = IF y = x THEN Times(s, x) + 1 ELSE Times(s, x)
<1>. DEFINE n == Len(s)
            T == {i \in DOMAIN s : s[i] = x}
            U == {i \in DOMAIN Append(s, y) : Append(s, y)[i] = x}
<1>1. n \in Nat /\ DOMAIN s = 1..n
  BY LenProperties
<1>2. /\ Append(s, y) \in Seq(S) /\ Len(Append(s, y)) = n + 1
      /\ \A i \in 1..n : Append(s, y)[i] = s[i]
      /\ Append(s, y)[n + 1] = y
  BY AppendProperties
<1>3. DOMAIN Append(s, y) = 1..(n + 1)
  BY <1>2, LenProperties
<1>4. U = IF y = x THEN T \cup {n + 1} ELSE T
  BY <1>1, <1>2, <1>3
<1>5. T \in SUBSET (1..n) /\ n + 1 \notin T
  BY <1>1
<1>6. IsFiniteSet(T) /\ Cardinality(T) \in Nat
  <2>1. IsFiniteSet(1..n)
    BY <1>1, FS_Interval
  <2>2. IsFiniteSet(T)
    BY <1>5, <2>1, FS_Subset
  <2>. QED  BY <2>2, FS_CardinalityType
<1>7. Cardinality(T \cup {n + 1}) = Cardinality(T) + 1
  BY <1>5, <1>6, FS_AddElement
<1>. HIDE DEF n, T, U
<1>8. Cardinality(U) = IF y = x THEN Cardinality(T) + 1 ELSE Cardinality(T)
  BY <1>4, <1>7
<1>. QED  BY <1>6, <1>8 DEF Times, T, U

LEMMA KeysType ==
  ASSUME NEW s \in Seq(Chars)
  PROVE  Keys(s) \in Seq(Report)
<1>1. /\ DOMAIN s = 1..Len(s) /\ Len(s) \in Nat
      /\ \A i \in 1..Len(s) : s[i] \in Chars
  BY LenProperties, ElementOfSeq
<1>2. Keys(s) \in [1..Len(s) -> Report]
  BY <1>1, KeyType DEF Keys, Known
<1>. QED  BY <1>1, <1>2, SeqDef

(* A report types its key once at most.                                    *)
LEMMA SendTimes ==
  ASSUME typed \in Seq(Report), NEW x \in Known, Send(Key(x)), NEW k \in Report
  PROVE  /\ Times(typed, k) \in Nat /\ Times(typed', k) \in Nat
         /\ Times(typed', k)
              <= Times(typed, k) + IF x # NUL /\ Key(x) = k THEN 1 ELSE 0
<1>1. Key(x) \in Report
  BY KeyType
<1>2. typed' = typed \/ (x # NUL /\ typed' = Append(typed, Key(x)))
  BY DEF Send, Key, NoKey
<1>3. /\ Times(typed, k) \in Nat
      /\ Times(Append(typed, Key(x)), k)
           = IF Key(x) = k THEN Times(typed, k) + 1 ELSE Times(typed, k)
  BY <1>1, TimesAppend
<1>4. CASE typed' = typed
  BY <1>3, <1>4
<1>5. CASE x # NUL /\ typed' = Append(typed, Key(x))
  BY <1>3, <1>5
<1>. QED  BY <1>2, <1>4, <1>5

(* A character taken is one more of its key.                               *)
LEMMA TakenTimes ==
  ASSUME taken \in Seq(Chars), NEW x \in Known, NEW k \in Report, Take(x)
  PROVE  /\ Times(Keys(taken), k) \in Nat
         /\ Times(Keys(taken'), k) = Times(Keys(taken), k)
                                + IF x # NUL /\ Key(x) = k THEN 1 ELSE 0
<1>1. Keys(taken) \in Seq(Report) /\ Key(x) \in Report
  BY KeysType, KeyType
<1>2. /\ Times(Keys(taken), k) \in Nat
      /\ Times(Append(Keys(taken), Key(x)), k)
           = IF Key(x) = k THEN Times(Keys(taken), k) + 1
                           ELSE Times(Keys(taken), k)
  BY <1>1, TimesAppend
<1>3. CASE x = NUL
  BY <1>2, <1>3 DEF Take
<1>4. CASE x # NUL
  <2>1. x \in Chars /\ taken' = Append(taken, x)
    BY <1>4 DEF Take, Known
  <2>2. Keys(taken') = Append(Keys(taken), Key(x))
    BY <2>1, KeysAppend
  <2>. QED  BY <1>2, <1>4, <2>2
<1>. QED  BY <1>3, <1>4

LEMMA InitPaid == Init => PaidOnce
<1>. SUFFICES ASSUME Init, NEW k \in {Key(ch) : ch \in Chars}
              PROVE  Times(typed, k) + Due(k) <= Times(Keys(taken), k)
  BY DEF PaidOnce
<1>1. typed = << >> /\ Keys(taken) = << >> /\ Due(k) = 0
  BY DEF Init, Keys, Due
<1>2. k \in Report
  BY KeyType DEF Known
<1>3. Times(<< >>, k) \in Nat
  BY <1>2, EmptySeq, TimesAppend
<1>. QED  BY <1>1, <1>3

LEMMA NextPaid ==
  ASSUME TypeOK, PaidOnce, [Next]_vars
  PROVE  PaidOnce'
<1>. SUFFICES ASSUME NEW k \in {Key(ch) : ch \in Chars}
              PROVE  Times(typed', k) + Due(k)' <= Times(Keys(taken'), k)
  BY DEF PaidOnce
<1>0. /\ hid_q \in Seq(Chars) /\ last_key \in Known /\ c \in Known
      /\ taken \in Seq(Chars) /\ typed \in Seq(Report) /\ k \in Report
      /\ pc \in {"out", "peeked", "chosen", "popped", "ready"}
  BY KeyType DEF TypeOK, Known, Report
<1>1. /\ Times(typed, k) \in Nat /\ Times(Keys(taken), k) \in Nat
      /\ Due(k) \in {0, 1}
      /\ Times(typed, k) + Due(k) <= Times(Keys(taken), k)
  <2>2. Times(typed, k) \in Nat
    BY <1>0, TimesAppend
  <2>3. Times(Keys(taken), k) \in Nat
    BY <1>0, KeysType, TimesAppend
  <2>. QED  BY <2>2, <2>3 DEF PaidOnce, Due
<1>2. CASE UNCHANGED << main, taken, typed >>
  BY <1>1, <1>2 DEF Due, main
<1>3. CASE TickReport
  <2>. DEFINE ch    == Oldest(hid_q)
              press == ch \notin {NUL, last_key}
  <2>1. ch \in Known
    BY <1>0, OldestType
  <2>2. Due(k)' = Due(k)
    BY <1>3 DEF TickReport, Due, main
  <2>3. CASE press
    <3>1. Send(Key(ch)) /\ Take(ch)
      BY <1>3, <2>3 DEF TickReport
    <3>2. /\ Times(typed', k) \in Nat
          /\ Times(typed', k)
               <= Times(typed, k) + IF ch # NUL /\ Key(ch) = k THEN 1 ELSE 0
      BY <1>0, <2>1, <3>1, SendTimes
    <3>3. Times(Keys(taken'), k) = Times(Keys(taken), k)
                                 + IF ch # NUL /\ Key(ch) = k THEN 1 ELSE 0
      BY <1>0, <2>1, <3>1, TakenTimes
    <3>. HIDE DEF ch, press
    <3>. QED  BY <1>1, <2>2, <3>2, <3>3
  <2>4. CASE ~press
    <3>1. Send(Key(NUL)) /\ taken' = taken
      BY <1>3, <2>4 DEF TickReport
    <3>2. typed' = typed
      BY <3>1 DEF Send, Key, NoKey
    <3>. HIDE DEF ch, press
    <3>. QED  BY <1>1, <2>2, <3>1, <3>2
  <2>. QED  BY <2>3, <2>4
<1>4. CASE MainPeek \/ MainTest
  BY <1>1, <1>4 DEF MainPeek, MainTest, Due
<1>5. CASE MainPop
  <2>1. c' \in Known
    BY <1>0, <1>5, OldestType DEF MainPop
  <2>2. Due(k) = 0 /\ Due(k)' = IF c' # NUL /\ Key(c') = k THEN 1 ELSE 0
    BY <1>5 DEF MainPop, Due, Key
  <2>3. Times(Keys(taken'), k) = Times(Keys(taken), k)
                               + IF c' # NUL /\ Key(c') = k THEN 1 ELSE 0
    BY <1>0, <1>5, <2>1, TakenTimes DEF MainPop
  <2>. QED  BY <1>1, <1>5, <2>2, <2>3 DEF MainPop
<1>6. CASE MainRelease
  BY <1>1, <1>6 DEF MainRelease, Due
<1>7. CASE MainRemember
  BY <1>1, <1>7 DEF MainRemember, Due
<1>8. CASE MainSend
  <2>1. Due(k) = (IF c # NUL /\ Key(c) = k THEN 1 ELSE 0) /\ Due(k)' = 0
    BY <1>8 DEF MainSend, Due
  <2>2. /\ Times(typed', k) \in Nat
        /\ Times(typed', k)
             <= Times(typed, k) + IF c # NUL /\ Key(c) = k THEN 1 ELSE 0
    BY <1>0, <1>8, SendTimes DEF MainSend
  <2>. QED  BY <1>1, <1>8, <2>1, <2>2 DEF MainSend
<1>. QED  BY <1>2, <1>3, <1>4, <1>5, <1>6, <1>7, <1>8
          DEF Next, vars, hid_nq, main

(* Whatever keys the characters have, and wherever a handler gets into a   *)
(* report of main, the host sees no key pressed more often than characters *)
(* of that key were taken from the queue.                                  *)
THEOREM TypedOnce == Spec => []NothingTwice
<1>1. TypeOK /\ PaidOnce => NothingTwice
  <2>. SUFFICES ASSUME TypeOK, PaidOnce, NEW k \in {Key(ch) : ch \in Chars}
                PROVE  Times(typed, k) <= Times(Keys(taken), k)
    BY DEF NothingTwice
  <2>0. taken \in Seq(Chars) /\ typed \in Seq(Report) /\ k \in Report /\ NUL \in Known
    BY KeyType DEF TypeOK, Known, Report
  <2>1. Times(typed, k) \in Nat /\ Times(Keys(taken), k) \in Nat
    BY <2>0, KeysType, TimesAppend
  <2>2. Times(typed, k) + Due(k) <= Times(Keys(taken), k) /\ Due(k) \in {0, 1}
    BY DEF PaidOnce, Due
  <2>. QED  BY <2>1, <2>2
<1>2. TypeOK /\ PaidOnce /\ [Next]_vars => PaidOnce'
  BY NextPaid
<1>. QED  BY <1>1, <1>2, InitPaid, TypeCorrect, PTL DEF Spec
===============================================================================
