--------------------------- MODULE RingBufferProofs ---------------------------
(***************************************************************************)
(* Proofs about module RingBuffer, for every ring size and every set of    *)
(* bytes: the fields keep their types, the indexes never drift apart, and  *)
(* the ring implements the lossy FIFO of module LossyQueue.                *)
(***************************************************************************)
EXTENDS RingBuffer, SequenceTheorems, TLAPS

IInv == TypeOK /\ IndexesAgree

Bytes == Values \cup {0}

-------------------------------------------------------------------------------
(* Popped, Oldest and Pushed, read element by element. *)
LEMMA PoppedElements ==
  ASSUME NEW S, NEW s \in Seq(S), s # << >>
  PROVE  /\ Popped(s) \in Seq(S)
         /\ Len(Popped(s)) = Len(s) - 1
         /\ \A i \in 1..(Len(s) - 1) : Popped(s)[i] = s[i + 1]
         /\ Oldest(s) = s[1]
BY HeadTailProperties DEF Popped, Oldest

LEMMA PushedWithRoom ==
  ASSUME NEW S, NEW s \in Seq(S), NEW v \in S, NEW cap, Len(s) < cap
  PROVE  /\ Pushed(s, v, cap) \in Seq(S)
         /\ Len(Pushed(s, v, cap)) = Len(s) + 1
         /\ \A i \in 1..Len(s) : Pushed(s, v, cap)[i] = s[i]
         /\ Pushed(s, v, cap)[Len(s) + 1] = v
<1>1. Pushed(s, v, cap) = Append(s, v)
  BY DEF Pushed
<1>. QED  BY <1>1, AppendProperties

LEMMA PushedWhenFull ==
  ASSUME NEW S, NEW s \in Seq(S), NEW v \in S, s # << >>
  PROVE  /\ Pushed(s, v, Len(s)) \in Seq(S)
         /\ Len(Pushed(s, v, Len(s))) = Len(s)
         /\ \A i \in 1..(Len(s) - 1) : Pushed(s, v, Len(s))[i] = s[i + 1]
         /\ Pushed(s, v, Len(s))[Len(s)] = v
<1>1. Pushed(s, v, Len(s)) = Append(Tail(s), v)
  BY LenProperties DEF Pushed
<1>2. /\ Tail(s) \in Seq(S)
      /\ Len(Tail(s)) = Len(s) - 1
      /\ \A i \in 1..(Len(s) - 1) : Tail(s)[i] = s[i + 1]
  BY HeadTailProperties
<1>3. Len(s) \in Nat \ {0}
  BY LenProperties, EmptySeq
<1>. QED  BY <1>1, <1>2, <1>3, AppendProperties

(* The n bytes of a ring f from slot s on form a sequence of length n. *)
LEMMA WindowElements ==
  ASSUME NEW f \in [Slots -> Bytes], NEW s \in Slots, NEW n \in 0..Size
  PROVE  LET w == [i \in 1..n |-> f[Slot(s, i - 1)]]
         IN  /\ w \in Seq(Bytes)
             /\ Len(w) = n
             /\ \A i \in 1..n : w[i] = f[Slot(s, i - 1)]
<1>. DEFINE w == [i \in 1..n |-> f[Slot(s, i - 1)]]
<1>1. \A i \in 1..n : Slot(s, i - 1) \in Slots
  BY SizeAssumption DEF Slot, Slots
<1>2. w \in [1..n -> Bytes]
  BY <1>1
<1>3. n \in Nat
  BY SizeAssumption
<1>4. w \in Seq(Bytes)
  BY <1>2, <1>3, SeqDef
<1>5. Len(w) = n
  BY <1>2, <1>3, <1>4, LenProperties
<1>. QED  BY <1>4, <1>5

(* Moving the read index on shifts the ring's places by one. *)
LEMMA BumpSlot ==
  ASSUME NEW s \in Slots, NEW k \in 1..Size
  PROVE  Slot(Bump(s), k - 1) = Slot(s, k)
BY SizeAssumption DEF Slot, Slots, Bump

LEMMA ContentsElements ==
  ASSUME TypeOK
  PROVE  /\ Contents \in Seq(Bytes)
         /\ Len(Contents) = count
         /\ \A i \in 1..count : Contents[i] = q[Slot(out, i - 1)]
BY WindowElements DEF TypeOK, Contents, Bytes

LEMMA ContentsElementsAfter ==
  ASSUME TypeOK'
  PROVE  /\ Contents' \in Seq(Bytes)
         /\ Len(Contents') = count'
         /\ \A i \in 1..count' : Contents'[i] = q'[Slot(out', i - 1)]
BY WindowElements DEF TypeOK, Contents, Bytes
-------------------------------------------------------------------------------
LEMMA InitInvariant == Init => IInv
BY SizeAssumption DEF Init, IInv, TypeOK, IndexesAgree, Slots, Slot

LEMMA PushInvariant ==
  ASSUME IInv, NEW v \in Values, Push(v)
  PROVE  IInv'
<1>1. (count + 1) % 256 = count + 1
  BY SizeAssumption DEF IInv, TypeOK
<1>2. /\ q' = [q EXCEPT ![in] = v]
      /\ in' = Bump(in)
      /\ count' = IF count = Size THEN Size ELSE count + 1
      /\ out' = IF count = Size THEN Bump(out) ELSE out
      /\ result' = result
  BY <1>1, SizeAssumption DEF Push, IInv, TypeOK
<1>3. TypeOK'
  BY <1>2, SizeAssumption DEF IInv, TypeOK, Bump, Slots
<1>4. IndexesAgree'
  BY <1>2, SizeAssumption DEF IInv, TypeOK, IndexesAgree, Bump, Slots, Slot
<1>. QED  BY <1>3, <1>4 DEF IInv

LEMMA PopInvariant ==
  ASSUME IInv, PopSome
  PROVE  IInv'
<1>1. q[out] \in Values \cup {0}
  BY DEF IInv, TypeOK
<1>2. TypeOK'
  BY <1>1, SizeAssumption DEF IInv, TypeOK, PopSome, Bump, Slots
<1>3. IndexesAgree'
  BY SizeAssumption DEF IInv, TypeOK, IndexesAgree, PopSome, Bump, Slots, Slot
<1>. QED  BY <1>2, <1>3 DEF IInv

LEMMA NextInvariant == IInv /\ [Next]_vars => IInv'
<1>. SUFFICES ASSUME IInv, [Next]_vars
              PROVE  IInv'
  OBVIOUS
<1>1. ASSUME NEW v \in Values, Push(v)
      PROVE  IInv'
  BY <1>1, PushInvariant
<1>2. CASE PopSome
  BY <1>2, PopInvariant
<1>3. CASE PopNone
  BY <1>3, SizeAssumption
     DEF PopNone, IInv, TypeOK, IndexesAgree, Slots, Slot
<1>4. CASE Peek
  BY <1>4, SizeAssumption
     DEF Peek, IInv, TypeOK, IndexesAgree, Slots, Slot
<1>5. CASE Clear
  BY <1>5, SizeAssumption
     DEF Clear, IInv, TypeOK, IndexesAgree, Slots, Slot
<1>6. CASE UNCHANGED vars
  BY <1>6 DEF vars, IInv, TypeOK, IndexesAgree, Slots, Slot
<1>. QED  BY <1>1, <1>2, <1>3, <1>4, <1>5, <1>6 DEF Next, Pop

(* The fields of a ring keep the ranges ringbuffer.h gives them. *)
THEOREM TypeCorrect == Spec => []TypeOK
<1>1. IInv => TypeOK
  BY DEF IInv
<1>. QED  BY <1>1, InitInvariant, NextInvariant, PTL DEF Spec

(* Whatever the size and the calls, the write index stays count places     *)
(* after the read index.                                                   *)
THEOREM IndexesNeverDrift == Spec => []IndexesAgree
<1>1. IInv => IndexesAgree
  BY DEF IInv
<1>. QED  BY <1>1, InitInvariant, NextInvariant, PTL DEF Spec

-------------------------------------------------------------------------------
LEMMA InitImplements == Init => Abstract!Init
<1>. SUFFICES ASSUME Init
              PROVE  Contents = << >> /\ result = 0
  BY DEF Abstract!Init
<1>1. TypeOK
  BY InitInvariant DEF IInv
<1>2. Contents \in Seq(Bytes) /\ Len(Contents) = 0
  BY <1>1, ContentsElements DEF Init
<1>. QED  BY <1>2, EmptySeq DEF Init

LEMMA PushImplements ==
  ASSUME IInv, IInv', NEW v \in Values, Push(v)
  PROVE  Abstract!Put(v)
<1>1. (count + 1) % 256 = count + 1
  BY SizeAssumption DEF IInv, TypeOK
<1>2. /\ q' = [q EXCEPT ![in] = v]
      /\ count' = IF count = Size THEN Size ELSE count + 1
      /\ out' = IF count = Size THEN Bump(out) ELSE out
      /\ result' = result
  BY <1>1, SizeAssumption DEF Push, IInv, TypeOK
<1>3. /\ Contents \in Seq(Bytes)
      /\ Len(Contents) = count
      /\ \A i \in 1..count : Contents[i] = q[Slot(out, i - 1)]
  BY ContentsElements DEF IInv
<1>4. /\ Contents' \in Seq(Bytes)
      /\ Len(Contents') = count'
      /\ \A i \in 1..count' : Contents'[i] = q'[Slot(out', i - 1)]
  BY ContentsElementsAfter DEF IInv
<1>5. v \in Bytes
  BY DEF Bytes
<1>6. Contents' = Pushed(Contents, v, Size)
  <2>1. CASE count < Size
    <3>1. /\ Pushed(Contents, v, Size) \in Seq(Bytes)
          /\ Len(Pushed(Contents, v, Size)) = count + 1
          /\ \A i \in 1..count : Pushed(Contents, v, Size)[i] = Contents[i]
          /\ Pushed(Contents, v, Size)[count + 1] = v
      <4>1. Len(Contents) < Size
        BY <1>3, <2>1
      <4>2. /\ Pushed(Contents, v, Size) \in Seq(Bytes)
            /\ Len(Pushed(Contents, v, Size)) = Len(Contents) + 1
            /\ \A i \in 1..Len(Contents) :
                 Pushed(Contents, v, Size)[i] = Contents[i]
            /\ Pushed(Contents, v, Size)[Len(Contents) + 1] = v
        BY <1>3, <1>5, <4>1, PushedWithRoom
      <4>. QED  BY <1>3, <4>2
    <3>2. count' = count + 1 /\ out' = out
      BY <1>2, <2>1, SizeAssumption DEF IInv, TypeOK
    <3>3. \A i \in 1..count : Contents'[i] = q[Slot(out, i - 1)]
      <4>. SUFFICES ASSUME NEW i \in 1..count
                    PROVE  Contents'[i] = q[Slot(out, i - 1)]
        OBVIOUS
      <4>1. Slot(out', i - 1) = Slot(out, i - 1)
        BY <3>2 DEF Slot
      <4>2. Slot(out, i - 1) \in Slots /\ Slot(out, i - 1) # in
        BY <2>1, SizeAssumption DEF IInv, TypeOK, IndexesAgree, Slot, Slots
      <4>3. q'[Slot(out, i - 1)] = q[Slot(out, i - 1)]
        BY <1>2, <4>2 DEF IInv, TypeOK
      <4>. QED  BY <1>4, <3>2, <4>1, <4>3, SizeAssumption DEF IInv, TypeOK
    <3>4. Contents'[count + 1] = v
      <4>1. Slot(out', count) = in
        BY <3>2 DEF IInv, IndexesAgree, Slot
      <4>2. Contents'[count + 1] = q'[Slot(out', count)]
        BY <1>4, <3>2, SizeAssumption DEF IInv, TypeOK, Slot
      <4>. QED  BY <1>2, <4>1, <4>2 DEF IInv, TypeOK
    <3>5. \A i \in 1..Len(Contents') :
            Contents'[i] = Pushed(Contents, v, Size)[i]
      BY <1>3, <1>4, <3>1, <3>2, <3>3, <3>4, SizeAssumption DEF IInv, TypeOK
    <3>. QED  BY <1>4, <3>1, <3>2, <3>5, SeqEqual
  <2>2. CASE count = Size
    <3>1. /\ Pushed(Contents, v, Size) \in Seq(Bytes)
          /\ Len(Pushed(Contents, v, Size)) = Size
          /\ \A i \in 1..(Size - 1) :
               Pushed(Contents, v, Size)[i] = Contents[i + 1]
          /\ Pushed(Contents, v, Size)[Size] = v
      <4>1. Len(Contents) = Size
        BY <1>3, <2>2
      <4>2. Contents # << >>
        BY <1>3, <4>1, SizeAssumption, EmptySeq
      <4>3. /\ Pushed(Contents, v, Len(Contents)) \in Seq(Bytes)
            /\ Len(Pushed(Contents, v, Len(Contents))) = Len(Contents)
            /\ \A i \in 1..(Len(Contents) - 1) :
                 Pushed(Contents, v, Len(Contents))[i] = Contents[i + 1]
            /\ Pushed(Contents, v, Len(Contents))[Len(Contents)] = v
        BY <1>3, <1>5, <4>2, PushedWhenFull
      <4>. QED  BY <4>1, <4>3
    <3>2. count' = Size /\ out' = Bump(out) /\ in = out
      BY <1>2, <2>2, SizeAssumption DEF IInv, TypeOK, IndexesAgree, Slot, Slots
    <3>3. \A i \in 1..(Size - 1) : Contents'[i] = q[Slot(out, i)]
      <4>. SUFFICES ASSUME NEW i \in 1..(Size - 1)
                    PROVE  Contents'[i] = q[Slot(out, i)]
        OBVIOUS
      <4>1. Slot(out', i - 1) = Slot(out, i)
        BY <3>2, SizeAssumption, BumpSlot DEF IInv, TypeOK
      <4>2. Slot(out, i) \in Slots /\ Slot(out, i) # in
        BY <3>2, SizeAssumption DEF IInv, TypeOK, Slot, Slots
      <4>3. q'[Slot(out, i)] = q[Slot(out, i)]
        BY <1>2, <4>2 DEF IInv, TypeOK
      <4>. QED  BY <1>4, <3>2, <4>1, <4>3, SizeAssumption
    <3>4. Contents'[Size] = v
      <4>1. Slot(out', Size - 1) = in
        BY <3>2, SizeAssumption DEF IInv, TypeOK, Slot, Bump, Slots
      <4>2. Contents'[Size] = q'[Slot(out', Size - 1)]
        BY <1>4, <3>2, SizeAssumption
      <4>. QED  BY <1>2, <4>1, <4>2 DEF IInv, TypeOK
    <3>5. \A i \in 1..Len(Contents') :
            Contents'[i] = Pushed(Contents, v, Size)[i]
      <4>1. \A i \in 1..(Size - 1) : Contents[i + 1] = q[Slot(out, i)]
        BY <1>3, <2>2, SizeAssumption
      <4>. QED  BY <1>4, <3>1, <3>2, <3>3, <3>4, <4>1, SizeAssumption
    <3>. QED  BY <1>4, <3>1, <3>2, <3>5, SeqEqual
  <2>. QED  BY <2>1, <2>2, SizeAssumption DEF IInv, TypeOK
<1>. QED  BY <1>2, <1>6 DEF Abstract!Put, Abstract!Pushed, Pushed

LEMMA PopImplements ==
  ASSUME IInv, IInv', PopSome
  PROVE  Abstract!Get
<1>1. /\ Contents \in Seq(Bytes)
      /\ Len(Contents) = count
      /\ \A i \in 1..count : Contents[i] = q[Slot(out, i - 1)]
  BY ContentsElements DEF IInv
<1>2. /\ Contents' \in Seq(Bytes)
      /\ Len(Contents') = count'
      /\ \A i \in 1..count' : Contents'[i] = q'[Slot(out', i - 1)]
  BY ContentsElementsAfter DEF IInv
<1>3. Contents # << >>
  BY <1>1, EmptySeq DEF PopSome
<1>4. /\ Popped(Contents) \in Seq(Bytes)
      /\ Len(Popped(Contents)) = count - 1
      /\ \A i \in 1..(count - 1) : Popped(Contents)[i] = Contents[i + 1]
      /\ Oldest(Contents) = Contents[1]
  BY <1>1, <1>3, PoppedElements
<1>5. \A i \in 1..(count - 1) : Contents'[i] = Contents[i + 1]
  <2>. SUFFICES ASSUME NEW i \in 1..(count - 1)
                PROVE  Contents'[i] = Contents[i + 1]
    OBVIOUS
  <2>1. Slot(out', i - 1) = Slot(out, i)
    <3>1. out \in Slots /\ out' = Bump(out) /\ i \in 1..Size
      BY SizeAssumption DEF PopSome, IInv, TypeOK
    <3>. QED  BY <3>1, BumpSlot
  <2>2. Contents'[i] = q[Slot(out, i)]
    BY <1>2, <2>1, SizeAssumption DEF PopSome, IInv, TypeOK
  <2>3. Contents[i + 1] = q[Slot(out, i)]
    BY <1>1, SizeAssumption DEF IInv, TypeOK
  <2>. QED  BY <2>2, <2>3
<1>6. Contents' = Popped(Contents)
  <2>1. Len(Contents') = count - 1
    BY <1>2 DEF PopSome
  <2>. QED  BY <1>2, <1>4, <1>5, <2>1, SeqEqual
<1>7. result' = Oldest(Contents)
  <2>1. Slot(out, 0) = out
    BY SizeAssumption DEF IInv, TypeOK, Slot, Slots
  <2>2. 1 \in 1..count
    BY SizeAssumption DEF PopSome, IInv, TypeOK
  <2>3. Contents[1] = q[Slot(out, 0)]
    BY <1>1, <2>2
  <2>. QED  BY <1>4, <2>1, <2>3 DEF PopSome
<1>. QED  BY <1>6, <1>7 DEF Abstract!Get, Abstract!Popped, Popped,
                            Abstract!Oldest, Oldest

LEMMA NextImplements == IInv /\ IInv' /\ [Next]_vars => [Abstract!Next]_(Abstract!vars)
<1>. SUFFICES ASSUME IInv, IInv', [Next]_vars
              PROVE  [Abstract!Next]_(Abstract!vars)
  OBVIOUS
<1>0. /\ Contents \in Seq(Bytes)
      /\ Len(Contents) = count
  BY ContentsElements DEF IInv
<1>1. ASSUME NEW v \in Values, Push(v)
      PROVE  Abstract!Next
  BY <1>1, PushImplements DEF Abstract!Next
<1>2. CASE PopSome
  BY <1>2, PopImplements DEF Abstract!Next
<1>3. CASE PopNone
  <2>1. Contents' = Contents
    BY <1>3 DEF PopNone, Contents
  <2>2. Contents = << >>
    BY <1>0, <1>3, EmptySeq DEF PopNone
  <2>3. Abstract!Get
    BY <1>3, <2>1, <2>2
       DEF PopNone, Abstract!Get, Abstract!Popped, Abstract!Oldest
  <2>. QED  BY <2>3 DEF Abstract!Next
<1>4. CASE Peek
  <2>1. Contents' = Contents
    BY <1>4 DEF Peek, Contents
  <2>2. result' = Oldest(Contents)
    <3>1. CASE count > 0
      <4>1. Contents # << >>
        BY <1>0, <3>1, EmptySeq
      <4>2. 1 \in 1..count /\ Slot(out, 0) = out
        BY <3>1, SizeAssumption DEF IInv, TypeOK, Slot, Slots
      <4>3. Contents[1] = q[out]
        BY <4>2 DEF Contents
      <4>4. Oldest(Contents) = Contents[1]
        BY <1>0, <4>1, PoppedElements
      <4>. QED  BY <1>4, <3>1, <4>3, <4>4 DEF Peek
    <3>2. CASE count = 0
      <4>1. Contents = << >>
        BY <1>0, <3>2, EmptySeq
      <4>. QED  BY <1>4, <3>2, <4>1 DEF Peek, Oldest
    <3>. QED  BY <3>1, <3>2, SizeAssumption DEF IInv, TypeOK
  <2>3. Abstract!Look
    BY <2>1, <2>2 DEF Abstract!Look, Abstract!Oldest, Oldest
  <2>. QED  BY <2>3 DEF Abstract!Next
<1>5. CASE Clear
  <2>1. Contents' \in Seq(Bytes) /\ Len(Contents') = 0
    BY <1>5, ContentsElementsAfter DEF IInv, Clear
  <2>2. Contents' = << >>
    BY <2>1, EmptySeq
  <2>3. Abstract!Drop
    BY <1>5, <2>2 DEF Clear, Abstract!Drop
  <2>. QED  BY <2>3 DEF Abstract!Next
<1>6. CASE UNCHANGED vars
  BY <1>6 DEF vars, Contents, Abstract!vars
<1>. QED  BY <1>1, <1>2, <1>3, <1>4, <1>5, <1>6 DEF Next, Pop

(* Every ring is the lossy FIFO its users rely on: first in, first out,    *)
(* nothing invented, and only the oldest byte of a full ring ever lost.    *)
THEOREM RingIsLossyQueue == Spec => ImplementsLossyQueue
<1>1. Spec => []IInv
  BY InitInvariant, NextInvariant, PTL DEF Spec
<1>. QED  BY <1>1, InitImplements, NextImplements, PTL
          DEF Spec, ImplementsLossyQueue, Abstract!Spec
===============================================================================
