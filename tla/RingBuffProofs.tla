--------------------------- MODULE RingBuffProofs ---------------------------
(***************************************************************************)
(* ringbuff.c keeps every byte once and in order, for every size of the    *)
(* storage and of the transfers, and so does the receiving server around   *)
(* it.  (A read may come back short: see Stuck in RingServer.)             *)
(***************************************************************************)
EXTENDS RingServer, SequenceTheorems, TLAPS
-----------------------------------------------------------------------------
(* A queue after n elements of src were put at its end.                    *)
LEMMA PutShape ==
  ASSUME NEW S, NEW q \in Seq(S), NEW src \in Seq(S), NEW n \in 0 .. Len(src),
         NEW r \in Seq(S), Len(r) = Len(q) + n,
         \A i \in 1 .. Len(q) : r[i] = q[i],
         \A i \in 1 .. n : r[Len(q) + i] = src[i]
  PROVE  r = q \o SubSeq(src, 1, n)
<1> DEFINE p == SubSeq(src, 1, n)
<1>1. p \in Seq(S) /\ Len(p) = n /\ \A i \in 1 .. n : p[i] = src[i]
  BY SubSeqProperties
<1> HIDE DEF p
<1>2. /\ q \o p \in Seq(S)
      /\ Len(q \o p) = Len(q) + n
      /\ \A i \in 1 .. Len(q) + n :
           (q \o p)[i] = IF i <= Len(q) THEN q[i] ELSE p[i - Len(q)]
  BY <1>1, ConcatProperties
<1>3. ASSUME NEW i \in 1 .. Len(r)
      PROVE  r[i] = (q \o p)[i]
  <2>1. CASE i <= Len(q)
    <3>1. i \in 1 .. Len(q)
      BY <2>1
    <3> QED
      BY <3>1, <2>1, <1>2
  <2>2. CASE i > Len(q)
    <3> DEFINE j == i - Len(q)
    <3>1. j \in 1 .. n /\ i = Len(q) + j
      BY <2>2
    <3>2. r[i] = src[j]
      BY <3>1
    <3> QED
      BY <3>1, <3>2, <1>1, <1>2, <2>2
  <2>3. i <= Len(q) \/ i > Len(q)
    OBVIOUS
  <2> QED
    BY <2>1, <2>2, <2>3, Zenon
<1>4. r = q \o p
  BY <1>2, <1>3, SeqEqual
<1> QED
  BY <1>4 DEF p

(* The first n elements of a queue, and what is left without them.         *)
LEMMA TakeShape ==
  ASSUME NEW S, NEW q \in Seq(S), NEW n \in 0 .. Len(q),
         NEW r \in Seq(S), Len(r) = n, \A i \in 1 .. n : r[i] = q[i]
  PROVE  r = SubSeq(q, 1, n)
<1>1. /\ SubSeq(q, 1, n) \in Seq(S) /\ Len(SubSeq(q, 1, n)) = n
      /\ \A i \in 1 .. n : SubSeq(q, 1, n)[i] = q[i]
  BY SubSeqProperties
<1> QED
  BY <1>1, SeqEqual

LEMMA DropShape ==
  ASSUME NEW S, NEW q \in Seq(S), NEW n \in 0 .. Len(q),
         NEW r \in Seq(S), Len(r) = Len(q) - n,
         \A i \in 1 .. Len(q) - n : r[i] = q[n + i]
  PROVE  r = SubSeq(q, n + 1, Len(q))
<1> DEFINE d == SubSeq(q, n + 1, Len(q))
<1>1. /\ d \in Seq(S) /\ Len(d) = Len(q) - n
      /\ \A i \in 1 .. Len(q) - n : d[i] = q[n + 1 + i - 1]
  BY SubSeqProperties
<1>2. \A i \in 1 .. Len(q) - n : d[i] = q[n + i]
  BY <1>1
<1> HIDE DEF d
<1>3. r = d
  BY <1>1, <1>2, SeqEqual
<1> QED
  BY <1>3 DEF d
-----------------------------------------------------------------------------
(* What went into a queue is what came out of it and what is left in it.   *)
LEMMA PutHistory ==
  ASSUME NEW S, NEW all \in Seq(S), NEW out \in Seq(S), NEW q \in Seq(S),
         NEW s \in Seq(S), all = out \o q
  PROVE  all \o s = out \o (q \o s)
  BY ConcatAssociative

(* A sequence is what is taken off its front and what is left. *)
FirstOf(q, n) == SubSeq(q, 1, n)
RestOf(q, n) == SubSeq(q, n + 1, Len(q))

LEMMA SplitSeq ==
  ASSUME NEW S, NEW q \in Seq(S), NEW n \in 0 .. Len(q)
  PROVE  /\ FirstOf(q, n) \in Seq(S) /\ RestOf(q, n) \in Seq(S)
         /\ FirstOf(q, n) \o RestOf(q, n) = q
<1>1. FirstOf(q, n) \in Seq(S) /\ RestOf(q, n) \in Seq(S)
  BY SubSeqProperties DEF FirstOf, RestOf
<1> DEFINE a == SubSeq(q, 1, n)
           b == SubSeq(q, n + 1, Len(q))
<1>2. a \o b = q
  <2>1. /\ Len(q) \in Nat /\ 1 \in 1 .. Len(q) + 1
        /\ n \in 1 - 1 .. Len(q) /\ Len(q) \in n .. Len(q)
    OBVIOUS
  <2>2. a \o b = SubSeq(q, 1, Len(q))
    BY <2>1, ConcatAdjacentSubSeq, Zenon
  <2> QED
    BY <2>2, SubSeqFull
<1> QED
  BY <1>1, <1>2, Zenon DEF FirstOf, RestOf

LEMMA SplitHistory ==
  ASSUME NEW S, NEW out \in Seq(S), NEW q \in Seq(S), NEW n \in 0 .. Len(q)
  PROVE  out \o q = (out \o FirstOf(q, n)) \o RestOf(q, n)
<1> DEFINE a == FirstOf(q, n)
           b == RestOf(q, n)
<1>1. a \in Seq(S) /\ b \in Seq(S)
  BY SplitSeq
<1>2. a \o b = q
  BY SplitSeq
<1> HIDE DEF a, b
<1>3. (out \o a) \o b = out \o (a \o b)
  BY <1>1, ConcatAssociative
<1> QED
  BY <1>2, <1>3, Zenon DEF a, b
-----------------------------------------------------------------------------

(* The inductive invariant: types, and the count is the distance from rdp  *)
(* to wrp up to a turn.  The turn is only lost when the storage is full.   *)
IInv == RingBuffTypeOK /\ CountMatchesPointers

LEMMA Constants == buffer_size \in Nat \ {0} /\ BUFFER_SIZE \in Nat \ {0}
  BY RingBuffAssumption

LEMMA Types ==
  ASSUME IInv
  PROVE  /\ rdp \in 0 .. buffer_size /\ wrp \in 0 .. buffer_size
         /\ data_size \in 0 .. buffer_size
         /\ store \in [Place -> Byte]
  BY DEF IInv, RingBuffTypeOK, endp

(* Unless the storage is full, the pointers tell how much it holds.        *)
LEMMA Distance ==
  ASSUME IInv, data_size # buffer_size
  PROVE  data_size = IF wrp >= rdp THEN wrp - rdp ELSE wrp - rdp + buffer_size
  BY Constants, Types DEF IInv, CountMatchesPointers

LEMMA SourceTypes ==
  ASSUME NEW src \in Sources
  PROVE  src \in Seq(Byte) /\ Len(src) \in Nat
  BY Constants DEF Sources

(* A read takes no more than is held, and all that is asked for or held    *)
(* unless the storage is full.                                             *)
LEMMA ReadRoom ==
  ASSUME IInv, NEW want \in 1 .. BUFFER_SIZE
  PROVE  /\ ReadLen(want) \in 0 .. data_size
         /\ ReadLen(want) <= want
         /\ data_size # buffer_size => ReadLen(want) = min(want, data_size)
  BY Constants
  DEF IInv, RingBuffTypeOK, CountMatchesPointers, ReadLen, min, endp

(* A write takes as much as fits. *)
LEMMA WriteRoom ==
  ASSUME IInv, data_size # buffer_size, NEW src \in Sources
  PROVE  /\ WriteLen(src) \in 0 .. buffer_size - data_size
         /\ WriteLen(src) = min(Len(src), buffer_size - data_size)
         /\ WriteLen(src) <= Len(src)
  BY Constants, SourceTypes
  DEF IInv, RingBuffTypeOK, CountMatchesPointers, WriteLen, min, endp

LEMMA SlotTypes ==
  ASSUME IInv, NEW i \in 0 .. buffer_size - 1
  PROVE  Slot(i) \in Place
  BY Constants DEF IInv, RingBuffTypeOK, Slot, Place, endp

(* The places a write fills lie between wrp and rdp: plain arithmetic.      *)
LEMMA WriteSplit ==
  ASSUME NEW b \in Nat \ {0}, NEW r \in 0 .. b, NEW w \in 0 .. b,
         NEW d \in 0 .. b, NEW n \in 0 .. b - d, NEW l \in 0 .. n,
         NEW p \in 0 .. b - 1, NEW i \in 0 .. b - 1,
         d = IF w >= r THEN w - r ELSE w - r + b,
         l = IF n < b - w THEN n ELSE b - w,
         p = IF r + i < b THEN r + i ELSE r + i - b
  PROVE  /\ i < d => p >= n - l /\ p \notin w .. w + l - 1
         /\ i >= d /\ i < d + n /\ p < n - l => l + p + 1 = i - d + 1
         /\ i >= d /\ i < d + n /\ p >= n - l =>
              p \in w .. w + l - 1 /\ p - w + 1 = i - d + 1
<1>1. CASE w >= r /\ r + i < b
  BY <1>1
<1>2. CASE w >= r /\ r + i >= b
  BY <1>2
<1>3. CASE w < r /\ r + i < b
  BY <1>3
<1>4. CASE w < r /\ r + i >= b
  BY <1>4
<1> QED
  BY <1>1, <1>2, <1>3, <1>4

(* A write leaves the bytes held where they are and puts the bytes of src  *)
(* behind them.                                                            *)
LEMMA WriteKeeps ==
  ASSUME IInv, data_size # buffer_size, NEW src \in Sources,
         NEW i \in 0 .. data_size - 1
  PROVE  WriteCopy(src, WriteLen(src))[Slot(i)] = store[Slot(i)]
<1> DEFINE n == WriteLen(src)
           l == min(n, endp - wrp)
           p == Slot(i)
<1>1. n \in 0 .. buffer_size - data_size /\ p \in Place
  BY WriteRoom, SlotTypes, Types, Constants
<1>2. l = IF n < buffer_size - wrp THEN n ELSE buffer_size - wrp
  BY DEF min, endp
<1>0. l \in 0 .. n /\ i \in 0 .. buffer_size - 1 /\ p \in 0 .. buffer_size - 1
  BY <1>1, <1>2, Types, Constants DEF Place
<1>3. p = IF rdp + i < buffer_size THEN rdp + i ELSE rdp + i - buffer_size
  BY DEF Slot, endp
<1>4. WriteCopy(src, n)[p] = CASE p < n - l -> src[l + p + 1]
                               [] p \in wrp .. wrp + l - 1 ->
                                    src[p - wrp + 1]
                               [] OTHER -> store[p]
  BY <1>1 DEF WriteCopy
<1> HIDE DEF n, l, p
<1>5. ~(p < n - l) /\ p \notin wrp .. wrp + l - 1
  BY <1>0, <1>1, <1>2, <1>3, Types, Distance, Constants, WriteSplit
<1> QED
  BY <1>4, <1>5 DEF n, p

LEMMA WriteAdds ==
  ASSUME IInv, data_size # buffer_size, NEW src \in Sources,
         NEW i \in data_size .. data_size + WriteLen(src) - 1
  PROVE  WriteCopy(src, WriteLen(src))[Slot(i)] = src[i - data_size + 1]
<1> DEFINE n == WriteLen(src)
           l == min(n, endp - wrp)
           p == Slot(i)
<1>1. n \in 0 .. buffer_size - data_size /\ p \in Place
  BY WriteRoom, SlotTypes, Types, Constants
<1>2. l = IF n < buffer_size - wrp THEN n ELSE buffer_size - wrp
  BY DEF min, endp
<1>0. l \in 0 .. n /\ i \in 0 .. buffer_size - 1 /\ p \in 0 .. buffer_size - 1
  BY <1>1, <1>2, Types, Constants DEF Place
<1>3. p = IF rdp + i < buffer_size THEN rdp + i ELSE rdp + i - buffer_size
  BY DEF Slot, endp
<1>4. WriteCopy(src, n)[p] = CASE p < n - l -> src[l + p + 1]
                               [] p \in wrp .. wrp + l - 1 ->
                                    src[p - wrp + 1]
                               [] OTHER -> store[p]
  BY <1>1 DEF WriteCopy
<1>5. i \in data_size .. data_size + n - 1
  OBVIOUS
<1> HIDE DEF n, l, p
<1>6. CASE p < n - l
  <2>1. l + p + 1 = i - data_size + 1
    BY <1>0, <1>1, <1>2, <1>3, <1>5, <1>6, Types, Distance, Constants,
       WriteSplit
  <2>2. WriteCopy(src, n)[p] = src[i - data_size + 1]
    <3>1. p \notin wrp .. wrp + l - 1
      BY <1>0, <1>1, <1>2, <1>6, Types, Constants
    <3> QED
      BY <3>1, <1>4, <1>6, <2>1
  <2> QED
    BY <2>2 DEF n, p
<1>7. CASE ~(p < n - l)
  <2>1. p \in wrp .. wrp + l - 1 /\ p - wrp + 1 = i - data_size + 1
    BY <1>0, <1>1, <1>2, <1>3, <1>5, <1>7, Types, Distance, Constants,
       WriteSplit
  <2>2. WriteCopy(src, n)[p] = src[i - data_size + 1]
    BY <1>4, <1>7, <2>1
  <2> QED
    BY <2>2 DEF n, p
<1> QED
  BY <1>6, <1>7

LEMMA ReadTakes ==
  ASSUME IInv, NEW n \in 0 .. data_size, NEW i \in 1 .. n
  PROVE  ReadCopy(n)[i] = store[Slot(i - 1)]
  BY Constants
  DEF ReadCopy, Slot, min, endp, IInv, RingBuffTypeOK, CountMatchesPointers
-----------------------------------------------------------------------------
(* Moving a pointer on, and the count with it or against it, keeps the     *)
(* count and the distance together.                                        *)
LEMMA Advances ==
  ASSUME IInv
  PROVE  /\ \A n \in 0 .. buffer_size - data_size :
              /\ data_size # buffer_size
                   => Advance(wrp, n) \in 0 .. buffer_size
              /\ data_size # buffer_size =>
                   data_size + n \in {Advance(wrp, n) - rdp,
                                      Advance(wrp, n) - rdp + buffer_size}
         /\ \A n \in 0 .. data_size :
              /\ Advance(rdp, n) \in 0 .. buffer_size
              /\ data_size - n \in {wrp - Advance(rdp, n),
                                    wrp - Advance(rdp, n) + buffer_size}
  BY Constants, Types DEF Advance, endp, IInv, CountMatchesPointers

LEMMA WriteInvariant ==
  ASSUME IInv, data_size # buffer_size, NEW src \in Sources, WriteBody(src)
  PROVE  IInv'
<1> DEFINE n == WriteLen(src)
<1>1. n \in 0 .. buffer_size - data_size /\ n \in 0 .. Len(src)
  BY WriteRoom, SourceTypes
<1>2. /\ wrp' = Advance(wrp, n) /\ data_size' = data_size + n
      /\ rdp' = rdp /\ got' = got /\ store' = WriteCopy(src, n)
  BY DEF WriteBody
<1>3. store' \in [Place -> Byte]
  <2>1. ASSUME NEW p \in Place
        PROVE  WriteCopy(src, n)[p] \in Byte
    <3> DEFINE l == min(n, endp - wrp)
    <3>1. /\ l \in 0 .. n /\ wrp \in 0 .. buffer_size
          /\ src \in [1 .. Len(src) -> Byte] /\ Len(src) \in Nat
          /\ store[p] \in Byte /\ p \in Nat
      BY <1>1, SourceTypes, Constants
      DEF min, endp, IInv, RingBuffTypeOK, Place
    <3>2. WriteCopy(src, n)[p] = CASE p < n - l -> src[l + p + 1]
                                   [] p \in wrp .. wrp + l - 1 ->
                                        src[p - wrp + 1]
                                   [] OTHER -> store[p]
      BY DEF WriteCopy
    <3> HIDE DEF n, l
    <3>3. CASE p < n - l
      <4>1. l + p + 1 \in 1 .. Len(src)
        BY <1>1, <3>1, <3>3
      <4> QED
        BY <3>1, <3>2, <3>3, <4>1
    <3>4. CASE p >= n - l /\ p \in wrp .. wrp + l - 1
      <4>1. p - wrp + 1 \in 1 .. Len(src)
        BY <1>1, <3>1, <3>4
      <4> QED
        BY <3>1, <3>2, <3>4, <4>1, <1>1
    <3>5. CASE p >= n - l /\ p \notin wrp .. wrp + l - 1
      BY <3>1, <3>2, <3>5, <1>1
    <3> QED
      BY <3>1, <3>3, <3>4, <3>5, <1>1
  <2> QED
    BY <1>2, <2>1 DEF WriteCopy
<1>4. /\ wrp' \in 0 .. buffer_size
      /\ data_size' \in {wrp' - rdp, wrp' - rdp + buffer_size}
  BY <1>1, <1>2, Advances
<1>5. data_size' \in 0 .. buffer_size
  BY <1>1, <1>2, Types, Constants
<1> QED
  BY <1>2, <1>3, <1>4, <1>5
  DEF IInv, RingBuffTypeOK, CountMatchesPointers, endp

LEMMA ReadInvariant ==
  ASSUME IInv, NEW want \in 1 .. BUFFER_SIZE, ReadBody(want)
  PROVE  IInv'
<1> DEFINE n == ReadLen(want)
<1>1. n \in 0 .. data_size /\ data_size \in 0 .. buffer_size
  BY ReadRoom DEF IInv, RingBuffTypeOK
<1>2. /\ rdp' = Advance(rdp, n) /\ data_size' = data_size - n
      /\ wrp' = wrp /\ got' = ReadCopy(n) /\ store' = store
  BY DEF ReadBody
<1>3. got' \in Seq(Byte)
  <2>1. ASSUME NEW i \in 1 .. n
        PROVE  ReadCopy(n)[i] \in Byte
    <3>1. i - 1 \in 0 .. buffer_size - 1
      BY <1>1, Constants
    <3> QED
      BY <3>1, <1>1, ReadTakes, SlotTypes DEF IInv, RingBuffTypeOK
  <2>2. n \in Nat
    BY <1>1
  <2> HIDE DEF n
  <2>3. ReadCopy(n) \in [1 .. n -> Byte]
    BY <2>1 DEF ReadCopy
  <2> QED
    BY <1>2, <2>2, <2>3
<1>4. /\ rdp' \in 0 .. buffer_size
      /\ data_size' \in {wrp - rdp', wrp - rdp' + buffer_size}
  BY <1>1, <1>2, Advances
<1>5. data_size' \in 0 .. buffer_size
  BY <1>1, <1>2, Types, Constants
<1> QED
  BY <1>2, <1>3, <1>4, <1>5
  DEF IInv, RingBuffTypeOK, CountMatchesPointers, endp
-----------------------------------------------------------------------------
LEMMA NextInvariant == IInv /\ [RingBuffNext]_ringVars => IInv'
<1> SUFFICES ASSUME IInv, [RingBuffNext]_ringVars
             PROVE  IInv'
  OBVIOUS
<1>1. ASSUME NEW src \in Sources, ringbuff_write(src)
      PROVE  IInv'
  <2>1. CASE data_size = buffer_size
    BY <1>1, <2>1
    DEF ringbuff_write, ringVars, IInv, RingBuffTypeOK, CountMatchesPointers
  <2>2. CASE data_size # buffer_size
    BY <1>1, <2>2, WriteInvariant DEF ringbuff_write
  <2> QED
    BY <2>1, <2>2
<1>2. ASSUME NEW want \in 1 .. BUFFER_SIZE, ringbuff_read(want)
      PROVE  IInv'
  <2>1. CASE data_size = 0
    BY <1>2, <2>1
    DEF ringbuff_read, IInv, RingBuffTypeOK, CountMatchesPointers
  <2>2. CASE data_size # 0
    BY <1>2, <2>2, ReadInvariant DEF ringbuff_read
  <2> QED
    BY <2>1, <2>2
<1>3. CASE ringbuff_reset
  BY <1>3, Constants
  DEF ringbuff_reset, IInv, RingBuffTypeOK, CountMatchesPointers, endp
<1>4. CASE UNCHANGED ringVars
  BY <1>4 DEF ringVars, IInv, RingBuffTypeOK, CountMatchesPointers
<1> QED
  BY <1>1, <1>2, <1>3, <1>4 DEF RingBuffNext

LEMMA InitInvariant == RingBuffInit => IInv
  BY Constants
  DEF RingBuffInit, ringbuff_init, IInv, RingBuffTypeOK,
      CountMatchesPointers, endp

(* ringbuff.c keeps its count and its pointers in step: data_size is the   *)
(* distance from rdp to wrp, up to the one turn that a full buffer hides,  *)
(* for every size of the storage and of the transfers.                     *)
THEOREM RingBuffCount ==
  RingBuffSpec => [](RingBuffTypeOK /\ CountMatchesPointers)
  BY InitInvariant, NextInvariant, PTL DEF RingBuffSpec, IInv
-----------------------------------------------------------------------------
(* The queue in terms of the storage: its i-th byte is i - 1 after rdp.    *)
QueueShape ==
  /\ Queue \in Seq(Byte)
  /\ Len(Queue) = data_size
  /\ \A i \in 1 .. data_size : Queue[i] = store[Slot(i - 1)]

LEMMA QueueSeq == IInv => QueueShape
<1> SUFFICES ASSUME IInv PROVE QueueShape
  OBVIOUS
<1>1. data_size \in Nat
  BY Types, Constants
<1>2. ASSUME NEW i \in 1 .. data_size
      PROVE  store[Slot(i - 1)] \in Byte
  <2>1. i - 1 \in 0 .. buffer_size - 1
    BY Types, Constants
  <2> QED
    BY <2>1, SlotTypes, Types
<1>3. Queue \in [1 .. data_size -> Byte]
  BY <1>2 DEF Queue
<1> QED
  BY <1>1, <1>3 DEF QueueShape, Queue

LEMMA QueueSeqNext == IInv' => QueueShape'
  BY QueueSeq, PTL

LEMMA WriteRefines ==
  ASSUME IInv, data_size # buffer_size, NEW src \in Sources, WriteBody(src)
  PROVE  LooseFifo!Put(src)
<1> DEFINE n == WriteLen(src)
           r == Queue'
<1>1. /\ n \in 0 .. buffer_size - data_size /\ n \in 0 .. Len(src)
      /\ n = min(Len(src), buffer_size - data_size)
      /\ data_size \in 0 .. buffer_size
      /\ src \in Seq(Byte)
  BY WriteRoom, Types, SourceTypes
<1>2. /\ IInv' /\ data_size' = data_size + n /\ rdp' = rdp
      /\ store' = WriteCopy(src, n)
      /\ \A i \in 0 .. buffer_size : Slot(i)' = Slot(i)
  BY WriteInvariant DEF WriteBody, Slot
<1>3. /\ r \in Seq(Byte) /\ Len(r) = data_size + n
      /\ \A i \in 1 .. data_size + n :
           r[i] = WriteCopy(src, n)[Slot(i - 1)]
  <2>1. \A i \in 1 .. data_size + n : i - 1 \in 0 .. buffer_size
    BY <1>1, Constants
  <2> QED
    BY <1>2, <2>1, QueueSeqNext DEF QueueShape
<1>4. /\ Queue \in Seq(Byte) /\ Len(Queue) = data_size
      /\ \A i \in 1 .. data_size : Queue[i] = store[Slot(i - 1)]
  BY QueueSeq DEF QueueShape
<1>5. \A i \in 1 .. data_size : r[i] = Queue[i]
  <2> TAKE i \in 1 .. data_size
  <2>1. i - 1 \in 0 .. data_size - 1 /\ i \in 1 .. data_size + n
    BY <1>1
  <2> QED
    BY <2>1, <1>3, <1>4, WriteKeeps
<1>6. \A i \in 1 .. n : r[data_size + i] = src[i]
  <2> TAKE i \in 1 .. n
  <2> DEFINE j == data_size + i
  <2>1. /\ j - 1 \in data_size .. data_size + n - 1
        /\ j \in 1 .. data_size + n
        /\ (j - 1) - data_size + 1 = i
    BY <1>1
  <2>2. r[j] = src[(j - 1) - data_size + 1]
    BY <2>1, <1>3, WriteAdds
  <2> QED
    BY <2>1, <2>2
<1> HIDE DEF n, r
<1>7. r = Queue \o SubSeq(src, 1, n)
  BY <1>1, <1>3, <1>4, <1>5, <1>6, PutShape
<1>8. n = LooseFifo!MinOf(Len(src), buffer_size - Len(Queue))
  BY <1>1, <1>4, Constants DEF min, LooseFifo!MinOf
<1> QED
  BY <1>7, <1>8 DEF r, LooseFifo!Put, WriteBody

(* A write into a full buffer puts nothing, as a put into a full queue.    *)
LEMMA FullRefines ==
  ASSUME IInv, data_size = buffer_size, NEW src \in Sources,
         UNCHANGED ringVars
  PROVE  LooseFifo!Put(src)
<1>1. /\ Queue \in Seq(Byte) /\ Len(Queue) = buffer_size
      /\ src \in Seq(Byte) /\ Len(src) \in Nat
  BY QueueSeq, SourceTypes DEF QueueShape
<1>2. LooseFifo!MinOf(Len(src), buffer_size - Len(Queue)) = 0
  BY <1>1, Constants DEF LooseFifo!MinOf
<1>3. Queue \o SubSeq(src, 1, 0) = Queue
  <2> HIDE DEF Queue
  <2>1. Queue = Queue \o SubSeq(src, 1, 0)
    BY <1>1, PutShape
  <2> QED
    BY <2>1
<1>4. Queue' = Queue /\ got' = got
  BY DEF Queue, Slot, ringVars
<1> QED
  BY <1>2, <1>3, <1>4 DEF LooseFifo!Put

(* Whatever number of bytes held a read takes, it takes the oldest ones.   *)
LEMMA ReadRefines ==
  ASSUME IInv, NEW want \in 1 .. BUFFER_SIZE, ReadBody(want)
  PROVE  LooseFifo!Get(want)
<1> DEFINE n == ReadLen(want)
           r == Queue'
<1>1. /\ n \in 0 .. data_size /\ n <= want
      /\ data_size \in 0 .. buffer_size
  BY ReadRoom, Types
<1>2. /\ IInv' /\ data_size' = data_size - n /\ store' = store
      /\ got' = ReadCopy(n) /\ rdp' = Advance(rdp, n)
  BY ReadInvariant DEF ReadBody
<1>3. /\ Queue \in Seq(Byte) /\ Len(Queue) = data_size
      /\ \A i \in 1 .. data_size : Queue[i] = store[Slot(i - 1)]
  BY QueueSeq DEF QueueShape
<1>4. /\ r \in Seq(Byte) /\ Len(r) = data_size - n
      /\ \A i \in 1 .. data_size - n : r[i] = store[Slot(i - 1)']
  BY <1>2, QueueSeqNext DEF QueueShape
<1>5. \A i \in 1 .. data_size - n : r[i] = Queue[n + i]
  <2> TAKE i \in 1 .. data_size - n
  <2>1. n + i \in 1 .. data_size
    BY <1>1
  <2>2. rdp' = Advance(rdp, n)
    BY <1>2
  <2> HIDE DEF n
  <2>3. Slot(i - 1)' = Slot((n + i) - 1)
    BY <1>1, <2>1, <2>2, Types, Constants DEF Slot, Advance, endp
  <2> QED
    BY <1>3, <1>4, <2>1, <2>3
<1>6. /\ got' \in Seq(Byte) /\ Len(got') = n
      /\ \A i \in 1 .. n : got'[i] = Queue[i]
  <2>1. Len(got') = n
    BY <1>1, <1>2 DEF ReadCopy
  <2>2. ASSUME NEW i \in 1 .. n
        PROVE  got'[i] = Queue[i]
    <3>1. i \in 1 .. data_size
      BY <1>1, <2>2
    <3>2. ReadCopy(n)[i] = store[Slot(i - 1)]
      BY <1>1, ReadTakes
    <3> QED
      BY <3>1, <3>2, <1>2, <1>3
  <2> QED
    BY <2>1, <2>2, <1>2 DEF IInv, RingBuffTypeOK
<1> HIDE DEF n, r
<1>7. r = SubSeq(Queue, n + 1, Len(Queue))
  BY <1>1, <1>3, <1>4, <1>5, DropShape
<1>8. got' = SubSeq(Queue, 1, n)
  BY <1>1, <1>3, <1>6, TakeShape
<1>9. n \in 0 .. LooseFifo!MinOf(want, Len(Queue))
  BY <1>1, <1>3, Constants DEF LooseFifo!MinOf
<1>10. LooseFifo!Take(n)
  BY <1>7, <1>8 DEF r, LooseFifo!Take
<1> QED
  BY <1>9, <1>10 DEF LooseFifo!Get

(* A read of an empty buffer takes nothing.                                *)
LEMMA EmptyReadRefines ==
  ASSUME IInv, NEW want \in 1 .. BUFFER_SIZE, data_size = 0,
         ringbuff_read(want)
  PROVE  LooseFifo!Get(want)
<1>1. Queue \in Seq(Byte) /\ Len(Queue) = 0
  BY QueueSeq DEF QueueShape
<1>2. got' = <<>> /\ Queue' = Queue
  BY DEF ringbuff_read, Queue, Slot
<1> HIDE DEF Queue
<1>3. Queue = <<>>
  BY <1>1
<1>4. LooseFifo!MinOf(want, Len(Queue)) = 0
  BY <1>1 DEF LooseFifo!MinOf
<1>5. SubSeq(<<>>, 1, 0) = <<>> /\ SubSeq(<<>>, 0 + 1, 0) = <<>>
  OBVIOUS
<1>6. LooseFifo!Take(0)
  BY <1>1, <1>2, <1>3, <1>5 DEF LooseFifo!Take
<1> QED
  BY <1>4, <1>6 DEF LooseFifo!Get

NoBytes == data_size = 0
QueueEmpty == Queue = <<>>

LEMMA EmptyRefines == NoBytes => QueueEmpty
<1> SUFFICES ASSUME data_size = 0
             PROVE  Queue = <<>>
  BY DEF NoBytes, QueueEmpty
<1> DEFINE F(i) == store[Slot(i - 1)]
<1>1. Queue = [i \in 1 .. 0 |-> F(i)]
  BY DEF Queue
<1> HIDE DEF F
<1> QED
  BY <1>1

LEMMA EmptyRefinesNext == NoBytes' => QueueEmpty'
  BY EmptyRefines, PTL

LEMMA StepRefines ==
  IInv /\ [RingBuffNext]_ringVars => [LooseFifo!Next]_(LooseFifo!vars)
<1> SUFFICES ASSUME IInv, [RingBuffNext]_ringVars
             PROVE  [LooseFifo!Next]_(LooseFifo!vars)
  OBVIOUS
<1>1. ASSUME NEW src \in Sources, ringbuff_write(src)
      PROVE  LooseFifo!Next
  <2>1. LooseFifo!Put(src)
    BY <1>1, WriteRefines, FullRefines DEF ringbuff_write
  <2> QED
    BY <2>1 DEF LooseFifo!Next, LooseFifo!Sources, Sources
<1>2. ASSUME NEW want \in 1 .. BUFFER_SIZE, ringbuff_read(want)
      PROVE  LooseFifo!Next
  <2>1. LooseFifo!Get(want)
    BY <1>2, ReadRefines, EmptyReadRefines DEF ringbuff_read
  <2> QED
    BY <2>1 DEF LooseFifo!Next
<1>3. CASE ringbuff_reset
  BY <1>3, EmptyRefinesNext
  DEF NoBytes, QueueEmpty, ringbuff_reset, LooseFifo!Next, LooseFifo!Reset
<1>4. CASE UNCHANGED ringVars
  BY <1>4 DEF ringVars, LooseFifo!vars, Queue, Slot
<1> QED
  BY <1>1, <1>2, <1>3, <1>4 DEF RingBuffNext

(* ringbuff.c loses, repeats and reorders no byte: every ringbuff_write    *)
(* puts what fits behind the bytes held and every ringbuff_read takes a    *)
(* prefix of them, for every size of the storage and of the transfers.     *)
THEOREM RingBuffKeepsBytes == RingBuffSpec => RingBuffKeepsOrder
<1>1. RingBuffInit => LooseFifo!Init
  BY EmptyRefines
  DEF NoBytes, QueueEmpty, RingBuffInit, ringbuff_init, LooseFifo!Init
<1>2. RingBuffSpec => []IInv
  BY InitInvariant, NextInvariant, PTL DEF RingBuffSpec
<1> QED
  BY <1>1, <1>2, StepRefines, PTL
  DEF RingBuffSpec, RingBuffKeepsOrder, LooseFifo!Spec

-----------------------------------------------------------------------------
(* The server around the buffer.  A body under the mutex is entered after  *)
(* a test without it: main's only finds the buffer emptier than it was.    *)
WriteAhead ==
  /\ mpc = "body" => data_size # buffer_size
  /\ mpc = "body" => chunk # << >>
  /\ Len(chunk) <= BUFFER_SIZE
SInv ==
  /\ TypeOK /\ CountMatchesPointers
  /\ WriteAhead
  /\ accepted = handed \o Queue

LEMMA ServerConstants ==
  /\ Clients \in Nat \ {0} /\ Stream \in Nat \ {0}
  /\ Net!AllBytes \subseteq Byte
  BY RingServerAssumption DEF Net!AllBytes

(* The bytes of a client have numbers of their own. *)
LEMMA Numbered ==
  ASSUME NEW c \in Net!Client, NEW k \in 1 .. Stream
  PROVE  Net!Id(c, k) \in Net!AllBytes
<1>1. c \in 1 .. Clients /\ c - 1 \in Nat /\ Clients - c \in Nat
  BY ServerConstants DEF Net!Client
<1>2. (c - 1) * Stream \in Nat /\ (Clients - c) * Stream \in Nat
  BY <1>1, ServerConstants
<1>3. (c - 1) * Stream + Stream + (Clients - c) * Stream = Clients * Stream
  BY <1>1, ServerConstants
<1> QED
  BY <1>2, <1>3, ServerConstants DEF Net!Id, Net!AllBytes

LEMMA ClienteleTypes ==
  ASSUME Net!NetTypeOK, Net!ClientStep
  PROVE  Net!NetTypeOK' /\ chunk' = chunk
<1> PICK c \in Net!Client : Net!Connect(c) \/ Net!Send(c) \/ Net!HangUp(c)
  BY DEF Net!ClientStep
<1>1. CASE Net!Connect(c)
  BY <1>1 DEF Net!Connect, Net!NetTypeOK
<1>2. CASE Net!Send(c)
  <2>1. PICK n \in 1 .. Stream - sent[c] : sent' = [sent EXCEPT ![c] = @ + n]
    BY <1>2 DEF Net!Send
  <2>2. sent[c] + n \in 0 .. Stream
    BY <2>1, ServerConstants DEF Net!NetTypeOK
  <2> QED
    BY <1>2, <2>1, <2>2 DEF Net!Send, Net!NetTypeOK
<1>3. CASE Net!HangUp(c)
  BY <1>3 DEF Net!HangUp, Net!NetTypeOK
<1> QED
  BY <1>1, <1>2, <1>3

LEMMA ServerTypes ==
  ASSUME Net!NetTypeOK, Net!ServerStep
  PROVE  Net!NetTypeOK' /\ (Len(chunk') <= BUFFER_SIZE \/ chunk' = chunk)
<1>1. CASE Net!Select
  BY <1>1 DEF Net!Select, Net!Ready, Net!NetTypeOK
<1>2. CASE Net!Accept
  BY <1>2 DEF Net!Accept, Net!NetTypeOK
<1>3. ASSUME NEW c \in Net!Client, Net!Read(c)
      PROVE  Net!NetTypeOK' /\ Len(chunk') <= BUFFER_SIZE
  <2>1. PICK n \in 1 .. BUFFER_SIZE :
          /\ n <= sent[c] - taken[c]
          /\ chunk' = [i \in 1 .. n |-> Net!Id(c, taken[c] + i)]
          /\ taken' = [taken EXCEPT ![c] = @ + n]
    BY <1>3 DEF Net!Read
  <2>2. /\ taken[c] \in 0 .. Stream /\ sent[c] \in 0 .. Stream /\ n \in Nat
        /\ taken[c] + n \in 0 .. Stream
    BY <2>1, ServerConstants, Constants DEF Net!NetTypeOK
  <2>3. ASSUME NEW i \in 1 .. n
        PROVE  Net!Id(c, taken[c] + i) \in Net!AllBytes
    <3>1. taken[c] + i \in 1 .. Stream
      BY <2>2, ServerConstants
    <3> QED
      BY <3>1, Numbered
  <2>4. chunk' \in [1 .. n -> Net!AllBytes]
    BY <2>1, <2>3
  <2>5. chunk' \in Seq(Net!AllBytes) /\ Len(chunk') = n
    BY <2>2, <2>4
  <2>6. taken' \in [Net!Client -> 0 .. Stream]
    BY <2>1, <2>2 DEF Net!NetTypeOK
  <2> QED
    BY <1>3, <2>1, <2>5, <2>6, Constants DEF Net!Read, Net!NetTypeOK
<1>4. ASSUME NEW c \in Net!Client, Net!Close(c)
      PROVE  Net!NetTypeOK' /\ chunk' = chunk
  BY <1>4 DEF Net!Close, Net!NetTypeOK
<1> QED
  BY <1>1, <1>2, <1>3, <1>4 DEF Net!ServerStep, Net!Select, Net!Accept

LEMMA StateOfServer ==
  ASSUME SInv
  PROVE  /\ IInv
         /\ Queue \in Seq(Byte) /\ Len(Queue) = data_size
         /\ accepted \in Seq(Byte) /\ handed \in Seq(Byte)
         /\ chunk \in Seq(Byte)
<1>1. IInv
  BY DEF SInv, TypeOK, IInv
<1>2. chunk \in Seq(Byte)
  BY ServerConstants DEF SInv, TypeOK, Net!NetTypeOK
<1> QED
  BY <1>1, <1>2, QueueSeq DEF QueueShape, SInv, TypeOK

(* The buffer's part of the invariant depends on the buffer alone. *)
LEMMA SameBuffer ==
  ASSUME SInv, UNCHANGED <<store, rdp, wrp, data_size>>, got' \in Seq(Byte)
  PROVE  RingBuffTypeOK' /\ CountMatchesPointers' /\ Queue' = Queue
  BY DEF SInv, TypeOK, RingBuffTypeOK, CountMatchesPointers, Queue, Slot

LEMMA WriteStep ==
  ASSUME SInv, Write
  PROVE  SInv'
<1>1. /\ data_size # buffer_size /\ chunk \in Seq(Byte) /\ chunk # << >>
      /\ Len(chunk) <= BUFFER_SIZE /\ mpc = "body"
  BY StateOfServer DEF Write, SInv, WriteAhead
<1>2. chunk \in Sources
  <2>1. Len(chunk) \in 1 .. BUFFER_SIZE /\ chunk \in [1 .. Len(chunk) -> Byte]
    BY <1>1, Constants
  <2> QED
    BY <2>1 DEF Sources
<1>3. WriteBody(chunk)
  BY DEF Write
<1>4. IInv' /\ LooseFifo!Put(chunk)
  BY <1>1, <1>2, <1>3, StateOfServer, WriteInvariant, WriteRefines
<1> DEFINE n == WriteLen(chunk)
           s == SubSeq(chunk, 1, n)
<1>5. /\ n \in 0 .. Len(chunk)
      /\ n = LooseFifo!MinOf(Len(chunk), buffer_size - Len(Queue))
  <2>1. /\ n \in 0 .. buffer_size - data_size
        /\ n = min(Len(chunk), buffer_size - data_size)
        /\ n <= Len(chunk)
    BY <1>1, <1>2, StateOfServer, WriteRoom
  <2>2. data_size \in Nat /\ Len(chunk) \in Nat /\ Len(Queue) = data_size
    BY <1>1, StateOfServer DEF SInv, TypeOK, RingBuffTypeOK
  <2> QED
    BY <2>1, <2>2, Constants DEF min, LooseFifo!MinOf
<1>6. Queue' = Queue \o s
  BY <1>4, <1>5 DEF LooseFifo!Put
<1>7. s \in Seq(Byte)
  BY <1>1, <1>5, SubSeqProperties
<1>8. accepted' = accepted \o s /\ handed' = handed
  BY DEF Write
<1> HIDE DEF n, s
<1>9. accepted' = handed' \o Queue' /\ accepted' \in Seq(Byte)
  <2>1. /\ accepted = handed \o Queue /\ accepted \in Seq(Byte)
        /\ handed \in Seq(Byte) /\ Queue \in Seq(Byte)
    BY StateOfServer DEF SInv
  <2>2. accepted \o s = handed \o (Queue \o s)
    BY <1>7, <2>1, PutHistory
  <2>3. accepted \o s \in Seq(Byte)
    BY <1>7, <2>1, ConcatProperties
  <2> QED
    BY <1>6, <1>8, <2>2, <2>3
<1>10. TypeOK'
  <2>1. /\ chunk' = << >> /\ mpc' = "loop"
        /\ UNCHANGED <<netVars, wpc, handed, file>>
    BY DEF Write
  <2>2. Net!NetTypeOK'
    BY <2>1 DEF SInv, TypeOK, Net!NetTypeOK, netVars
  <2> QED
    BY <1>4, <1>9, <2>1, <2>2 DEF SInv, TypeOK, IInv
<1>11. WriteAhead'
  BY Constants DEF Write, WriteAhead
<1> QED
  BY <1>4, <1>9, <1>10, <1>11 DEF SInv, IInv

LEMMA ReadStep ==
  ASSUME SInv, Read
  PROVE  SInv'
<1>1. BUFFER_SIZE \in 1 .. BUFFER_SIZE /\ ReadBody(BUFFER_SIZE)
  BY Constants DEF Read
<1>2. IInv' /\ LooseFifo!Get(BUFFER_SIZE)
  BY <1>1, StateOfServer, ReadInvariant, ReadRefines
<1>3. PICK n \in 0 .. Len(Queue) : LooseFifo!Take(n)
  BY <1>2, StateOfServer, Constants
  DEF LooseFifo!Get, LooseFifo!MinOf, SInv, TypeOK, RingBuffTypeOK
<1>4. /\ got' = SubSeq(Queue, 1, n)
      /\ Queue' = SubSeq(Queue, n + 1, Len(Queue))
  BY <1>3 DEF LooseFifo!Take
<1>5. got' \in Seq(Byte)
  BY <1>2 DEF IInv, RingBuffTypeOK
<1>6. /\ accepted = handed \o Queue /\ accepted \in Seq(Byte)
      /\ handed \in Seq(Byte) /\ Queue \in Seq(Byte)
  BY StateOfServer DEF SInv
<1>7. handed' = handed \o got' /\ accepted' = accepted
  BY DEF Read
<1>8. accepted' = handed' \o Queue' /\ handed' \in Seq(Byte)
  <2>1. accepted = (handed \o SubSeq(Queue, 1, n))
                     \o SubSeq(Queue, n + 1, Len(Queue))
    <3>1. \A q \in Seq(Byte) : \A k \in 0 .. Len(q) :
            handed \o q = (handed \o FirstOf(q, k)) \o RestOf(q, k)
      BY <1>6, SplitHistory
    <3>2. handed \o Queue = (handed \o FirstOf(Queue, n)) \o RestOf(Queue, n)
      BY <1>3, <1>6, <3>1, Zenon
    <3> QED
      BY <1>6, <3>2, Zenon DEF FirstOf, RestOf
  <2>2. handed \o got' \in Seq(Byte)
    BY <1>5, <1>6, ConcatProperties
  <2> QED
    BY <1>4, <1>7, <2>1, <2>2
<1>9. TypeOK'
  <2>1. wpc' = "write" /\ UNCHANGED <<netVars, chunk, mpc, accepted, file>>
    BY DEF Read, WorkerAt
  <2>2. Net!NetTypeOK'
    BY <2>1 DEF SInv, TypeOK, Net!NetTypeOK, netVars
  <2> QED
    BY <1>2, <1>8, <2>1, <2>2 DEF SInv, TypeOK, IInv
<1>10. WriteAhead'
  <2>1. UNCHANGED <<chunk, mpc>>
    BY DEF Read
  <2>2. data_size # buffer_size => data_size' # buffer_size
    BY <1>1, StateOfServer, ReadRoom, Types DEF ReadBody
  <2> QED
    BY <2>1, <2>2 DEF SInv, WriteAhead
<1> QED
  BY <1>2, <1>8, <1>9, <1>10 DEF SInv, IInv

LEMMA OtherSteps ==
  ASSUME SInv,
         Clientele \/ MainLoop \/ WriteCheck \/ WorkerOpen \/ Poll
           \/ ReadCheck \/ WriteFile \/ UNCHANGED vars
  PROVE  SInv'
<1>1. /\ UNCHANGED <<store, rdp, wrp, data_size, accepted, handed>>
      /\ got' \in Seq(Byte)
  <2>1. CASE ReadCheck
    <3>1. << >> \in Seq(Byte)
      OBVIOUS
    <3> QED
      BY <2>1, <3>1 DEF ReadCheck, SInv, TypeOK, RingBuffTypeOK
  <2>2. CASE ~ReadCheck
    BY <2>2 DEF SInv, TypeOK, RingBuffTypeOK, Clientele, MainLoop, WriteCheck,
                WorkerOpen, Poll, WriteFile, vars, ringVars
  <2> QED
    BY <2>1, <2>2
<1>2. RingBuffTypeOK' /\ CountMatchesPointers' /\ Queue' = Queue
  BY <1>1, SameBuffer
<1>3. /\ mpc' \in {"loop", "body"}
      /\ wpc' \in {"open", "exited", "poll", "check", "body", "write"}
  BY DEF SInv, TypeOK, Clientele, MainLoop, WriteCheck,
         WorkerOpen, Poll, ReadCheck, WriteFile, WorkerAt, vars
<1>4. Net!NetTypeOK'
  <2>1. CASE Clientele \/ MainLoop
    BY <2>1, ClienteleTypes, ServerTypes
    DEF Clientele, MainLoop, SInv, TypeOK
  <2>2. CASE WriteCheck
    <3>1. UNCHANGED netVars /\ (chunk' = << >> \/ chunk' = chunk)
      BY <2>2 DEF WriteCheck
    <3>2. chunk' \in Seq(Net!AllBytes)
      <4>1. << >> \in Seq(Net!AllBytes)
        OBVIOUS
      <4> QED
        BY <3>1, <4>1 DEF SInv, TypeOK, Net!NetTypeOK
    <3> QED
      BY <3>1, <3>2 DEF SInv, TypeOK, Net!NetTypeOK, netVars
  <2>3. CASE WorkerOpen \/ Poll \/ ReadCheck \/ WriteFile \/ UNCHANGED vars
    <3>1. UNCHANGED <<netVars, chunk>>
      BY <2>3 DEF WorkerOpen, Poll, ReadCheck, WriteFile, vars
    <3> QED
      BY <3>1 DEF SInv, TypeOK, Net!NetTypeOK, netVars
  <2> QED
    BY <2>1, <2>2, <2>3
<1>5. file' \in Seq(Byte)
  <2>1. CASE WriteFile
    <3>1. PICK n \in 0 .. Len(got) : file' = file \o SubSeq(got, 1, n)
      BY <2>1 DEF WriteFile
    <3>2. file \in Seq(Byte) /\ got \in Seq(Byte)
      BY DEF SInv, TypeOK, RingBuffTypeOK
    <3>3. SubSeq(got, 1, n) \in Seq(Byte)
      BY <3>2, SubSeqProperties
    <3> QED
      BY <3>1, <3>2, <3>3, ConcatProperties
  <2>2. CASE ~WriteFile
    BY <2>2 DEF SInv, TypeOK, Clientele, MainLoop, WriteCheck, WorkerOpen,
                Poll, ReadCheck, vars
  <2> QED
    BY <2>1, <2>2
<1>6. WriteAhead'
  <2>1. CASE Clientele
    BY <2>1, <1>1, ClienteleTypes DEF Clientele, SInv, TypeOK, WriteAhead
  <2>2. CASE MainLoop
    BY <2>2, <1>1, ServerTypes DEF MainLoop, SInv, TypeOK, WriteAhead
  <2>3. CASE WriteCheck
    BY <2>3, <1>1, Constants DEF WriteCheck, SInv, WriteAhead
  <2>4. CASE WorkerOpen \/ Poll \/ ReadCheck \/ WriteFile \/ UNCHANGED vars
    BY <2>4, <1>1 DEF WorkerOpen, Poll, ReadCheck, WriteFile, vars, SInv,
                      WriteAhead
  <2> QED
    BY <2>1, <2>2, <2>3, <2>4
<1> QED
  BY <1>1, <1>2, <1>3, <1>4, <1>5, <1>6 DEF SInv, TypeOK

LEMMA ServerInit == Init => SInv
<1> SUFFICES ASSUME Init PROVE SInv
  OBVIOUS
<1>1. IInv
  BY Constants, RingBuffAssumption
  DEF Init, ringbuff_init, IInv, RingBuffTypeOK, CountMatchesPointers, endp
<1>2. Queue = << >>
  BY EmptyRefines DEF Init, ringbuff_init, NoBytes, QueueEmpty
<1>3. Net!NetTypeOK
  BY ServerConstants DEF Init, Net!NetInit, Net!NetTypeOK
<1>4. accepted = handed \o Queue
  BY <1>2 DEF Init
<1>5. WriteAhead
  BY Constants DEF Init, Net!NetInit, WriteAhead
<1>6. TypeOK
  BY <1>1, <1>3 DEF Init, IInv, TypeOK
<1> QED
  BY <1>1, <1>4, <1>5, <1>6 DEF SInv, IInv

(* Every byte main's clients got into the buffer is handed to the worker   *)
(* once and in order, or still in it, although ringbuff_read and           *)
(* ringbuff_write test data_size before they lock.                         *)
THEOREM RingServerLosesNothing == Spec => []NothingLostInside
<1>1. SInv /\ [Next]_vars => SInv'
  BY WriteStep, ReadStep, OtherSteps DEF Next, Main, Worker
<1>2. SInv => NothingLostInside
  BY DEF SInv, NothingLostInside
<1> QED
  BY <1>1, <1>2, ServerInit, PTL DEF Spec
=============================================================================
