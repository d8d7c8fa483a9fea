---------------------------- MODULE LoopBufProofs ----------------------------
(***************************************************************************)
(* loop_buf.c is a bounded FIFO queue for every buffer length, every width *)
(* of its indices that the length divides, and every transfer size; and    *)
(* the threads of server.c lose no byte in it, however they cross, and     *)
(* keep the bytes of each client in order to the file.                     *)
(***************************************************************************)
EXTENDS LoopServer, SequenceTheorems, TLAPS
-----------------------------------------------------------------------------
(* About %: the backends know the division of a number by a positive one;  *)
(* the rest follows from the uniqueness of quotient and remainder.         *)

(* Division with remainder. *)
LEMMA ModDiv ==
  ASSUME NEW w \in Nat \ {0}, NEW x \in Int
  PROVE  /\ x = w * (x \div w) + (x % w)
         /\ x \div w \in Int
         /\ x % w \in 0 .. w - 1
  BY SMT

(* A remainder in range is the remainder. *)
LEMMA ModUnique ==
  ASSUME NEW w \in Nat \ {0}, NEW q \in Int, NEW r \in 0 .. w - 1,
         NEW x \in Int, x = w * q + r
  PROVE  x % w = r
  BY SMT

(* The three windows in which a counter or a difference of two counters    *)
(* lies, and what reducing it does there.                                  *)
LEMMA ModWindow ==
  ASSUME NEW w \in Nat \ {0}
  PROVE  /\ \A x \in 0 .. w - 1 : x % w = x
         /\ \A x \in w .. 2 * w - 1 : x % w = x - w
         /\ \A x \in -w .. -1 : x % w = x + w
  BY SMT

(* Walking less than a whole turn from x. *)
LEMMA ModStep ==
  ASSUME NEW w \in Nat \ {0}, NEW x \in Int, NEW i \in 0 .. w - 1
  PROVE  (x + i) % w = IF (x % w) + i < w THEN (x % w) + i
                                           ELSE (x % w) + i - w
<1> DEFINE p == x \div w
           s == x % w
           y == x + i
<1>1. p \in Int /\ s \in 0 .. w - 1 /\ x = w * p + s /\ y \in Int
  BY ModDiv
<1>2. CASE s + i < w
  <2> DEFINE r == s + i
  <2>1. y = w * p + r /\ r \in 0 .. w - 1
    BY <1>1, <1>2
  <2> HIDE DEF p, r, y, s
  <2>2. y % w = r
    BY <2>1, <1>1, ModUnique
  <2> QED
    BY <2>2, <1>2 DEF s, r, y
<1>3. CASE s + i >= w
  <2> DEFINE r == s + i - w
             q == p + 1
  <2>1. y = w * q + r /\ r \in 0 .. w - 1 /\ q \in Int
    BY <1>1, <1>3
  <2>2. ~(s + i < w)
    BY <1>3, <1>1
  <2> HIDE DEF p, q, r, y, s
  <2>3. y % w = r
    BY <2>1, <1>1, ModUnique
  <2> QED
    BY <2>2, <2>3 DEF s, r, y
<1> QED
  BY <1>1, <1>2, <1>3

(* Whole turns do not count. *)
LEMMA ModTurns ==
  ASSUME NEW w \in Nat \ {0}, NEW k \in Int, NEW x \in Int
  PROVE  (x + k * w) % w = x % w
<1> DEFINE p == x \div w
           s == x % w
           y == x + k * w
           q == p + k
<1>1. y = w * q + s /\ q \in Int /\ s \in 0 .. w - 1 /\ y \in Int
  BY ModDiv
<1> HIDE DEF p, s, y, q
<1>2. y % w = s
  BY <1>1, ModUnique
<1> QED
  BY <1>2 DEF y, s

LEMMA ModOneTurn ==
  ASSUME NEW w \in Nat \ {0}, NEW x \in Int
  PROVE  (x + w) % w = x % w
<1> DEFINE k == 1
<1>1. x + w = x + k * w /\ k \in Int
  OBVIOUS
<1> HIDE DEF k
<1> QED
  BY <1>1, ModTurns

(* Reducing a counter modulo a multiple of the storage does not move it,   *)
(* nor what is counted from it.                                            *)
LEMMA ModOfMod ==
  ASSUME NEW n \in Nat \ {0}, NEW w \in Nat \ {0}, w % n = 0,
         NEW x \in Int, NEW d \in Int
  PROVE  ((x % w) + d) % n = (x + d) % n
<1> DEFINE m == w \div n
           p == x \div w
           s == x % w
           k == m * p
           y == x + d
           z == s + d
<1>1. w = n * m /\ m \in Int
  BY ModDiv
<1>2. x = w * p + s /\ p \in Int /\ s \in Int
  BY ModDiv
<1>3. x = s + k * n /\ k \in Int /\ s \in Int
  BY <1>1, <1>2
<1> HIDE DEF m, p, k, s
<1>5. y = z + k * n /\ z \in Int
  BY <1>3
<1> HIDE DEF y, z
<1>4. y % n = z % n
  BY <1>3, <1>5, ModTurns
<1> QED
  BY <1>4 DEF s, y, z
-----------------------------------------------------------------------------
(* A queue after n elements of src were put at its end.                    *)
LEMMA PutShape ==
  ASSUME NEW S, NEW q \in Seq(S), NEW src \in Seq(S), NEW n \in 0 .. Len(src),
         NEW r \in Seq(S), Len(r) = Len(q) + n,
         \A i \in 1 .. Len(q) : r[i] = q[i],
         \A i \in 1 .. n : r[Len(q) + i] = src[i]
  PROVE  r = q \o SubSeq(src, 1, n)
<1> DEFINE p == SubSeq(src, 1, n)
<1>1. p \in Seq(S) /\ Len(p) = n /\ \A i \in 1 .. n : p[i] = src[i]
  BY SubSeqProperties
<1> HIDE DEF p
<1>2. /\ q \o p \in Seq(S)
      /\ Len(q \o p) = Len(q) + n
      /\ \A i \in 1 .. Len(q) + n :
           (q \o p)[i] = IF i <= Len(q) THEN q[i] ELSE p[i - Len(q)]
  BY <1>1, ConcatProperties
<1>3. ASSUME NEW i \in 1 .. Len(r)
      PROVE  r[i] = (q \o p)[i]
  <2>1. CASE i <= Len(q)
    <3>1. i \in 1 .. Len(q)
      BY <2>1
    <3> QED
      BY <3>1, <2>1, <1>2
  <2>2. CASE i > Len(q)
    <3> DEFINE j == i - Len(q)
    <3>1. j \in 1 .. n /\ i = Len(q) + j
      BY <2>2
    <3>2. r[i] = src[j]
      BY <3>1
    <3> QED
      BY <3>1, <3>2, <1>1, <1>2, <2>2
  <2>3. i <= Len(q) \/ i > Len(q)
    OBVIOUS
  <2> QED
    BY <2>1, <2>2, <2>3, Zenon
<1>4. r = q \o p
  BY <1>2, <1>3, SeqEqual
<1> QED
  BY <1>4 DEF p

(* The first n elements of a queue, and what is left without them.         *)
LEMMA TakeShape ==
  ASSUME NEW S, NEW q \in Seq(S), NEW n \in 0 .. Len(q),
         NEW r \in Seq(S), Len(r) = n, \A i \in 1 .. n : r[i] = q[i]
  PROVE  r = SubSeq(q, 1, n)
<1>1. /\ SubSeq(q, 1, n) \in Seq(S) /\ Len(SubSeq(q, 1, n)) = n
      /\ \A i \in 1 .. n : SubSeq(q, 1, n)[i] = q[i]
  BY SubSeqProperties
<1> QED
  BY <1>1, SeqEqual

LEMMA DropShape ==
  ASSUME NEW S, NEW q \in Seq(S), NEW n \in 0 .. Len(q),
         NEW r \in Seq(S), Len(r) = Len(q) - n,
         \A i \in 1 .. Len(q) - n : r[i] = q[n + i]
  PROVE  r = SubSeq(q, n + 1, Len(q))
<1> DEFINE d == SubSeq(q, n + 1, Len(q))
<1>1. /\ d \in Seq(S) /\ Len(d) = Len(q) - n
      /\ \A i \in 1 .. Len(q) - n : d[i] = q[n + 1 + i - 1]
  BY SubSeqProperties
<1>2. \A i \in 1 .. Len(q) - n : d[i] = q[n + i]
  BY <1>1
<1> HIDE DEF d
<1>3. r = d
  BY <1>1, <1>2, SeqEqual
<1> QED
  BY <1>3 DEF d
-----------------------------------------------------------------------------
(* What went into a queue is what came out of it and what is left in it.   *)
LEMMA PutHistory ==
  ASSUME NEW S, NEW all \in Seq(S), NEW past \in Seq(S), NEW q \in Seq(S),
         NEW s \in Seq(S), all = past \o q
  PROVE  all \o s = past \o (q \o s)
  BY ConcatAssociative

(* A sequence is what is taken off its front and what is left. *)
FirstOf(q, n) == SubSeq(q, 1, n)
RestOf(q, n) == SubSeq(q, n + 1, Len(q))

LEMMA SplitSeq ==
  ASSUME NEW S, NEW q \in Seq(S), NEW n \in 0 .. Len(q)
  PROVE  /\ FirstOf(q, n) \in Seq(S) /\ RestOf(q, n) \in Seq(S)
         /\ FirstOf(q, n) \o RestOf(q, n) = q
<1>1. FirstOf(q, n) \in Seq(S) /\ RestOf(q, n) \in Seq(S)
  BY SubSeqProperties DEF FirstOf, RestOf
<1> DEFINE a == SubSeq(q, 1, n)
           b == SubSeq(q, n + 1, Len(q))
<1>2. a \o b = q
  <2>1. /\ Len(q) \in Nat /\ 1 \in 1 .. Len(q) + 1
        /\ n \in 1 - 1 .. Len(q) /\ Len(q) \in n .. Len(q)
    OBVIOUS
  <2>2. a \o b = SubSeq(q, 1, Len(q))
    BY <2>1, ConcatAdjacentSubSeq, Zenon
  <2> QED
    BY <2>2, SubSeqFull
<1> QED
  BY <1>1, <1>2, Zenon DEF FirstOf, RestOf

LEMMA SplitHistory ==
  ASSUME NEW S, NEW past \in Seq(S), NEW q \in Seq(S), NEW n \in 0 .. Len(q)
  PROVE  past \o q = (past \o FirstOf(q, n)) \o RestOf(q, n)
<1> DEFINE a == FirstOf(q, n)
           b == RestOf(q, n)
<1>1. a \in Seq(S) /\ b \in Seq(S)
  BY SplitSeq
<1>2. a \o b = q
  BY SplitSeq
<1> HIDE DEF a, b
<1>3. (past \o a) \o b = past \o (a \o b)
  BY <1>1, ConcatAssociative
<1> QED
  BY <1>2, <1>3, Zenon DEF a, b
-----------------------------------------------------------------------------

U == loop_buf_len

(* The inductive invariant: types, and in at most one buffer before out.   *)
IInv == LoopBufTypeOK /\ NeverOverrun

LEMMA Constants ==
  /\ LOOP_BUF_LEN \in Nat \ {0}
  /\ WORD \in Nat \ {0}
  /\ WORD > LOOP_BUF_LEN
  /\ WORD % LOOP_BUF_LEN = 0
  /\ 0 \in Byte
  /\ BUFFER_SIZE \in Nat \ {0}
  BY LoopBufAssumption

(* Reducing a difference or a sum of two indices. *)
LEMMA Reduce ==
  /\ \A x \in 0 .. WORD - 1 : Unsigned(x) = x
  /\ \A x \in WORD .. 2 * WORD - 1 : Unsigned(x) = x - WORD
  /\ \A x \in -WORD .. -1 : Unsigned(x) = x + WORD
  BY Constants, ModWindow DEF Unsigned

(* The bytes held are the distance from out to in, with or without a wrap. *)
LEMMA Held ==
  ASSUME IInv
  PROVE  /\ U \in 0 .. LOOP_BUF_LEN
         /\ U = IF in >= out THEN in - out ELSE in - out + WORD
  BY Constants, Reduce
  DEF U, IInv, LoopBufTypeOK, NeverOverrun, loop_buf_len

(* put_loop_buf computes the free space.                                   *)
LEMMA FreeSpace ==
  ASSUME IInv
  PROVE  Unsigned(LOOP_BUF_LEN - in + out) = LOOP_BUF_LEN - U
<1>1. LOOP_BUF_LEN - in + out \in Int
  BY Constants DEF IInv, LoopBufTypeOK
<1>2. CASE in >= out
  <2>1. LOOP_BUF_LEN - in + out \in 0 .. WORD - 1
    BY <1>2, Held, Constants DEF IInv, LoopBufTypeOK
  <2> QED
    BY <2>1, <1>2, Held, Constants, Reduce DEF IInv, LoopBufTypeOK
<1>3. CASE in < out
  <2>1. LOOP_BUF_LEN - in + out \in WORD .. 2 * WORD - 1
    BY <1>3, Held, Constants DEF IInv, LoopBufTypeOK
  <2> QED
    BY <2>1, <1>3, Held, Constants, Reduce DEF IInv, LoopBufTypeOK
<1> QED
  BY <1>2, <1>3 DEF IInv, LoopBufTypeOK

(* Advancing in by no more than the free space adds that much to U.        *)
LEMMA Advance ==
  ASSUME IInv, NEW n \in 0 .. LOOP_BUF_LEN - U
  PROVE  /\ Unsigned(in + n) \in 0 .. WORD - 1
         /\ Unsigned(Unsigned(in + n) - out) = U + n
<1> DEFINE j == Unsigned(in + n)
<1>1. /\ in \in 0 .. WORD - 1 /\ out \in 0 .. WORD - 1
      /\ U \in 0 .. LOOP_BUF_LEN /\ U + n \in 0 .. WORD - 1
  BY Held, Constants DEF IInv, LoopBufTypeOK
<1>2. j = IF in + n < WORD THEN in + n ELSE in + n - WORD
  BY <1>1, Constants, Reduce, Held
<1>3. j \in 0 .. WORD - 1
  BY <1>1, <1>2, Constants, Held
<1>4. j - out = U + n \/ j - out = U + n - WORD
  BY <1>1, <1>2, Held, Constants
<1> HIDE DEF j
<1>5. Unsigned(j - out) = U + n
  BY <1>1, <1>3, <1>4, Constants, Reduce, Held
<1> QED
  BY <1>3, <1>5 DEF j

(* Advancing out by no more than U takes that much from U; the two indices *)
(* meet exactly when everything is taken.                                  *)
LEMMA Retreat ==
  ASSUME IInv, NEW n \in 0 .. U
  PROVE  /\ Unsigned(out + n) \in 0 .. WORD - 1
         /\ Unsigned(in - Unsigned(out + n)) = U - n
         /\ (Unsigned(out + n) = in) <=> (n = U)
<1> DEFINE o == Unsigned(out + n)
<1>1. /\ in \in 0 .. WORD - 1 /\ out \in 0 .. WORD - 1
      /\ U \in 0 .. LOOP_BUF_LEN /\ U - n \in 0 .. WORD - 1
  BY Held, Constants DEF IInv, LoopBufTypeOK
<1>2. o = IF out + n < WORD THEN out + n ELSE out + n - WORD
  BY <1>1, Constants, Reduce, Held
<1>3. o \in 0 .. WORD - 1
  BY <1>1, <1>2, Constants, Held
<1>4. in - o = U - n \/ in - o = U - n - WORD
  BY <1>1, <1>2, Held, Constants
<1> HIDE DEF o
<1>5. Unsigned(in - o) = U - n
  BY <1>1, <1>3, <1>4, Constants, Reduce, Held
<1>6. o = in <=> n = U
  BY <1>1, <1>3, <1>4, Constants
<1> QED
  BY <1>3, <1>5, <1>6 DEF o
-----------------------------------------------------------------------------
LEMMA SourceTypes ==
  ASSUME NEW src \in Sources
  PROVE  src \in Seq(Byte) /\ Len(src) \in Nat
  BY Constants DEF Sources

LEMMA PutRoom ==
  ASSUME IInv, NEW src \in Sources
  PROVE  /\ PutLen(src) \in 0 .. LOOP_BUF_LEN - U
         /\ PutLen(src) = min(Len(src), LOOP_BUF_LEN - U)
         /\ PutLen(src) <= Len(src)
  BY FreeSpace, Held, SourceTypes, Constants DEF PutLen, min

LEMMA GetStock ==
  ASSUME IInv, NEW want \in 1 .. BUFFER_SIZE
  PROVE  /\ GetLen(want) \in 0 .. U
         /\ GetLen(want) = min(want, U)
  BY Held, Constants DEF GetLen, min, U, loop_buf_len

(* Wrapping an index moves no place counted from it.                       *)
LEMMA MaskUnsigned ==
  ASSUME NEW x \in Int, NEW d \in Int
  PROVE  Mask(Unsigned(x) + d) = Mask(x + d)
  BY Constants, ModOfMod DEF Mask, Unsigned

(* Where the i-th byte held, and the i-th free place, are.                 *)
LEMMA Places ==
  ASSUME IInv
  PROVE  /\ Mask(out) \in Place /\ Mask(in) \in Place
         /\ \A i \in 0 .. LOOP_BUF_LEN - 1 :
              Mask(out + i) = IF Mask(out) + i < LOOP_BUF_LEN
                              THEN Mask(out) + i
                              ELSE Mask(out) + i - LOOP_BUF_LEN
         /\ Mask(in) = IF Mask(out) + U < LOOP_BUF_LEN
                       THEN Mask(out) + U
                       ELSE Mask(out) + U - LOOP_BUF_LEN
<1>1. in \in Int /\ out \in Int /\ U \in 0 .. LOOP_BUF_LEN
  BY Held, Constants DEF IInv, LoopBufTypeOK
<1>2. /\ Mask(out) \in Place
      /\ Mask(in) \in Place
  BY <1>1, Constants, ModDiv DEF Mask, Place
<1>3. \A i \in 0 .. LOOP_BUF_LEN - 1 :
        Mask(out + i) = IF Mask(out) + i < LOOP_BUF_LEN
                        THEN Mask(out) + i
                        ELSE Mask(out) + i - LOOP_BUF_LEN
  BY <1>1, Constants, ModStep DEF Mask
<1>4. Mask(in) = Mask(out + U)
  <2> DEFINE x == out + U
  <2>1. in = Unsigned(x) /\ x \in Int
    BY Retreat, <1>1
  <2> HIDE DEF x
  <2>2. Mask(Unsigned(x) + 0) = Mask(x + 0)
    BY <2>1, MaskUnsigned
  <2> QED
    BY <2>1, <2>2, <1>1 DEF x
<1>5. CASE U = LOOP_BUF_LEN
  <2>1. Mask(out + LOOP_BUF_LEN) = Mask(out)
    BY <1>1, Constants, ModOneTurn DEF Mask
  <2>2. Mask(in) = Mask(out)
    BY <2>1, <1>4, <1>5
  <2> QED
    BY <2>2, <1>2, <1>3, <1>5, Constants DEF Place
<1>6. CASE U \in 0 .. LOOP_BUF_LEN - 1
  BY <1>2, <1>3, <1>4, <1>6
<1> QED
  BY <1>1, <1>2, <1>3, <1>5, <1>6, Constants

(* A put leaves the bytes held where they are ...                          *)
LEMMA PutKeeps ==
  ASSUME IInv, NEW src \in Sources, NEW i \in 0 .. U - 1
  PROVE  PutCopy(src, PutLen(src))[Mask(out + i)] = buffer[Mask(out + i)]
<1>1. /\ U \in 0 .. LOOP_BUF_LEN
      /\ PutLen(src) \in 0 .. LOOP_BUF_LEN - U
  BY Held, PutRoom
<1>2. Mask(out + i) \in Place
  BY <1>1, Places, Constants DEF Place
<1> QED
  BY <1>1, <1>2, Places, Constants DEF PutCopy, min, Place

(* ... and puts the bytes of src behind them.                              *)
LEMMA PutAdds ==
  ASSUME IInv, NEW src \in Sources, NEW i \in U .. U + PutLen(src) - 1
  PROVE  PutCopy(src, PutLen(src))[Mask(out + i)] = src[i - U + 1]
<1>1. /\ U \in 0 .. LOOP_BUF_LEN
      /\ PutLen(src) \in 0 .. LOOP_BUF_LEN - U
  BY Held, PutRoom
<1>2. Mask(out + i) \in Place
  BY <1>1, Places, Constants DEF Place
<1> QED
  BY <1>1, <1>2, Places, Constants DEF PutCopy, min, Place

(* A get copies the oldest bytes held.                                     *)
LEMMA GetTakes ==
  ASSUME IInv, NEW n \in 0 .. U, NEW i \in 1 .. n
  PROVE  GetCopy(n)[i] = buffer[Mask(out + i - 1)]
<1>1. U \in 0 .. LOOP_BUF_LEN
  BY Held
<1>2. out + i - 1 = out + (i - 1) /\ i - 1 \in 0 .. LOOP_BUF_LEN - 1
  BY <1>1, Constants DEF IInv, LoopBufTypeOK
<1> QED
  BY <1>1, <1>2, Places, Constants DEF GetCopy, min, Place
-----------------------------------------------------------------------------
LEMMA InitInvariant == LoopBufInit => IInv
  BY Constants, Reduce
  DEF LoopBufInit, init_loop_buf, IInv, LoopBufTypeOK, NeverOverrun,
      loop_buf_len

LEMMA PutTypes ==
  ASSUME IInv, NEW src \in Sources
  PROVE  PutCopy(src, PutLen(src)) \in [Place -> Byte]
<1> DEFINE n == PutLen(src)
<1>1. n \in 0 .. LOOP_BUF_LEN - U /\ n <= Len(src) /\ U \in 0 .. LOOP_BUF_LEN
  BY PutRoom, Held
<1>2. src \in [1 .. Len(src) -> Byte] /\ Len(src) \in Nat
  BY SourceTypes
<1>3. Mask(in) \in Place /\ LOOP_BUF_LEN \in Nat \ {0}
  BY Places, Constants
<1>4. ASSUME NEW p \in Place
      PROVE  PutCopy(src, n)[p] \in Byte
  <2> DEFINE first == Mask(in)
             l == min(n, LOOP_BUF_LEN - first)
  <2>1. /\ l \in 0 .. n
        /\ first \in 0 .. LOOP_BUF_LEN - 1
        /\ n \in 0 .. Len(src)
    BY <1>1, <1>2, <1>3, Constants DEF min, Place
  <2>2. PutCopy(src, n)[p] = CASE p < n - l -> src[l + p + 1]
                               [] p \in first .. first + l - 1 ->
                                    src[p - first + 1]
                               [] OTHER -> buffer[p]
    BY DEF PutCopy
  <2> HIDE DEF n, l, first
  <2>3. CASE p < n - l
    <3>1. l + p + 1 \in 1 .. Len(src)
      BY <2>1, <2>3, <1>2 DEF Place
    <3> QED
      BY <2>1, <2>2, <2>3, <3>1, <1>2 DEF Place
  <2>4. CASE p >= n - l /\ p \in first .. first + l - 1
    <3>1. p - first + 1 \in 1 .. Len(src)
      BY <2>1, <2>4, <1>2 DEF Place
    <3> QED
      BY <2>1, <2>2, <2>4, <3>1, <1>2 DEF Place
  <2>5. CASE p >= n - l /\ p \notin first .. first + l - 1
    BY <2>1, <2>2, <2>5 DEF Place, IInv, LoopBufTypeOK
  <2> QED
    BY <2>1, <2>3, <2>4, <2>5, <1>2 DEF Place
<1> QED
  BY <1>1, <1>4 DEF PutCopy

LEMMA PutInvariant ==
  ASSUME IInv, NEW src \in Sources, put_loop_buf(src)
  PROVE  IInv' /\ U' = U + PutLen(src)
<1> DEFINE n == PutLen(src)
<1>1. n \in 0 .. LOOP_BUF_LEN - U /\ n <= Len(src) /\ U \in 0 .. LOOP_BUF_LEN
  BY PutRoom, Held
<1>2. in' = Unsigned(in + n) /\ out' = out /\ got' = got
  BY DEF put_loop_buf
<1>3. in' \in 0 .. WORD - 1 /\ U' = U + n
  BY <1>1, <1>2, Advance DEF U, loop_buf_len
<1>4. buffer' \in [Place -> Byte]
  BY PutTypes DEF put_loop_buf
<1> QED
  BY <1>1, <1>2, <1>3, <1>4, Constants
  DEF IInv, LoopBufTypeOK, NeverOverrun, U

LEMMA GetTypes ==
  ASSUME IInv, NEW want \in 1 .. BUFFER_SIZE
  PROVE  GetCopy(GetLen(want)) \in Seq(Byte)
<1> DEFINE n == GetLen(want)
<1>1. n \in 0 .. U /\ U \in 0 .. LOOP_BUF_LEN
  BY GetStock, Held
<1>2. n \in Nat /\ DOMAIN GetCopy(n) = 1 .. n
  BY <1>1 DEF GetCopy
<1>3. ASSUME NEW i \in 1 .. n
      PROVE  GetCopy(n)[i] \in Byte
  <2>1. GetCopy(n)[i] = buffer[Mask(out + (i - 1))]
    <3>1. out + i - 1 = out + (i - 1)
      BY <1>1 DEF IInv, LoopBufTypeOK
    <3> QED
      BY <3>1, <1>1, GetTakes
  <2>2. i - 1 \in 0 .. LOOP_BUF_LEN - 1
    BY <1>1, Constants
  <2>3. Mask(out + (i - 1)) \in Place
    BY <2>2, Places, Constants DEF Place
  <2> QED
    BY <2>1, <2>3 DEF IInv, LoopBufTypeOK
<1> HIDE DEF n
<1>4. GetCopy(n) \in [1 .. n -> Byte]
  BY <1>2, <1>3 DEF GetCopy
<1> QED
  BY <1>2, <1>4 DEF n

LEMMA GetInvariant ==
  ASSUME IInv, NEW want \in 1 .. BUFFER_SIZE, get_loop_buf(want)
  PROVE  /\ IInv'
         /\ U' = U - GetLen(want)
         /\ GetLen(want) < U => out' = Unsigned(out + GetLen(want))
<1> DEFINE n == GetLen(want)
           o == Unsigned(out + n)
<1>1. n \in 0 .. U /\ U \in 0 .. LOOP_BUF_LEN
  BY GetStock, Held
<1>2. /\ o \in 0 .. WORD - 1
      /\ Unsigned(in - o) = U - n
      /\ o = in <=> n = U
  BY <1>1, Retreat
<1>5. /\ in' \in 0 .. WORD - 1 /\ out' \in 0 .. WORD - 1
      /\ U' = U - n
      /\ n < U => out' = o
  <2>1. CASE o = in
    BY <2>1, <1>1, <1>2, Reduce, Constants
    DEF get_loop_buf, U, loop_buf_len
  <2>2. CASE o # in
    BY <2>2, <1>2 DEF get_loop_buf, U, loop_buf_len, IInv, LoopBufTypeOK
  <2> QED
    BY <2>1, <2>2
<1>6. got' \in Seq(Byte) /\ buffer' = buffer
  BY GetTypes DEF get_loop_buf
<1> QED
  BY <1>1, <1>5, <1>6, Constants DEF IInv, LoopBufTypeOK, NeverOverrun, U
-----------------------------------------------------------------------------
LEMMA NextInvariant == IInv /\ [LoopBufNext]_loopBufVars => IInv'
<1> SUFFICES ASSUME IInv, [LoopBufNext]_loopBufVars
             PROVE  IInv'
  OBVIOUS
<1>1. ASSUME NEW src \in Sources, put_loop_buf(src)
      PROVE  IInv'
  BY <1>1, PutInvariant
<1>2. ASSUME NEW want \in 1 .. BUFFER_SIZE, get_loop_buf(want)
      PROVE  IInv'
  BY <1>2, GetInvariant
<1>3. CASE loop_buf_reset
  BY <1>3, Constants, Reduce
  DEF loop_buf_reset, IInv, LoopBufTypeOK, NeverOverrun, loop_buf_len
<1>4. CASE UNCHANGED loopBufVars
  BY <1>4
  DEF loopBufVars, IInv, LoopBufTypeOK, NeverOverrun, loop_buf_len
<1> QED
  BY <1>1, <1>2, <1>3, <1>4 DEF LoopBufNext

(* The indices stay unsigned ints, the storage and the bytes handed out    *)
(* bytes, and in stays within one buffer of out: for every buffer length   *)
(* and every width of the indices that the length divides.                 *)
THEOREM LoopBufInvariant == LoopBufSpec => []IInv
  BY InitInvariant, NextInvariant, PTL DEF LoopBufSpec

(* put_loop_buf never runs over bytes that get_loop_buf has not handed out *)
(* (loop_buf.c:26): NeverOverrun in every reachable state.                 *)
THEOREM LoopBufNeverOverrun == LoopBufSpec => [](LoopBufTypeOK /\ NeverOverrun)
  BY LoopBufInvariant, PTL DEF IInv
-----------------------------------------------------------------------------
(* The queue in terms of the storage: its i-th byte is i - 1 after out.    *)
QueueShape ==
  /\ Queue \in Seq(Byte)
  /\ Len(Queue) = U
  /\ \A i \in 1 .. U : Queue[i] = buffer[Mask(out + (i - 1))]

LEMMA QueueSeq == IInv => QueueShape
<1> SUFFICES ASSUME IInv PROVE QueueShape
  OBVIOUS
<1>1. U \in 0 .. LOOP_BUF_LEN /\ out \in Int
  BY Held, Constants DEF IInv, LoopBufTypeOK
<1>2. ASSUME NEW i \in 1 .. U
      PROVE  /\ out + i - 1 = out + (i - 1)
             /\ buffer[Mask(out + (i - 1))] \in Byte
  <2>1. i - 1 \in 0 .. LOOP_BUF_LEN - 1
    BY <1>1, Constants
  <2>2. Mask(out + (i - 1)) \in Place
    BY <2>1, Places, Constants DEF Place
  <2> QED
    BY <1>1, <2>2 DEF IInv, LoopBufTypeOK
<1>3. Queue \in [1 .. U -> Byte]
  BY <1>2 DEF Queue, U
<1> QED
  BY <1>1, <1>2, <1>3 DEF QueueShape, Queue, U

LEMMA QueueSeqNext == IInv' => QueueShape'
  BY QueueSeq, PTL

LEMMA PutRefines ==
  ASSUME IInv, NEW src \in Sources, put_loop_buf(src)
  PROVE  Fifo!Put(src)
<1> DEFINE n == PutLen(src)
           r == Queue'
<1>1. /\ n \in 0 .. LOOP_BUF_LEN - U /\ n \in 0 .. Len(src)
      /\ n = min(Len(src), LOOP_BUF_LEN - U)
      /\ U \in 0 .. LOOP_BUF_LEN
      /\ src \in Seq(Byte)
  BY PutRoom, Held, SourceTypes
<1>2. IInv' /\ U' = U + n /\ out' = out /\ buffer' = PutCopy(src, n)
  BY PutInvariant DEF put_loop_buf
<1>3. /\ r \in Seq(Byte)
      /\ Len(r) = U + n
      /\ \A i \in 1 .. U + n : r[i] = PutCopy(src, n)[Mask(out + (i - 1))]
  BY <1>2, QueueSeqNext DEF QueueShape
<1>4. Queue \in Seq(Byte) /\ Len(Queue) = U
      /\ \A i \in 1 .. U : Queue[i] = buffer[Mask(out + (i - 1))]
  BY QueueSeq DEF QueueShape
<1>5. \A i \in 1 .. U : r[i] = Queue[i]
  <2> TAKE i \in 1 .. U
  <2>1. i - 1 \in 0 .. U - 1 /\ i \in 1 .. U + n
    BY <1>1
  <2> QED
    BY <2>1, <1>3, <1>4, PutKeeps
<1>6. \A i \in 1 .. n : r[U + i] = src[i]
  <2> TAKE i \in 1 .. n
  <2> DEFINE j == U + i
  <2>1. j - 1 \in U .. U + n - 1 /\ j \in 1 .. U + n /\ (j - 1) - U + 1 = i
    BY <1>1
  <2>2. r[j] = src[(j - 1) - U + 1]
    BY <2>1, <1>3, PutAdds
  <2> QED
    BY <2>1, <2>2
<1> HIDE DEF n, r
<1>7. r = Queue \o SubSeq(src, 1, n)
  BY <1>1, <1>3, <1>4, <1>5, <1>6, PutShape
<1>8. n = Fifo!MinOf(Len(src), LOOP_BUF_LEN - Len(Queue))
  BY <1>1, <1>4, Constants DEF min, Fifo!MinOf
<1> QED
  BY <1>7, <1>8 DEF r, Fifo!Put, put_loop_buf

LEMMA GetRefines ==
  ASSUME IInv, NEW want \in 1 .. BUFFER_SIZE, get_loop_buf(want)
  PROVE  Fifo!Get(want)
<1> DEFINE n == GetLen(want)
           r == Queue'
<1>1. /\ n \in 0 .. U /\ n = min(want, U)
      /\ U \in 0 .. LOOP_BUF_LEN
      /\ out \in Int
  BY GetStock, Held, Constants DEF IInv, LoopBufTypeOK
<1>2. /\ IInv' /\ U' = U - n /\ buffer' = buffer /\ got' = GetCopy(n)
      /\ n < U => out' = Unsigned(out + n)
  BY GetInvariant DEF get_loop_buf
<1>3. /\ Queue \in Seq(Byte) /\ Len(Queue) = U
      /\ \A i \in 1 .. U : Queue[i] = buffer[Mask(out + (i - 1))]
  BY QueueSeq DEF QueueShape
<1>4. /\ r \in Seq(Byte) /\ Len(r) = U - n
      /\ \A i \in 1 .. U - n : r[i] = buffer[Mask(out' + (i - 1))]
  BY <1>2, QueueSeqNext DEF QueueShape
<1>5. \A i \in 1 .. U - n : r[i] = Queue[n + i]
  <2> TAKE i \in 1 .. U - n
  <2> DEFINE x == out + n
             d == i - 1
  <2>1. n < U /\ x \in Int /\ d \in Int /\ n + i \in 1 .. U
        /\ out + ((n + i) - 1) = x + d
    BY <1>1
  <2>2. out' = Unsigned(x)
    BY <2>1, <1>2
  <2> HIDE DEF n, x, d
  <2>3. Mask(out' + d) = Mask(x + d)
    BY <2>1, <2>2, MaskUnsigned
  <2>4. Queue[n + i] = buffer[Mask(x + d)]
    BY <2>1, <1>3
  <2> QED
    BY <2>3, <2>4, <1>4 DEF d
<1>6. /\ got' \in Seq(Byte) /\ Len(got') = n
      /\ \A i \in 1 .. n : got'[i] = Queue[i]
  <2>1. Len(got') = n
    BY <1>1, <1>2 DEF GetCopy
  <2>2. ASSUME NEW i \in 1 .. n
        PROVE  got'[i] = Queue[i]
    <3>1. out + i - 1 = out + (i - 1) /\ i \in 1 .. U
      BY <1>1
    <3> QED
      BY <3>1, <1>1, <1>2, <1>3, GetTakes
  <2> QED
    BY <2>1, <2>2, <1>2 DEF IInv, LoopBufTypeOK
<1> HIDE DEF n, r
<1>7. r = SubSeq(Queue, n + 1, Len(Queue))
  BY <1>1, <1>3, <1>4, <1>5, DropShape
<1>8. got' = SubSeq(Queue, 1, n)
  BY <1>1, <1>3, <1>6, TakeShape
<1>9. n = Fifo!MinOf(want, Len(Queue))
  BY <1>1, <1>3, Constants DEF min, Fifo!MinOf
<1> QED
  BY <1>7, <1>8, <1>9 DEF r, Fifo!Get, Fifo!Take

AtHome == in = 0 /\ out = 0
QueueEmpty == Queue = <<>>

LEMMA EmptyRefines == AtHome => QueueEmpty
<1> SUFFICES ASSUME in = 0, out = 0
             PROVE  Queue = <<>>
  BY DEF AtHome, QueueEmpty
<1>1. loop_buf_len = 0
  BY Reduce, Constants DEF loop_buf_len
<1> DEFINE F(i) == buffer[Mask(out + i - 1)]
<1>2. Queue = [i \in 1 .. 0 |-> F(i)]
  BY <1>1 DEF Queue
<1> HIDE DEF F
<1> QED
  BY <1>2

LEMMA EmptyRefinesNext == AtHome' => QueueEmpty'
  BY EmptyRefines, PTL

LEMMA StepRefines ==
  IInv /\ [LoopBufNext]_loopBufVars => [Fifo!Next]_(Fifo!vars)
<1> SUFFICES ASSUME IInv, [LoopBufNext]_loopBufVars
             PROVE  [Fifo!Next]_(Fifo!vars)
  OBVIOUS
<1>1. ASSUME NEW src \in Sources, put_loop_buf(src)
      PROVE  Fifo!Next
  BY <1>1, PutRefines DEF Fifo!Next, Fifo!Sources, Sources
<1>2. ASSUME NEW want \in 1 .. BUFFER_SIZE, get_loop_buf(want)
      PROVE  Fifo!Next
  BY <1>2, GetRefines DEF Fifo!Next
<1>3. CASE loop_buf_reset
  BY <1>3, EmptyRefinesNext
  DEF AtHome, QueueEmpty, loop_buf_reset, Fifo!Next, Fifo!Reset
<1>4. CASE UNCHANGED loopBufVars
  BY <1>4 DEF loopBufVars, Fifo!vars, Queue, loop_buf_len
<1> QED
  BY <1>1, <1>2, <1>3, <1>4 DEF LoopBufNext

(* loop_buf.c is a bounded FIFO byte queue: every call of put_loop_buf     *)
(* and get_loop_buf does to the bytes held what the queue's Put and Get    *)
(* do, for every buffer length, index width and transfer size.             *)
THEOREM LoopBufImplementsFifo == LoopBufSpec => LoopBufIsFifo
<1>1. LoopBufInit => Fifo!Init
  BY EmptyRefines DEF AtHome, QueueEmpty, LoopBufInit, init_loop_buf, Fifo!Init
<1> QED
  BY <1>1, StepRefines, LoopBufInvariant, PTL
  DEF LoopBufSpec, LoopBufIsFifo, Fifo!Spec
-----------------------------------------------------------------------------
(* The threads around the buffer.  The mutex belongs to the thread that is *)
(* between its copy and its change of the indices; what it has copied      *)
(* stays so until then.                                                    *)
Hands ==
  /\ mpc # "loop" <=> mutex = "main"
  /\ wpc \in {"copy", "advance"} <=> mutex = "worker"
  /\ mpc # "loop" => chunk # << >> /\ mlen = PutLen(chunk)
  /\ mpc = "advance" => buffer = PutCopy(chunk, mlen)
  /\ wpc = "advance" => got = GetCopy(GetLen(BUFFER_SIZE))
  /\ Len(chunk) <= BUFFER_SIZE
SInv ==
  /\ TypeOK /\ NeverOverrun
  /\ Hands
  /\ accepted = handed \o Queue

LEMMA ServerConstants ==
  /\ Clients \in Nat \ {0} /\ Stream \in Nat \ {0}
  /\ Net!AllBytes \subseteq Byte
  BY LoopServerAssumption DEF Net!AllBytes

(* The bytes of a client have numbers of their own. *)
LEMMA Numbered ==
  ASSUME NEW c \in Net!Client, NEW k \in 1 .. Stream
  PROVE  Net!Id(c, k) \in Net!AllBytes
<1>1. c \in 1 .. Clients /\ c - 1 \in Nat /\ Clients - c \in Nat
  BY ServerConstants DEF Net!Client
<1>2. (c - 1) * Stream \in Nat /\ (Clients - c) * Stream \in Nat
  BY <1>1, ServerConstants
<1>3. (c - 1) * Stream + Stream + (Clients - c) * Stream = Clients * Stream
  BY <1>1, ServerConstants
<1> QED
  BY <1>2, <1>3, ServerConstants DEF Net!Id, Net!AllBytes

LEMMA ClienteleTypes ==
  ASSUME Net!NetTypeOK, Net!ClientStep
  PROVE  Net!NetTypeOK' /\ chunk' = chunk
<1> PICK c \in Net!Client : Net!Connect(c) \/ Net!Send(c) \/ Net!HangUp(c)
  BY DEF Net!ClientStep
<1>1. CASE Net!Connect(c)
  BY <1>1 DEF Net!Connect, Net!NetTypeOK
<1>2. CASE Net!Send(c)
  <2>1. PICK n \in 1 .. Stream - sent[c] : sent' = [sent EXCEPT ![c] = @ + n]
    BY <1>2 DEF Net!Send
  <2>2. sent[c] + n \in 0 .. Stream
    BY <2>1, ServerConstants DEF Net!NetTypeOK
  <2> QED
    BY <1>2, <2>1, <2>2 DEF Net!Send, Net!NetTypeOK
<1>3. CASE Net!HangUp(c)
  BY <1>3 DEF Net!HangUp, Net!NetTypeOK
<1> QED
  BY <1>1, <1>2, <1>3

LEMMA ServerTypes ==
  ASSUME Net!NetTypeOK, Net!ServerStep
  PROVE  Net!NetTypeOK' /\ (Len(chunk') <= BUFFER_SIZE \/ chunk' = chunk)
<1>1. CASE Net!Select
  BY <1>1 DEF Net!Select, Net!Ready, Net!NetTypeOK
<1>2. CASE Net!Accept
  BY <1>2 DEF Net!Accept, Net!NetTypeOK
<1>3. ASSUME NEW c \in Net!Client, Net!Read(c)
      PROVE  Net!NetTypeOK' /\ Len(chunk') <= BUFFER_SIZE
  <2>1. PICK n \in 1 .. BUFFER_SIZE :
          /\ n <= sent[c] - taken[c]
          /\ chunk' = [i \in 1 .. n |-> Net!Id(c, taken[c] + i)]
          /\ taken' = [taken EXCEPT ![c] = @ + n]
    BY <1>3 DEF Net!Read
  <2>2. /\ taken[c] \in 0 .. Stream /\ sent[c] \in 0 .. Stream /\ n \in Nat
        /\ taken[c] + n \in 0 .. Stream
    BY <2>1, ServerConstants, Constants DEF Net!NetTypeOK
  <2>3. ASSUME NEW i \in 1 .. n
        PROVE  Net!Id(c, taken[c] + i) \in Net!AllBytes
    <3>1. taken[c] + i \in 1 .. Stream
      BY <2>2, ServerConstants
    <3> QED
      BY <3>1, Numbered
  <2>4. chunk' \in [1 .. n -> Net!AllBytes]
    BY <2>1, <2>3
  <2>5. chunk' \in Seq(Net!AllBytes) /\ Len(chunk') = n
    BY <2>2, <2>4
  <2>6. taken' \in [Net!Client -> 0 .. Stream]
    BY <2>1, <2>2 DEF Net!NetTypeOK
  <2> QED
    BY <1>3, <2>1, <2>5, <2>6, Constants DEF Net!Read, Net!NetTypeOK
<1>4. ASSUME NEW c \in Net!Client, Net!Close(c)
      PROVE  Net!NetTypeOK' /\ chunk' = chunk
  BY <1>4 DEF Net!Close, Net!NetTypeOK
<1> QED
  BY <1>1, <1>2, <1>3, <1>4 DEF Net!ServerStep, Net!Select, Net!Accept

LEMMA StateOfServer ==
  ASSUME SInv
  PROVE  /\ IInv
         /\ Queue \in Seq(Byte) /\ Len(Queue) = U
         /\ accepted \in Seq(Byte) /\ handed \in Seq(Byte)
         /\ chunk \in Seq(Byte)
         /\ chunk # << >> => chunk \in Sources
<1>1. IInv
  BY DEF SInv, TypeOK, IInv
<1>2. chunk \in Seq(Byte) /\ Len(chunk) <= BUFFER_SIZE
  BY ServerConstants DEF SInv, TypeOK, Net!NetTypeOK, Hands
<1>3. chunk # << >> => chunk \in Sources
  <2> SUFFICES ASSUME chunk # << >> PROVE chunk \in Sources
    OBVIOUS
  <2>1. Len(chunk) \in 1 .. BUFFER_SIZE /\ chunk \in [1 .. Len(chunk) -> Byte]
    BY <1>2, Constants
  <2> QED
    BY <2>1 DEF Sources
<1> QED
  BY <1>1, <1>2, <1>3, QueueSeq DEF QueueShape, SInv, TypeOK

LEMMA MainCopyStep ==
  ASSUME SInv, MainCopy
  PROVE  SInv' /\ Queue' = Queue
<1>1. /\ mpc = "copy" /\ chunk \in Sources /\ mlen = PutLen(chunk)
      /\ buffer' = PutCopy(chunk, PutLen(chunk)) /\ mpc' = "advance"
  BY StateOfServer DEF MainCopy, SInv, Hands
<1>2. UNCHANGED <<in, out, got, netVars, chunk, mutex, mlen, wpc, accepted,
                  handed, file>>
  BY DEF MainCopy
<1>3. IInv' /\ U' = U
  BY <1>1, <1>2, StateOfServer, PutTypes
  DEF IInv, LoopBufTypeOK, NeverOverrun, U, loop_buf_len
<1>4. Queue' = Queue
  <2>1. \A i \in 1 .. U : buffer'[Mask(out + (i - 1))]
                            = buffer[Mask(out + (i - 1))]
    <3> TAKE i \in 1 .. U
    <3>1. i - 1 \in 0 .. U - 1
      BY StateOfServer, Held
    <3> QED
      BY <1>1, <3>1, StateOfServer, PutKeeps
  <2>2. QueueShape /\ QueueShape'
    BY <1>3, StateOfServer, QueueSeq, QueueSeqNext
  <2> DEFINE r == Queue'
             q == Queue
  <2>3. /\ r \in Seq(Byte) /\ q \in Seq(Byte) /\ Len(r) = U /\ Len(q) = U
        /\ \A i \in 1 .. U : r[i] = q[i]
    BY <1>2, <1>3, <2>1, <2>2 DEF QueueShape
  <2> HIDE DEF r, q
  <2>4. r = q
    BY <2>3
  <2> QED
    BY <2>4 DEF r, q
<1>5. TypeOK'
  <2>1. Net!NetTypeOK'
    BY <1>2 DEF SInv, TypeOK, Net!NetTypeOK, netVars
  <2> QED
    BY <1>1, <1>2, <1>3, <2>1 DEF SInv, TypeOK, IInv
<1>6. Hands'
  <2>1. mutex = "main" /\ mutex' = "main" /\ wpc' \notin {"copy", "advance"}
    BY <1>1, <1>2 DEF SInv, Hands
  <2>2. PutLen(chunk)' = PutLen(chunk)
    BY <1>2 DEF PutLen
  <2>3. PutLen(chunk) \in Nat
    BY <1>1, StateOfServer, PutRoom, Held, Constants
  <2>4. PutCopy(chunk, mlen)' = buffer'
    <3>1. PutCopy(chunk, mlen)' = [p \in Place |->
             CASE p < mlen - min(mlen, LOOP_BUF_LEN - Mask(in)) ->
                    chunk[min(mlen, LOOP_BUF_LEN - Mask(in)) + p + 1]
               [] p \in Mask(in) ..
                    Mask(in) + min(mlen, LOOP_BUF_LEN - Mask(in)) - 1 ->
                    chunk[p - Mask(in) + 1]
               [] OTHER -> buffer'[p]]
      BY <1>2 DEF PutCopy
    <3> QED
      BY <1>1, <3>1 DEF PutCopy
  <2> QED
    BY <1>1, <1>2, <2>1, <2>2, <2>4 DEF SInv, Hands
<1> QED
  BY <1>2, <1>3, <1>4, <1>5, <1>6 DEF SInv, IInv

(* The call of put_loop_buf ends.                                          *)
LEMMA MainPuts ==
  ASSUME SInv, MainAdvance
  PROVE  /\ chunk \in Sources /\ mlen = PutLen(chunk)
         /\ put_loop_buf(chunk)
<1>1. /\ mpc = "advance" /\ chunk \in Sources /\ mlen = PutLen(chunk)
      /\ buffer = PutCopy(chunk, mlen)
  BY StateOfServer DEF MainAdvance, SInv, Hands
<1> QED
  BY <1>1 DEF MainAdvance, put_loop_buf

LEMMA MainAdvanceStep ==
  ASSUME SInv, MainAdvance
  PROVE  /\ SInv' /\ mlen \in 0 .. Len(chunk)
         /\ Queue' = Queue \o FirstOf(chunk, mlen)
<1>1. IInv' /\ Fifo!Put(chunk)
  BY MainPuts, StateOfServer, PutInvariant, PutRefines
<1> DEFINE s == SubSeq(chunk, 1, mlen)
<1>2. /\ mlen \in 0 .. Len(chunk)
      /\ mlen = Fifo!MinOf(Len(chunk), LOOP_BUF_LEN - Len(Queue))
  <2>1. /\ mlen \in 0 .. LOOP_BUF_LEN - U
        /\ mlen = min(Len(chunk), LOOP_BUF_LEN - U)
        /\ mlen <= Len(chunk)
    BY MainPuts, StateOfServer, PutRoom
  <2>2. U \in Nat /\ Len(chunk) \in Nat /\ Len(Queue) = U
    BY StateOfServer, Held
  <2> QED
    BY <2>1, <2>2, Constants DEF min, Fifo!MinOf
<1>3. Queue' = Queue \o s
  BY <1>1, <1>2 DEF Fifo!Put
<1>4. s \in Seq(Byte)
  BY <1>2, StateOfServer, SubSeqProperties
<1>5. accepted' = accepted \o s /\ handed' = handed
  BY DEF MainAdvance
<1> HIDE DEF s
<1>6. accepted' = handed' \o Queue' /\ accepted' \in Seq(Byte)
  <2>1. /\ accepted = handed \o Queue /\ accepted \in Seq(Byte)
        /\ handed \in Seq(Byte) /\ Queue \in Seq(Byte)
    BY StateOfServer DEF SInv
  <2>2. accepted \o s = handed \o (Queue \o s)
    BY <1>4, <2>1, PutHistory
  <2>3. accepted \o s \in Seq(Byte)
    BY <1>4, <2>1, ConcatProperties
  <2> QED
    BY <1>3, <1>5, <2>2, <2>3
<1>7. /\ chunk' = << >> /\ mutex' = "free" /\ mpc' = "loop" /\ mlen' = 0
      /\ UNCHANGED <<got, netVars, wpc, file>>
  BY DEF MainAdvance
<1>8. TypeOK'
  <2>1. Net!NetTypeOK'
    <3>1. << >> \in Seq(Net!AllBytes)
      OBVIOUS
    <3> QED
      BY <1>7, <3>1 DEF SInv, TypeOK, Net!NetTypeOK, netVars
  <2> QED
    BY <1>1, <1>5, <1>6, <1>7, <2>1, Constants DEF SInv, TypeOK, IInv
<1>9. Hands'
  <2>1. mutex = "main"
    BY DEF SInv, Hands, MainAdvance
  <2> QED
    BY <1>7, <2>1, Constants DEF SInv, Hands
<1> QED
  BY <1>1, <1>2, <1>3, <1>6, <1>8, <1>9 DEF SInv, IInv, FirstOf, s

(* The call of get_loop_buf ends.                                          *)
LEMMA WorkerGets ==
  ASSUME SInv, WorkerAdvance
  PROVE  get_loop_buf(BUFFER_SIZE)
<1> DEFINE n == GetLen(BUFFER_SIZE)
<1>1. got = GetCopy(n) /\ got' = got /\ buffer' = buffer
  BY DEF SInv, Hands, WorkerAdvance, WorkerAt
<1>2. n \in Nat
  BY StateOfServer, GetStock, Held, Constants
<1>3. Len(got) = n
  BY <1>1, <1>2 DEF GetCopy
<1> QED
  BY <1>1, <1>3 DEF WorkerAdvance, get_loop_buf

LEMMA WorkerAdvanceStep ==
  ASSUME SInv, WorkerAdvance
  PROVE  /\ SInv'
         /\ \E n \in 0 .. Len(Queue) : /\ got = FirstOf(Queue, n)
                                      /\ Queue' = RestOf(Queue, n)
<1>1. BUFFER_SIZE \in 1 .. BUFFER_SIZE
  BY Constants
<1>2. IInv' /\ Fifo!Get(BUFFER_SIZE)
  BY <1>1, WorkerGets, StateOfServer, GetInvariant, GetRefines
<1>3. PICK n \in 0 .. Len(Queue) : Fifo!Take(n)
  <2>1. Len(Queue) \in Nat
    BY StateOfServer, Held
  <2> QED
    BY <1>2, <2>1, Constants DEF Fifo!Get, Fifo!MinOf
<1>4. /\ got' = SubSeq(Queue, 1, n)
      /\ Queue' = SubSeq(Queue, n + 1, Len(Queue))
  BY <1>3 DEF Fifo!Take
<1>5. got' \in Seq(Byte)
  BY <1>2 DEF IInv, LoopBufTypeOK
<1>6. /\ accepted = handed \o Queue /\ accepted \in Seq(Byte)
      /\ handed \in Seq(Byte) /\ Queue \in Seq(Byte)
  BY StateOfServer DEF SInv
<1>7. /\ handed' = handed \o got' /\ accepted' = accepted
      /\ mutex' = "free" /\ wpc' = "write"
      /\ UNCHANGED <<netVars, chunk, mpc, mlen, file>>
  BY DEF WorkerAdvance, WorkerAt
<1>8. accepted' = handed' \o Queue' /\ handed' \in Seq(Byte)
  <2>1. accepted = (handed \o SubSeq(Queue, 1, n))
                     \o SubSeq(Queue, n + 1, Len(Queue))
    <3>1. \A q \in Seq(Byte) : \A k \in 0 .. Len(q) :
            handed \o q = (handed \o FirstOf(q, k)) \o RestOf(q, k)
      BY <1>6, SplitHistory
    <3>2. handed \o Queue = (handed \o FirstOf(Queue, n)) \o RestOf(Queue, n)
      BY <1>3, <1>6, <3>1, Zenon
    <3> QED
      BY <1>6, <3>2, Zenon DEF FirstOf, RestOf
  <2>3. handed \o got' \in Seq(Byte)
    BY <1>5, <1>6, ConcatProperties
  <2> QED
    BY <1>4, <1>7, <2>1, <2>3
<1>9. TypeOK'
  <2>1. Net!NetTypeOK'
    BY <1>7 DEF SInv, TypeOK, Net!NetTypeOK, netVars
  <2> QED
    BY <1>2, <1>7, <1>8, <2>1 DEF SInv, TypeOK, IInv
<1>10. Hands'
  <2>1. mutex = "worker"
    BY DEF SInv, Hands, WorkerAdvance, WorkerAt
  <2>2. mpc = "loop"
    BY <2>1 DEF SInv, Hands
  <2> QED
    BY <1>7, <2>2 DEF SInv, Hands
<1>11. got = FirstOf(Queue, n) /\ Queue' = RestOf(Queue, n)
  BY <1>4 DEF WorkerAdvance, FirstOf, RestOf
<1> QED
  BY <1>2, <1>8, <1>9, <1>10, <1>11 DEF SInv, IInv

(* A step that changes neither the buffer nor the histories.               *)
LEMMA SameBuffer ==
  ASSUME SInv, UNCHANGED <<buffer, in, out>>, got' \in Seq(Byte)
  PROVE  IInv' /\ Queue' = Queue
  BY DEF SInv, TypeOK, IInv, LoopBufTypeOK, NeverOverrun, Queue, loop_buf_len,
         Mask

LEMMA OtherSteps ==
  ASSUME SInv,
         Clientele \/ MainLoop \/ MainLock \/ WorkerOpen \/ WorkerPoll
           \/ WorkerLock \/ WorkerCopy \/ WorkerWrite \/ UNCHANGED vars
  PROVE  SInv' /\ Queue' = Queue
<1>1. /\ UNCHANGED <<buffer, in, out, accepted, handed>>
      /\ got' \in Seq(Byte)
  <2>1. CASE WorkerCopy
    <3>1. BUFFER_SIZE \in 1 .. BUFFER_SIZE
      BY Constants
    <3> QED
      BY <2>1, <3>1, StateOfServer, GetTypes DEF WorkerCopy
  <2>2. CASE ~WorkerCopy
    BY <2>2 DEF SInv, TypeOK, LoopBufTypeOK, Clientele, MainLoop, MainLock,
                WorkerOpen, WorkerPoll, WorkerLock, WorkerWrite, vars,
                loopBufVars, threadVars
  <2> QED
    BY <2>1, <2>2
<1>2. IInv' /\ Queue' = Queue
  BY <1>1, SameBuffer
<1>3. /\ mutex' \in {"free", "main", "worker"}
      /\ mpc' \in {"loop", "copy", "advance"}
      /\ wpc' \in {"open", "exited", "poll", "lock", "copy", "advance",
                   "write"}
  BY DEF SInv, TypeOK, Clientele, MainLoop, MainLock, WorkerOpen, WorkerPoll,
         WorkerLock, WorkerCopy, WorkerWrite, WorkerAt, vars, threadVars
<1>4. mlen' \in 0 .. BUFFER_SIZE
  <2>1. CASE MainLock
    <3>1. chunk \in Sources /\ mlen' = PutLen(chunk)
      BY <2>1, StateOfServer DEF MainLock
    <3>2. PutLen(chunk) \in 0 .. Len(chunk)
      BY <3>1, StateOfServer, PutRoom, Held, SourceTypes, Constants
    <3>3. Len(chunk) \in 0 .. BUFFER_SIZE
      BY <3>1, SourceTypes, Constants DEF SInv, Hands
    <3> QED
      BY <3>1, <3>2, <3>3, Constants
  <2>2. CASE ~MainLock
    BY <2>2 DEF SInv, TypeOK, Clientele, MainLoop, WorkerOpen, WorkerPoll,
                WorkerLock, WorkerCopy, WorkerWrite, vars, threadVars
  <2> QED
    BY <2>1, <2>2
<1>5. Net!NetTypeOK'
  <2>1. CASE Clientele \/ MainLoop
    BY <2>1, ClienteleTypes, ServerTypes
    DEF Clientele, MainLoop, SInv, TypeOK
  <2>2. CASE ~(Clientele \/ MainLoop)
    <3>1. UNCHANGED <<netVars, chunk>>
      BY <2>2 DEF MainLock, WorkerOpen, WorkerPoll, WorkerLock, WorkerCopy,
                  WorkerWrite, vars
    <3> QED
      BY <3>1 DEF SInv, TypeOK, Net!NetTypeOK, netVars
  <2> QED
    BY <2>1, <2>2
<1>6. file' \in Seq(Byte)
  <2>1. CASE WorkerWrite
    <3>1. PICK n \in 0 .. Len(got) : file' = file \o SubSeq(got, 1, n)
      BY <2>1 DEF WorkerWrite
    <3>2. file \in Seq(Byte) /\ got \in Seq(Byte)
      BY DEF SInv, TypeOK, LoopBufTypeOK
    <3>3. SubSeq(got, 1, n) \in Seq(Byte)
      BY <3>2, SubSeqProperties
    <3> QED
      BY <3>1, <3>2, <3>3, ConcatProperties
  <2>2. CASE ~WorkerWrite
    BY <2>2 DEF SInv, TypeOK, Clientele, MainLoop, MainLock, WorkerOpen,
                WorkerPoll, WorkerLock, WorkerCopy, vars, threadVars
  <2> QED
    BY <2>1, <2>2
<1>7. Hands'
  <2>1. GetCopy(GetLen(BUFFER_SIZE))' = GetCopy(GetLen(BUFFER_SIZE))
    BY <1>1 DEF GetCopy, GetLen
  <2>2. ASSUME UNCHANGED <<chunk, mpc, mlen>>
        PROVE  /\ mpc' # "loop" => chunk' # << >> /\ mlen' = PutLen(chunk)'
               /\ mpc' = "advance" => buffer' = PutCopy(chunk, mlen)'
               /\ Len(chunk') <= BUFFER_SIZE
    <3>1. PutLen(chunk)' = PutLen(chunk)
      BY <1>1, <2>2 DEF PutLen
    <3>2. PutCopy(chunk, mlen)' = PutCopy(chunk, mlen)
      BY <1>1, <2>2 DEF PutCopy
    <3> QED
      BY <1>1, <2>2, <3>1, <3>2 DEF SInv, Hands
  <2>3. CASE Clientele
    BY <2>1, <2>2, <2>3, ClienteleTypes
    DEF Clientele, threadVars, loopBufVars, SInv, TypeOK, Hands
  <2>4. CASE MainLoop
    BY <2>1, <2>4, ServerTypes
    DEF MainLoop, threadVars, loopBufVars, SInv, TypeOK, Hands
  <2>5. CASE MainLock
    <3>1. PutLen(chunk)' = PutLen(chunk)
      BY <1>1, <2>5 DEF MainLock, PutLen
    <3> QED
      BY <2>1, <2>5, <3>1 DEF MainLock, SInv, Hands
  <2>6. CASE WorkerCopy
    BY <2>1, <2>2, <2>6 DEF WorkerCopy, WorkerAt, SInv, Hands
  <2>7. CASE WorkerOpen \/ WorkerPoll \/ WorkerLock \/ WorkerWrite
             \/ UNCHANGED vars
    BY <2>1, <2>2, <2>7
    DEF WorkerOpen, WorkerPoll, WorkerLock, WorkerWrite, WorkerAt, vars,
        threadVars, loopBufVars, SInv, Hands
  <2> QED
    BY <2>3, <2>4, <2>5, <2>6, <2>7
<1> QED
  BY <1>1, <1>2, <1>3, <1>4, <1>5, <1>6, <1>7 DEF SInv, TypeOK, IInv

LEMMA ServerInit == Init => SInv
<1> SUFFICES ASSUME Init PROVE SInv
  OBVIOUS
<1>1. IInv
  BY InitInvariant DEF Init
<1>2. Queue = << >>
  <2>1. AtHome
    BY DEF Init, LoopBufInit, init_loop_buf, AtHome
  <2> QED
    BY <2>1, EmptyRefines DEF QueueEmpty
<1>3. Net!NetTypeOK
  BY ServerConstants DEF Init, Net!NetInit, Net!NetTypeOK
<1>4. accepted = handed \o Queue
  BY <1>2 DEF Init
<1>5. Hands
  BY Constants DEF Init, Net!NetInit, Hands
<1>6. TypeOK
  BY <1>1, <1>3, Constants DEF Init, IInv, TypeOK
<1> QED
  BY <1>1, <1>4, <1>5, <1>6 DEF SInv, IInv

LEMMA ServerNext == SInv /\ [Next]_vars => SInv'
  BY MainCopyStep, MainAdvanceStep, WorkerAdvanceStep, OtherSteps
  DEF Next, Main, Worker

(* Every byte put is handed to the worker once and in order, or still in   *)
(* the buffer, however main's copies and changes of the indices fall       *)
(* between the worker's: the mutex is enough.                              *)
THEOREM LoopServerLosesNothing == Spec => []NothingLostInside
<1>1. SInv => NothingLostInside
  BY DEF SInv, NothingLostInside
<1> QED
  BY <1>1, ServerInit, ServerNext, PTL DEF Spec

(* main drops bytes of a read only when the put filled the buffer to its   *)
(* last place.                                                             *)
THEOREM LoopServerDropsOnlyWhenFull == Spec => DropsOnlyWhenFull
<1> DEFINE Drop == mpc = "advance" /\ mpc' = "loop" /\ mlen < Len(chunk)
                     => loop_buf_len' = LOOP_BUF_LEN
<1>1. ASSUME SInv, [Next]_vars
      PROVE  [Drop]_vars
  <2> SUFFICES ASSUME Next, mpc = "advance", mpc' = "loop", mlen < Len(chunk)
               PROVE  loop_buf_len' = LOOP_BUF_LEN
    BY <1>1
  <2>1. MainAdvance
    BY <1>1 DEF Next, Main, Worker, Clientele, MainLoop, MainLock, MainCopy,
                WorkerOpen, WorkerPoll, WorkerLock, WorkerCopy,
                WorkerAdvance, WorkerWrite, threadVars
  <2>2. /\ chunk \in Sources /\ mlen = PutLen(chunk) /\ put_loop_buf(chunk)
        /\ IInv
    BY <1>1, <2>1, MainPuts, StateOfServer
  <2>3. U' = U + PutLen(chunk) /\ U \in 0 .. LOOP_BUF_LEN
    BY <2>2, PutInvariant, Held
  <2>4. PutLen(chunk) = min(Len(chunk), LOOP_BUF_LEN - U)
    BY <2>2, PutRoom
  <2> QED
    BY <2>2, <2>3, <2>4, SourceTypes, Constants DEF min, U
<1>2. SInv /\ [Next]_vars => [Drop]_vars
  BY <1>1
<1> QED
  BY <1>2, ServerInit, ServerNext, PTL DEF Spec, DropsOnlyWhenFull
-----------------------------------------------------------------------------
(* The way of a byte: chunk, the buffer, the piece the worker is about to  *)
(* write, the file.  Along it the bytes of each client stay in order.      *)
Owner(b) == (b - 1) \div Stream

Ordered(x) ==
  \A i, j \in 1 .. Len(x) : i < j /\ Owner(x[i]) = Owner(x[j]) => x[i] < x[j]

(* Of one client, what is in x was sent before what is in y.               *)
Before(x, y) ==
  \A i \in 1 .. Len(x), j \in 1 .. Len(y) :
    Owner(x[i]) = Owner(y[j]) => x[i] < y[j]

(* No byte of x is still to be read, when t bytes have been.               *)
ReadBy(x, t) ==
  \A i \in 1 .. Len(x), c \in Net!Client :
    Owner(x[i]) = c - 1 => x[i] <= Net!Id(c, t[c])

(* x is a piece of y, k places on.                                         *)
Piece(x, y, k) ==
  /\ k \in Nat /\ k + Len(x) <= Len(y)
  /\ \A i \in 1 .. Len(x) : x[i] = y[k + i]

LEMMA Pieces ==
  ASSUME NEW S, NEW q \in Seq(S), NEW n \in 0 .. Len(q)
  PROVE  /\ Piece(FirstOf(q, n), q, 0) /\ Len(FirstOf(q, n)) = n
         /\ Piece(RestOf(q, n), q, n) /\ Len(RestOf(q, n)) = Len(q) - n
  BY DEF Piece, FirstOf, RestOf

LEMMA OfPiece ==
  ASSUME NEW S, NEW x \in Seq(S), NEW y \in Seq(S), NEW z \in Seq(S),
         NEW k, Piece(x, y, k), NEW t
  PROVE  /\ Ordered(y) => Ordered(x)
         /\ Before(y, z) => Before(x, z)
         /\ Before(z, y) => Before(z, x)
         /\ ReadBy(y, t) => ReadBy(x, t)
<1>1. /\ Len(x) \in Nat /\ Len(y) \in Nat /\ Len(z) \in Nat /\ k \in Nat
      /\ \A i \in 1 .. Len(x) : i + k \in 1 .. Len(y) /\ x[i] = y[i + k]
  BY DEF Piece
<1>2. Ordered(y) => Ordered(x)
  BY <1>1 DEF Ordered
<1>3. Before(y, z) => Before(x, z)
  BY <1>1 DEF Before
<1>4. Before(z, y) => Before(z, x)
  BY <1>1 DEF Before
<1>5. ReadBy(y, t) => ReadBy(x, t)
  BY <1>1 DEF ReadBy
<1> QED
  BY <1>2, <1>3, <1>4, <1>5

LEMMA OfConcat ==
  ASSUME NEW S, NEW x \in Seq(S), NEW y \in Seq(S), NEW z \in Seq(S), NEW t
  PROVE  /\ Ordered(x) /\ Ordered(y) /\ Before(x, y) => Ordered(x \o y)
         /\ Before(x, z) /\ Before(y, z) => Before(x \o y, z)
         /\ Before(z, x) /\ Before(z, y) => Before(z, x \o y)
         /\ ReadBy(x, t) /\ ReadBy(y, t) => ReadBy(x \o y, t)
<1> DEFINE w == x \o y
<1>1. /\ Len(x) \in Nat /\ Len(y) \in Nat /\ Len(z) \in Nat
      /\ Len(w) = Len(x) + Len(y)
      /\ \A i \in 1 .. Len(w) : \/ i \in 1 .. Len(x) /\ w[i] = x[i]
                                \/ /\ i - Len(x) \in 1 .. Len(y)
                                   /\ i > Len(x)
                                   /\ w[i] = y[i - Len(x)]
  OBVIOUS
<1> HIDE DEF w
<1>2. Ordered(x) /\ Ordered(y) /\ Before(x, y) => Ordered(w)
  <2> SUFFICES ASSUME Ordered(x), Ordered(y), Before(x, y),
                      NEW i \in 1 .. Len(w), NEW j \in 1 .. Len(w), i < j,
                      Owner(w[i]) = Owner(w[j])
               PROVE  w[i] < w[j]
    BY DEF Ordered
  <2>1. i \in Nat /\ j \in Nat
    BY <1>1
  <2>2. CASE j \in 1 .. Len(x) /\ w[j] = x[j]
    <3>1. i \in 1 .. Len(x) /\ w[i] = x[i]
      BY <1>1, <2>1, <2>2
    <3> QED
      BY <2>2, <3>1 DEF Ordered
  <2>3. CASE i \in 1 .. Len(x) /\ w[i] = x[i]
    BY <1>1, <2>2, <2>3 DEF Before
  <2>4. CASE /\ i - Len(x) \in 1 .. Len(y) /\ w[i] = y[i - Len(x)]
             /\ j - Len(x) \in 1 .. Len(y) /\ w[j] = y[j - Len(x)]
    <3>1. i - Len(x) < j - Len(x)
      BY <1>1, <2>1
    <3> QED
      BY <2>4, <3>1 DEF Ordered
  <2> QED
    BY <1>1, <2>2, <2>3, <2>4
<1>3. Before(x, z) /\ Before(y, z) => Before(w, z)
  BY <1>1 DEF Before
<1>4. Before(z, x) /\ Before(z, y) => Before(z, w)
  BY <1>1 DEF Before
<1>5. ReadBy(x, t) /\ ReadBy(y, t) => ReadBy(w, t)
  BY <1>1 DEF ReadBy
<1> QED
  BY <1>2, <1>3, <1>4, <1>5 DEF w

(* The parts of the way hold bytes of the clients, each client's in order. *)
Way(a, b, c, d, t) ==
  /\ a \in Seq(Net!AllBytes) /\ b \in Seq(Net!AllBytes)
  /\ c \in Seq(Net!AllBytes) /\ d \in Seq(Net!AllBytes)
  /\ Ordered(a) /\ Ordered(b) /\ Ordered(c) /\ Ordered(d)
  /\ Before(a, b) /\ Before(a, c) /\ Before(a, d)
  /\ Before(b, c) /\ Before(b, d) /\ Before(c, d)
  /\ ReadBy(a, t) /\ ReadBy(b, t) /\ ReadBy(c, t) /\ ReadBy(d, t)

LEMMA NothingYet ==
  /\ << >> \in Seq(Net!AllBytes) /\ Ordered(<< >>)
  /\ \A x, t : Before(x, << >>) /\ Before(<< >>, x) /\ ReadBy(<< >>, t)
  BY DEF Ordered, Before, ReadBy

LEMMA WayPut ==
  ASSUME NEW a, NEW b, NEW c, NEW d, NEW t, Way(a, b, c, d, t),
         NEW n \in 0 .. Len(d)
  PROVE  Way(a, b, c \o FirstOf(d, n), << >>, t)
<1> DEFINE p == FirstOf(d, n)
           S == Net!AllBytes
<1>1. /\ a \in Seq(S) /\ b \in Seq(S) /\ c \in Seq(S) /\ d \in Seq(S)
      /\ p \in Seq(S)
  BY SplitSeq DEF Way
<1>2. Piece(p, d, 0)
  BY <1>1, Pieces
<1> HIDE DEF p, S
<1>3. /\ Ordered(p) /\ Before(a, p) /\ Before(b, p) /\ Before(c, p)
      /\ ReadBy(p, t)
  BY <1>1, <1>2, OfPiece DEF Way
<1>4. c \o p \in Seq(S)
  BY <1>1, ConcatProperties
<1>5. /\ Ordered(c \o p) /\ Before(a, c \o p) /\ Before(b, c \o p)
      /\ ReadBy(c \o p, t)
  BY <1>1, <1>3, OfConcat DEF Way
<1> QED
  BY <1>4, <1>5, NothingYet DEF Way, p, S

LEMMA WayTake ==
  ASSUME NEW a, NEW c, NEW d, NEW t, Way(a, << >>, c, d, t),
         NEW n \in 0 .. Len(c)
  PROVE  Way(a, FirstOf(c, n), RestOf(c, n), d, t)
<1> DEFINE p == FirstOf(c, n)
           r == RestOf(c, n)
           S == Net!AllBytes
<1>1. /\ a \in Seq(S) /\ c \in Seq(S) /\ d \in Seq(S)
      /\ p \in Seq(S) /\ r \in Seq(S)
  BY SplitSeq DEF Way
<1>2. Piece(p, c, 0) /\ Piece(r, c, n) /\ Len(p) = n
  BY <1>1, Pieces
<1> HIDE DEF p, r, S
<1>3. Ordered(p) /\ Before(a, p) /\ Before(p, d) /\ ReadBy(p, t)
  BY <1>1, <1>2, OfPiece DEF Way
<1>4. Ordered(r) /\ Before(a, r) /\ Before(r, d) /\ ReadBy(r, t)
  BY <1>1, <1>2, OfPiece DEF Way
<1>5. Before(p, r)
  <2>1. /\ Len(p) \in Nat /\ Len(r) \in Nat /\ Len(c) \in Nat /\ n \in Nat
        /\ \A i \in 1 .. Len(p) : i \in 1 .. Len(c) /\ p[i] = c[i]
        /\ \A j \in 1 .. Len(r) : j + n \in 1 .. Len(c) /\ r[j] = c[j + n]
    BY <1>1, <1>2 DEF Piece
  <2>2. Ordered(c)
    BY DEF Way
  <2> QED
    BY <1>2, <2>1, <2>2 DEF Ordered, Before
<1> QED
  BY <1>1, <1>3, <1>4, <1>5 DEF Way, p, r, S

LEMMA WayWrite ==
  ASSUME NEW a, NEW b, NEW c, NEW d, NEW t, Way(a, b, c, d, t),
         NEW n \in 0 .. Len(b)
  PROVE  Way(a \o FirstOf(b, n), << >>, c, d, t)
<1> DEFINE p == FirstOf(b, n)
           S == Net!AllBytes
<1>1. /\ a \in Seq(S) /\ b \in Seq(S) /\ c \in Seq(S) /\ d \in Seq(S)
      /\ p \in Seq(S)
  BY SplitSeq DEF Way
<1>2. Piece(p, b, 0)
  BY <1>1, Pieces
<1> HIDE DEF p, S
<1>3. /\ Ordered(p) /\ Before(a, p) /\ Before(p, c) /\ Before(p, d)
      /\ ReadBy(p, t)
  BY <1>1, <1>2, OfPiece DEF Way
<1>4. a \o p \in Seq(S)
  BY <1>1, ConcatProperties
<1>5. /\ Ordered(a \o p) /\ Before(a \o p, c) /\ Before(a \o p, d)
      /\ ReadBy(a \o p, t)
  BY <1>1, <1>3, OfConcat DEF Way
<1> QED
  BY <1>4, <1>5, NothingYet DEF Way, p, S

LEMMA OwnerOfId ==
  ASSUME NEW c \in Net!Client, NEW k \in 1 .. Stream
  PROVE  Owner(Net!Id(c, k)) = c - 1
<1> DEFINE x == Net!Id(c, k) - 1
           q == x \div Stream
<1>1. c \in 1 .. Clients /\ c - 1 \in Nat /\ Stream \in Nat \ {0}
  BY ServerConstants DEF Net!Client
<1>2. (c - 1) * Stream \in Nat /\ x = (c - 1) * Stream + (k - 1) /\ x \in Nat
  BY <1>1 DEF Net!Id
<1>3. q = c - 1
  BY <1>1, <1>2
<1> QED
  BY <1>3 DEF Owner

(* What the server reads next is younger than all it has read.             *)
LEMMA WayRead ==
  ASSUME NEW a, NEW b, NEW q, NEW t \in [Net!Client -> 0 .. Stream],
         Way(a, b, q, << >>, t), NEW c \in Net!Client,
         NEW n \in 0 .. Stream - t[c]
  PROVE  Way(a, b, q, [i \in 1 .. n |-> Net!Id(c, t[c] + i)],
             [t EXCEPT ![c] = @ + n])
<1> DEFINE u == [t EXCEPT ![c] = @ + n]
           d == [i \in 1 .. n |-> Net!Id(c, t[c] + i)]
           S == Net!AllBytes
<1>1. /\ \A e \in Net!Client : t[e] \in 0 .. Stream /\ e \in Nat
      /\ Stream \in Nat \ {0} /\ n \in Nat /\ t[c] + n \in 0 .. Stream
  BY ServerConstants DEF Net!Client
<1>2. \A i \in 1 .. n : /\ t[c] + i \in 1 .. Stream
                        /\ d[i] = Net!Id(c, t[c] + i)
                        /\ d[i] \in S /\ Owner(d[i]) = c - 1
  BY <1>1, Numbered, OwnerOfId
<1>3. d \in Seq(S) /\ Len(d) = n
  BY <1>1, <1>2
<1>4. \A e \in Net!Client : u[e] \in Nat /\ t[e] <= u[e]
  BY <1>1
<1>5. u[c] = t[c] + n
  OBVIOUS
<1> HIDE DEF d, u
<1>6. \A e \in Net!Client : \A j, k \in Nat :
        /\ j < k => Net!Id(e, j) < Net!Id(e, k)
        /\ j <= k => Net!Id(e, j) <= Net!Id(e, k)
        /\ Net!Id(e, j) \in Int
  BY <1>1 DEF Net!Id
<1>7. Ordered(d)
  BY <1>1, <1>2, <1>3, <1>6 DEF Ordered
<1>8. ReadBy(d, u)
  <2> SUFFICES ASSUME NEW i \in 1 .. Len(d), NEW e \in Net!Client,
                      Owner(d[i]) = e - 1
               PROVE  d[i] <= Net!Id(e, u[e])
    BY DEF ReadBy
  <2>1. i \in 1 .. n /\ e = c
    BY <1>1, <1>2, <1>3
  <2>2. d[i] = Net!Id(c, t[c] + i) /\ t[c] + i \in Nat /\ u[c] \in Nat
        /\ t[c] + i <= u[c]
    BY <1>1, <1>2, <1>5, <2>1
  <2> QED
    BY <1>6, <2>1, <2>2
<1>9. ASSUME NEW x \in Seq(S), ReadBy(x, t)
      PROVE  Before(x, d) /\ ReadBy(x, u)
  <2>1. \A i \in 1 .. Len(x) : x[i] \in S /\ x[i] \in Int
    <3>1. \A i \in 1 .. Len(x) : x[i] \in S
      OBVIOUS
    <3>2. S \subseteq Int
      BY ServerConstants DEF Net!AllBytes, S
    <3> QED
      BY <3>1, <3>2
  <2>2. Before(x, d)
    <3> SUFFICES ASSUME NEW i \in 1 .. Len(x), NEW j \in 1 .. Len(d),
                        Owner(x[i]) = Owner(d[j])
                 PROVE  x[i] < d[j]
      BY DEF Before
    <3>1. j \in 1 .. n /\ Owner(x[i]) = c - 1 /\ d[j] = Net!Id(c, t[c] + j)
      BY <1>2, <1>3
    <3>2. x[i] <= Net!Id(c, t[c])
      BY <1>9, <3>1 DEF ReadBy
    <3>3. Net!Id(c, t[c]) < d[j] /\ Net!Id(c, t[c]) \in Int /\ d[j] \in Int
      <4>1. t[c] \in Nat /\ t[c] + j \in Nat /\ t[c] < t[c] + j
        BY <1>1, <3>1
      <4> QED
        BY <1>6, <3>1, <4>1
    <3> QED
      BY <2>1, <3>2, <3>3
  <2>3. ReadBy(x, u)
    <3> SUFFICES ASSUME NEW i \in 1 .. Len(x), NEW e \in Net!Client,
                        Owner(x[i]) = e - 1
                 PROVE  x[i] <= Net!Id(e, u[e])
      BY DEF ReadBy
    <3>1. x[i] <= Net!Id(e, t[e])
      BY <1>9 DEF ReadBy
    <3>2. Net!Id(e, t[e]) <= Net!Id(e, u[e]) /\ Net!Id(e, u[e]) \in Int
          /\ Net!Id(e, t[e]) \in Int
      <4>1. t[e] \in Nat /\ u[e] \in Nat /\ t[e] <= u[e]
        BY <1>1, <1>4
      <4> QED
        BY <1>6, <4>1
    <3> QED
      BY <2>1, <3>1, <3>2
  <2> QED
    BY <2>2, <2>3
<1> QED
  BY <1>3, <1>7, <1>8, <1>9 DEF Way, d, u

(* What the worker has in hand between a get and the write.                *)
Carried == IF wpc = "write" THEN got ELSE << >>

OnTheWay == Way(file, Carried, Queue, chunk, taken)

LEMMA OrderKept ==
  ASSUME SInv, OnTheWay, [Next]_vars
  PROVE  OnTheWay'
<1>1. CASE MainAdvance
  <2>1. /\ mlen \in 0 .. Len(chunk) /\ chunk' = << >>
        /\ Queue' = Queue \o FirstOf(chunk, mlen)
        /\ UNCHANGED <<file, got, wpc, taken>>
    BY <1>1, MainAdvanceStep DEF MainAdvance, netVars
  <2> QED
    BY <2>1, WayPut DEF OnTheWay, Carried
<1>2. CASE WorkerAdvance
  <2>1. PICK n \in 0 .. Len(Queue) : /\ got = FirstOf(Queue, n)
                                     /\ Queue' = RestOf(Queue, n)
    BY <1>2, WorkerAdvanceStep
  <2>2. /\ wpc = "advance" /\ wpc' = "write"
        /\ UNCHANGED <<file, got, chunk, taken>>
    BY <1>2 DEF WorkerAdvance, WorkerAt, netVars
  <2> QED
    BY <2>1, <2>2, WayTake DEF OnTheWay, Carried
<1>3. CASE WorkerWrite
  <2>1. PICK n \in 0 .. Len(got) : file' = file \o FirstOf(got, n)
    BY <1>3 DEF WorkerWrite, FirstOf
  <2>2. /\ wpc = "write" /\ wpc' = "poll"
        /\ UNCHANGED <<chunk, taken>>
    BY <1>3 DEF WorkerWrite, WorkerAt, netVars
  <2>3. Queue' = Queue
    BY <1>3, OtherSteps
  <2> QED
    BY <2>1, <2>2, <2>3, WayWrite DEF OnTheWay, Carried
<1>4. ASSUME NEW c \in Net!Client, Net!Read(c), MainLoop
      PROVE  OnTheWay'
  <2>1. /\ chunk = << >> /\ UNCHANGED <<file, got, wpc>>
    BY <1>4 DEF MainLoop, Net!Read, Net!Turn, loopBufVars, threadVars
  <2>2. Queue' = Queue
    BY <1>4, OtherSteps
  <2>3. PICK n \in 1 .. BUFFER_SIZE :
          /\ n <= sent[c] - taken[c]
          /\ chunk' = [i \in 1 .. n |-> Net!Id(c, taken[c] + i)]
          /\ taken' = [taken EXCEPT ![c] = @ + n]
    BY <1>4 DEF Net!Read
  <2>4. taken \in [Net!Client -> 0 .. Stream] /\ n \in 0 .. Stream - taken[c]
    BY <2>3, ServerConstants, Constants DEF SInv, TypeOK, Net!NetTypeOK
  <2> QED
    BY <2>1, <2>2, <2>3, <2>4, WayRead DEF OnTheWay, Carried
<1>5. CASE \/ Clientele \/ MainLock \/ MainCopy \/ WorkerOpen \/ WorkerPoll
           \/ WorkerLock \/ WorkerCopy \/ UNCHANGED vars
           \/ MainLoop /\ ~(\E c \in Net!Client : Net!Read(c))
  <2>1. Queue' = Queue
    BY <1>5, OtherSteps, MainCopyStep
  <2>2. UNCHANGED <<file, chunk, taken>>
    BY <1>5 DEF Clientele, MainLoop, MainLock, MainCopy, WorkerOpen,
                WorkerPoll, WorkerLock, WorkerCopy, vars, netVars, threadVars,
                Net!ClientStep, Net!Connect, Net!Send, Net!HangUp,
                Net!ServerStep, Net!Select, Net!Accept, Net!Close
  <2>3. Carried' = Carried
    BY <1>5 DEF Carried, Clientele, MainLoop, MainLock, MainCopy, WorkerOpen,
                WorkerPoll, WorkerLock, WorkerCopy, WorkerAt, vars, threadVars,
                loopBufVars
  <2> QED
    BY <2>1, <2>2, <2>3 DEF OnTheWay
<1> QED
  BY <1>1, <1>2, <1>3, <1>4, <1>5 DEF Next, Main, Worker

LEMMA OrderAtFirst == Init => OnTheWay
<1> SUFFICES ASSUME Init PROVE OnTheWay
  OBVIOUS
<1>1. Queue = << >>
  <2>1. AtHome
    BY DEF Init, LoopBufInit, init_loop_buf, AtHome
  <2> QED
    BY <2>1, EmptyRefines DEF QueueEmpty
<1>2. file = << >> /\ Carried = << >> /\ chunk = << >>
  BY DEF Init, Net!NetInit, Carried
<1> QED
  BY <1>1, <1>2, NothingYet DEF OnTheWay, Way

(* The bytes of one client reach the file in the order it sent them and at *)
(* most once, whatever the server dropped and the disk refused.            *)
THEOREM LoopServerKeepsOrder == Spec => []ClientOrderKept
<1>1. SInv /\ OnTheWay /\ [Next]_vars => OnTheWay'
  BY OrderKept
<1>2. OnTheWay => ClientOrderKept
  BY DEF OnTheWay, Way, Ordered, Owner, ClientOrderKept
<1> QED
  BY <1>1, <1>2, ServerInit, ServerNext, OrderAtFirst, PTL DEF Spec
=============================================================================
