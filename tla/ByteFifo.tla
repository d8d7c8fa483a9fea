------------------------------ MODULE ByteFifo ------------------------------
(***************************************************************************)
(* What the byte buffers of Tcp_Transferring_Files promise their callers:  *)
(* a bounded first-in first-out queue of bytes.  put takes the longest     *)
(* prefix of the caller's bytes that fits, get hands out the longest       *)
(* prefix of the queue that the caller's buffer holds, or, with ShortGet,  *)
(* a shorter one.  loop_buf.c is shown to implement the former, ringbuff.c *)
(* the latter.                                                             *)
(***************************************************************************)
EXTENDS Naturals, Sequences

CONSTANTS Byte,       \* the values a byte can take
          Capacity,   \* the bytes the buffer holds
          Chunk,      \* the largest transfer a caller asks for
          ShortGet    \* TRUE: a get may hand out less than there is

VARIABLES queue,      \* the bytes put and not yet got, oldest first
          got         \* the bytes the last get handed out

vars == <<queue, got>>

MinOf(a, b) == IF a <= b THEN a ELSE b

Sources == UNION {[1..n -> Byte] : n \in 1..Chunk}

Init == queue = <<>> /\ got = <<>>

Put(src) ==
  /\ queue' = queue \o SubSeq(src, 1, MinOf(Len(src), Capacity - Len(queue)))
  /\ UNCHANGED got

Take(n) ==
  /\ got' = SubSeq(queue, 1, n)
  /\ queue' = SubSeq(queue, n + 1, Len(queue))

Get(len) ==
  \/ Take(MinOf(len, Len(queue)))
  \/ ShortGet /\ \E n \in 0..MinOf(len, Len(queue)) : Take(n)

Reset == queue' = <<>> /\ UNCHANGED got

Next ==
  \/ \E src \in Sources : Put(src)
  \/ \E len \in 1..Chunk : Get(len)
  \/ Reset

Spec == Init /\ [][Next]_vars
=============================================================================
