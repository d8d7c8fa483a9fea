------------------------------- MODULE LoopBuf -------------------------------
(***************************************************************************)
(* Tcp_Transferring_Files/loop_buf.c: the loop buffer.  in and out are     *)
(* unsigned ints that run freely and wrap at WORD; an index is masked to a *)
(* place in the buffer only when bytes are copied.  Every operation here   *)
(* is one call made with the buffer's mutex held; LoopServer takes the     *)
(* calls apart.                                                            *)
(***************************************************************************)
EXTENDS Integers, Sequences

CONSTANTS LOOP_BUF_LEN,   \* the bytes the buffer holds, a power of two
          WORD,           \* the values of an unsigned int (2^32)
          Byte,           \* the values of a byte
          BUFFER_SIZE     \* the largest transfer a caller asks for

ASSUME LoopBufAssumption ==
  /\ LOOP_BUF_LEN \in Nat \ {0}
  /\ WORD \in Nat /\ WORD > LOOP_BUF_LEN /\ WORD % LOOP_BUF_LEN = 0
  /\ 0 \in Byte
  /\ BUFFER_SIZE \in Nat \ {0}

VARIABLES buffer,   \* the storage
          in,       \* bytes ever put, modulo WORD
          out,      \* bytes ever got, modulo WORD
          got       \* the caller's bytes after the last get

loopBufVars == <<buffer, in, out, got>>

Place == 0 .. LOOP_BUF_LEN - 1
min(a, b) == IF a < b THEN a ELSE b

Unsigned(x) == x % WORD
Mask(i) == i % LOOP_BUF_LEN

init_loop_buf ==
  /\ buffer = [p \in Place |-> 0]
  /\ in = 0
  /\ out = 0

loop_buf_len == Unsigned(in - out)

(* Mutant: room for one byte more than the storage has. *)
PutLenOverrun(src) == min(Len(src), Unsigned(LOOP_BUF_LEN - in + out + 1))

(* Mutant: one place is always left empty. *)
PutLenShy(src) == min(Len(src), LOOP_BUF_LEN - 1 - Unsigned(in - out))

(* What put_loop_buf copies: len bytes of src from in on, wrapping once.   *)
PutLen(src) == min(Len(src), Unsigned(LOOP_BUF_LEN - in + out))

PutCopy(src, len) ==
  LET first == Mask(in)
      l     == min(len, LOOP_BUF_LEN - first)
  IN  [p \in Place |-> CASE p < len - l                   -> src[l + p + 1]
                         [] p \in first .. first + l - 1  -> src[p - first + 1]
                         [] OTHER                         -> buffer[p]]

put_loop_buf(src) ==
  LET len == PutLen(src)
  IN  /\ buffer' = PutCopy(src, len)
      /\ in' = Unsigned(in + len)
      /\ UNCHANGED <<out, got>>

(* What get_loop_buf copies: len bytes from out on, wrapping once.         *)
GetLen(len) == min(len, Unsigned(in - out))

GetCopy(len) ==
  LET first == Mask(out)
      l     == min(len, LOOP_BUF_LEN - first)
  IN  [i \in 1..len |-> IF i <= l THEN buffer[first + i - 1]
                                  ELSE buffer[i - l - 1]]

(* Mutant: the emptiness test made before out has moved. *)
GetHomeEarly(want) ==
  LET len == GetLen(want)
  IN  /\ got' = GetCopy(len)
      /\ out' = (IF out = in THEN 0 ELSE Unsigned(out + len))
      /\ in' = (IF out = in \/ len = in - out THEN 0 ELSE in)
      /\ UNCHANGED buffer

(* An emptied buffer starts again at place 0.                              *)
get_loop_buf(want) ==
  LET len == GetLen(want)
      o   == Unsigned(out + len)
  IN  /\ got' = GetCopy(len)
      /\ out' = (IF o = in THEN 0 ELSE o)
      /\ in' = (IF o = in THEN 0 ELSE in)
      /\ UNCHANGED buffer

loop_buf_reset == in' = 0 /\ out' = 0 /\ UNCHANGED <<buffer, got>>

Sources == UNION {[1..n -> Byte] : n \in 1..BUFFER_SIZE}

LoopBufInit == init_loop_buf /\ got = <<>>

LoopBufNext ==
  \/ \E src \in Sources : put_loop_buf(src)
  \/ \E want \in 1..BUFFER_SIZE : get_loop_buf(want)
  \/ loop_buf_reset

LoopBufSpec == LoopBufInit /\ [][LoopBufNext]_loopBufVars
-----------------------------------------------------------------------------
(* The bytes put and not yet got, oldest first.                            *)
Queue == [i \in 1..loop_buf_len |-> buffer[Mask(out + i - 1)]]

Fifo == INSTANCE ByteFifo WITH
          queue <- Queue, Capacity <- LOOP_BUF_LEN, Chunk <- BUFFER_SIZE,
          ShortGet <- FALSE

(* The storage holds bytes, the indices are unsigned ints, and the last    *)
(* get handed out at most a buffer of bytes.                               *)
LoopBufTypeOK ==
  /\ buffer \in [Place -> Byte]
  /\ in \in 0 .. WORD - 1
  /\ out \in 0 .. WORD - 1
  /\ got \in Seq(Byte)

(* However often the indices wrap, in never runs more than one buffer      *)
(* ahead of out: put_loop_buf's LOOP_BUF_LEN - in + out is the free space  *)
(* and get_loop_buf's in - out the bytes held, in unsigned arithmetic.     *)
NeverOverrun == loop_buf_len <= LOOP_BUF_LEN

(* put_loop_buf and get_loop_buf are a bounded FIFO queue: bytes come out  *)
(* once, unchanged and in order, across the end of the storage, across the *)
(* wrap of in and out and across the return to place 0 of an empty buffer. *)
LoopBufIsFifo == Fifo!Spec
=============================================================================
