------------------------------ MODULE RingBuff ------------------------------
(***************************************************************************)
(* Tcp_Transferring_Files/ringbuff/ringbuff.c: the ring buffer.  Pointers  *)
(* are offsets from startp, so endp is buffer_size; a pointer may rest at  *)
(* endp.  Every operation here is a whole call; RingServer takes the check *)
(* a call makes before it locks apart from its body.                       *)
(***************************************************************************)
EXTENDS Integers, Sequences

CONSTANTS buffer_size,   \* the bytes the storage has
          Byte,          \* the values of a byte
          BUFFER_SIZE    \* the largest transfer a caller asks for

ASSUME RingBuffAssumption ==
  /\ buffer_size \in Nat \ {0}
  /\ BUFFER_SIZE \in Nat \ {0}
  /\ 0 \in Byte

VARIABLES store,       \* the storage, startp[0 .. buffer_size - 1]
          rdp,         \* where the next byte is read
          wrp,         \* where the next byte is written
          data_size,   \* the bytes held, as the code counts them
          got          \* the caller's bytes after the last read

ringVars == <<store, rdp, wrp, data_size, got>>

Place == 0 .. buffer_size - 1
endp == buffer_size
min(a, b) == IF a < b THEN a ELSE b

(* malloc leaves the storage as it was. *)
ringbuff_init(fill) ==
  /\ store = fill
  /\ rdp = 0 /\ wrp = 0 /\ data_size = 0

(* A pointer n bytes on, back at startp when it passes endp. *)
Advance(p, n) == IF n > endp - p THEN p + n - buffer_size ELSE p + n

(* Mutant: a read stops at the end of the storage. *)
ReadLenToEnd(len) == min(len, IF wrp >= rdp THEN wrp - rdp ELSE endp - rdp)

(* The bytes a read takes.  wrp = rdp counts as empty here, as it does in  *)
(* the body of a write, where it leaves the whole buffer free.             *)
ReadLen(len) ==
  IF wrp >= rdp THEN min(len, wrp - rdp)
                ELSE min(len, buffer_size - (rdp - wrp))

ReadCopy(len) ==
  LET l == min(len, endp - rdp)
  IN  [i \in 1..len |-> IF i <= l THEN store[rdp + i - 1]
                                   ELSE store[i - l - 1]]

(* Mutant: wrapped reads start over at place 1. *)
ReadBodyShifted(want) ==
  LET len == ReadLen(want)
  IN  /\ got' = ReadCopy(len)
      /\ rdp' = IF len > endp - rdp THEN rdp + len + 1 - buffer_size
                                    ELSE rdp + len
      /\ data_size' = data_size - len
      /\ UNCHANGED <<store, wrp>>

(* What ringbuff_read does with the mutex held. *)
ReadBody(want) ==
  LET len == ReadLen(want)
  IN  /\ got' = ReadCopy(len)
      /\ rdp' = Advance(rdp, len)
      /\ data_size' = data_size - len
      /\ UNCHANGED <<store, wrp>>

ringbuff_read(want) ==
  IF data_size = 0 THEN got' = <<>> /\ UNCHANGED <<store, rdp, wrp, data_size>>
                   ELSE ReadBody(want)

WriteLen(src) ==
  IF wrp >= rdp THEN min(Len(src), buffer_size - (wrp - rdp))
                ELSE min(Len(src), rdp - wrp)

WriteCopy(src, len) ==
  LET l == min(len, endp - wrp)
  IN  [p \in Place |-> CASE p < len - l              -> src[l + p + 1]
                         [] p \in wrp .. wrp + l - 1 -> src[p - wrp + 1]
                         [] OTHER                    -> store[p]]

(* What ringbuff_write does with the mutex held. *)
WriteBody(src) ==
  LET len == WriteLen(src)
  IN  /\ store' = WriteCopy(src, len)
      /\ wrp' = Advance(wrp, len)
      /\ data_size' = data_size + len
      /\ UNCHANGED <<rdp, got>>

ringbuff_write(src) ==
  IF data_size = buffer_size THEN UNCHANGED ringVars ELSE WriteBody(src)

ringbuff_reset ==
  rdp' = 0 /\ wrp' = 0 /\ data_size' = 0 /\ UNCHANGED <<store, got>>

Sources == UNION {[1..n -> Byte] : n \in 1..BUFFER_SIZE}

RingBuffInit ==
  /\ \E fill \in [Place -> Byte] : ringbuff_init(fill)
  /\ got = <<>>

RingBuffNext ==
  \/ \E src \in Sources : ringbuff_write(src)
  \/ \E want \in 1..BUFFER_SIZE : ringbuff_read(want)
  \/ ringbuff_reset

RingBuffSpec == RingBuffInit /\ [][RingBuffNext]_ringVars
-----------------------------------------------------------------------------
(* Storage of bytes, pointers from startp to endp inclusive, a count up to *)
(* the size of the storage.                                                *)
RingBuffTypeOK ==
  /\ store \in [Place -> Byte]
  /\ rdp \in 0 .. endp
  /\ wrp \in 0 .. endp
  /\ data_size \in 0 .. buffer_size
  /\ got \in Seq(Byte)

(* The count and the pointers, kept by different assignments, agree up to  *)
(* a whole turn: what data_size counts are the bytes from rdp to wrp.      *)
CountMatchesPointers ==
  data_size \in {wrp - rdp, wrp - rdp + buffer_size}

(* Where the i-th byte after rdp is. *)
Slot(i) == IF rdp + i < endp THEN rdp + i ELSE rdp + i - buffer_size

(* The bytes written and not yet read, oldest first. *)
Queue == [i \in 1..data_size |-> store[Slot(i - 1)]]

LooseFifo == INSTANCE ByteFifo WITH
  queue <- Queue, Capacity <- buffer_size, Chunk <- BUFFER_SIZE,
  ShortGet <- TRUE

(* ringbuff.c loses, repeats and reorders no byte, and takes as much of a  *)
(* write as fits; a read may hand out less than there is.                  *)
RingBuffKeepsOrder == LooseFifo!Spec
=============================================================================
