----------------------------- MODULE LoopServer -----------------------------
(***************************************************************************)
(* Tcp_Transferring_Files/server.c built with LOOP_BUF: the main thread    *)
(* reads from its clients and puts into the loop buffer, the thread        *)
(* write_data2file gets from it and writes the file.  The mutex is taken   *)
(* around a put and around a get; the length the worker polls is read      *)
(* without it.  A call's copy and its change of the indices are two steps. *)
(***************************************************************************)
EXTENDS LoopBuf

CONSTANTS Clients, Stream,
          DiskFaults    \* TRUE: open and write may fail

ASSUME LoopServerAssumption ==
  /\ Clients \in Nat \ {0} /\ Stream \in Nat \ {0}
  /\ DiskFaults \in BOOLEAN
  /\ 1 .. Clients * Stream \subseteq Byte

VARIABLES peer, sent, gone, taken, is_connected, readfds, chunk,
          mutex,      \* "free", "main" or "worker"
          mpc,        \* where main is in offering chunk to the buffer
          mlen,       \* put_loop_buf's len
          wpc,        \* where write_data2file is
          accepted,   \* history: the bytes put, in order
          handed,     \* history: the bytes got, in order
          file        \* the bytes in test.h264

Net == INSTANCE SelectLoop

netVars == <<peer, sent, gone, taken, is_connected, readfds>>
threadVars == <<mutex, mpc, mlen, wpc, accepted, handed, file>>
vars == <<loopBufVars, netVars, chunk, threadVars>>

Init ==
  /\ LoopBufInit
  /\ Net!NetInit
  /\ mutex = "free" /\ mpc = "loop" /\ mlen = 0 /\ wpc = "open"
  /\ accepted = <<>> /\ handed = <<>> /\ file = <<>>

Clientele == Net!ClientStep /\ UNCHANGED <<loopBufVars, threadVars>>

MainLoop ==
  /\ mpc = "loop"
  /\ Net!ServerStep
  /\ UNCHANGED <<loopBufVars, threadVars>>

(* Mutant: the put made without the mutex. *)
MainBarges ==
  /\ mpc = "loop" /\ chunk # <<>>
  /\ mpc' = "copy" /\ mlen' = PutLen(chunk)
  /\ UNCHANGED <<loopBufVars, netVars, chunk, mutex, wpc, accepted, handed,
                 file>>

MainLock ==
  /\ mpc = "loop" /\ chunk # <<>>
  /\ mutex = "free"
  /\ mutex' = "main"
  /\ mpc' = "copy" /\ mlen' = PutLen(chunk)
  /\ UNCHANGED <<loopBufVars, netVars, chunk, wpc, accepted, handed, file>>

MainCopy ==
  /\ mpc = "copy"
  /\ buffer' = PutCopy(chunk, mlen)
  /\ mpc' = "advance"
  /\ UNCHANGED <<in, out, got, netVars, chunk, mutex, mlen, wpc, accepted,
                 handed, file>>

(* What did not fit is gone: server.c ignores what put_loop_buf returns. *)
MainAdvance ==
  /\ mpc = "advance"
  /\ in' = Unsigned(in + mlen)
  /\ accepted' = accepted \o SubSeq(chunk, 1, mlen)
  /\ chunk' = <<>>
  /\ mutex' = "free"
  /\ mpc' = "loop" /\ mlen' = 0
  /\ UNCHANGED <<buffer, out, got, netVars, wpc, handed, file>>

WorkerAt(from, to) == wpc = from /\ wpc' = to

WorkerOpen ==
  /\ \/ WorkerAt("open", "poll")
     \/ DiskFaults /\ WorkerAt("open", "exited")
  /\ UNCHANGED <<loopBufVars, netVars, chunk, mutex, mpc, mlen, accepted,
                 handed, file>>

(* Mutant: a single byte is not worth a get. *)
WorkerPollMany ==
  /\ WorkerAt("poll", "lock")
  /\ loop_buf_len > 1
  /\ UNCHANGED <<loopBufVars, netVars, chunk, mutex, mpc, mlen, accepted,
                 handed, file>>

WorkerPoll ==
  /\ WorkerAt("poll", "lock")
  /\ loop_buf_len # 0
  /\ UNCHANGED <<loopBufVars, netVars, chunk, mutex, mpc, mlen, accepted,
                 handed, file>>

WorkerLock ==
  /\ WorkerAt("lock", "copy")
  /\ mutex = "free"
  /\ mutex' = "worker"
  /\ UNCHANGED <<loopBufVars, netVars, chunk, mpc, mlen, accepted, handed,
                 file>>

WorkerCopy ==
  /\ WorkerAt("copy", "advance")
  /\ got' = GetCopy(GetLen(BUFFER_SIZE))
  /\ UNCHANGED <<buffer, in, out, netVars, chunk, mutex, mpc, mlen, accepted,
                 handed, file>>

WorkerAdvance ==
  /\ WorkerAt("advance", "write")
  /\ LET o == Unsigned(out + Len(got))
     IN  /\ out' = (IF o = in THEN 0 ELSE o)
         /\ in' = (IF o = in THEN 0 ELSE in)
  /\ mutex' = "free"
  /\ handed' = handed \o got
  /\ UNCHANGED <<buffer, got, netVars, chunk, mpc, mlen, accepted, file>>

(* A write that fails, wholly or in part, is not repeated. *)
WorkerWrite ==
  /\ WorkerAt("write", "poll")
  /\ \E n \in 0 .. Len(got) :
       /\ n = Len(got) \/ DiskFaults
       /\ file' = file \o SubSeq(got, 1, n)
  /\ UNCHANGED <<loopBufVars, netVars, chunk, mutex, mpc, mlen, accepted,
                 handed>>

Main == MainLoop \/ MainLock \/ MainCopy \/ MainAdvance

Worker == WorkerOpen \/ WorkerPoll \/ WorkerLock \/ WorkerCopy
            \/ WorkerAdvance \/ WorkerWrite

Next == Clientele \/ Main \/ Worker

Spec == Init /\ [][Next]_vars

(* The kernel keeps scheduling both threads. *)
FairSpec == Spec /\ WF_vars(Main) /\ WF_vars(Worker)
-----------------------------------------------------------------------------
TypeOK ==
  /\ LoopBufTypeOK
  /\ Net!NetTypeOK
  /\ mutex \in {"free", "main", "worker"}
  /\ mpc \in {"loop", "copy", "advance"}
  /\ mlen \in 0 .. BUFFER_SIZE
  /\ wpc \in {"open", "exited", "poll", "lock", "copy", "advance", "write"}
  /\ accepted \in Seq(Byte)
  /\ handed \in Seq(Byte)
  /\ file \in Seq(Byte)

(* Every byte put is in exactly one place, in the order it was put: handed *)
(* out once to the worker, or still in the buffer.  Nothing is             *)
(* overwritten, read twice or skipped by the threads crossing each other.  *)
(* (And all variables are typed.)                                          *)
NothingLostInside == TypeOK /\ accepted = handed \o Queue

(* The bytes of one client reach the file in the order it sent them and at *)
(* most once, whatever the server had to drop and the disk refused.        *)
ClientOrderKept ==
  \A i, j \in 1 .. Len(file) :
    i < j /\ (file[i] - 1) \div Stream = (file[j] - 1) \div Stream
      => file[i] < file[j]

(* "we need to set the buffer enough big" (loop_buf.h:6), and then nothing *)
(* is dropped: main gives up bytes only with the buffer full to the last.  *)
DropsOnlyWhenFull ==
  [][mpc = "advance" /\ mpc' = "loop" /\ mlen < Len(chunk)
       => loop_buf_len' = LOOP_BUF_LEN]_vars

(* Every byte put gets out of the buffer, if the worker has a file.        *)
AcceptedIsHanded ==
  \A n \in Net!AllBytes :
    Len(accepted) >= n ~> Len(handed) >= n \/ wpc = "exited"

(* What a connected client has sent is read, whoever else sends.           *)
SentIsRead ==
  \A c \in Net!Client : \A n \in 1 .. Stream :
    (peer[c] = "open" /\ sent[c] >= n) ~> taken[c] >= n
=============================================================================
