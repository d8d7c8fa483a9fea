----------------------------- MODULE RingServer -----------------------------
(***************************************************************************)
(* Tcp_Transferring_Files/ringbuff/test/server.c: main writes what its     *)
(* clients send into the ring buffer, the thread write_data2file reads it  *)
(* out into a file.  Each call of ringbuff_read and ringbuff_write tests   *)
(* data_size before it takes the mutex; its body runs with the mutex held  *)
(* and changes data_size once, last, so it is one step.                    *)
(***************************************************************************)
EXTENDS RingBuff

CONSTANTS Clients, Stream,
          DiskFaults    \* TRUE: open and write may fail

ASSUME RingServerAssumption ==
  /\ Clients \in Nat \ {0} /\ Stream \in Nat \ {0}
  /\ DiskFaults \in BOOLEAN
  /\ 1 .. Clients * Stream \subseteq Byte

VARIABLES peer, sent, gone, taken, is_connected, readfds, chunk,
          mpc,        \* "loop", or "body": main's write goes ahead
          wpc,        \* where write_data2file is
          accepted,   \* history: the bytes written to the buffer, in order
          handed,     \* history: the bytes read from it, in order
          file        \* the bytes in test.h264

Net == INSTANCE SelectLoop

netVars == <<peer, sent, gone, taken, is_connected, readfds>>
vars == <<ringVars, netVars, chunk, mpc, wpc, accepted, handed, file>>

(* Fresh storage is never read before it is written, as RingBuffProofs     *)
(* shows for every content: here it is blank.                              *)
Init ==
  /\ ringbuff_init([p \in Place |-> 0]) /\ got = <<>>
  /\ Net!NetInit
  /\ mpc = "loop" /\ wpc = "open"
  /\ accepted = <<>> /\ handed = <<>> /\ file = <<>>

Clientele ==
  Net!ClientStep /\ UNCHANGED <<ringVars, mpc, wpc, accepted, handed, file>>

MainLoop ==
  /\ mpc = "loop"
  /\ Net!ServerStep
  /\ UNCHANGED <<ringVars, mpc, wpc, accepted, handed, file>>

(* Mutant: no test for a full buffer. *)
WriteNoCheck ==
  /\ mpc = "loop" /\ chunk # <<>>
  /\ mpc' = "body"
  /\ UNCHANGED <<ringVars, netVars, chunk, wpc, accepted, handed, file>>

(* A full buffer takes nothing, and the bytes read are dropped. *)
WriteCheck ==
  /\ mpc = "loop" /\ chunk # <<>>
  /\ IF data_size = buffer_size
     THEN chunk' = <<>> /\ UNCHANGED mpc
     ELSE mpc' = "body" /\ UNCHANGED chunk
  /\ UNCHANGED <<ringVars, netVars, wpc, accepted, handed, file>>

Write ==
  /\ mpc = "body"
  /\ WriteBody(chunk)
  /\ accepted' = accepted \o SubSeq(chunk, 1, WriteLen(chunk))
  /\ chunk' = <<>> /\ mpc' = "loop"
  /\ UNCHANGED <<netVars, wpc, handed, file>>

WorkerAt(from, to) == wpc = from /\ wpc' = to

WorkerOpen ==
  /\ \/ WorkerAt("open", "poll")
     \/ DiskFaults /\ WorkerAt("open", "exited")
  /\ UNCHANGED <<ringVars, netVars, chunk, mpc, accepted, handed, file>>

Poll ==
  /\ WorkerAt("poll", "check")
  /\ data_size # 0
  /\ UNCHANGED <<ringVars, netVars, chunk, mpc, accepted, handed, file>>

ReadCheck ==
  /\ wpc = "check"
  /\ IF data_size = 0 THEN wpc' = "write" /\ got' = <<>>
                      ELSE wpc' = "body" /\ UNCHANGED got
  /\ UNCHANGED <<store, rdp, wrp, data_size, netVars, chunk, mpc, accepted,
                 handed, file>>

Read ==
  /\ WorkerAt("body", "write")
  /\ ReadBody(BUFFER_SIZE)
  /\ handed' = handed \o got'
  /\ UNCHANGED <<netVars, chunk, mpc, accepted, file>>

(* A write that fails, wholly or in part, is not repeated. *)
WriteFile ==
  /\ WorkerAt("write", "poll")
  /\ \E n \in 0 .. Len(got) :
       /\ n = Len(got) \/ DiskFaults
       /\ file' = file \o SubSeq(got, 1, n)
  /\ UNCHANGED <<ringVars, netVars, chunk, mpc, accepted, handed>>

Main == MainLoop \/ WriteCheck \/ Write
Worker == WorkerOpen \/ Poll \/ ReadCheck \/ Read \/ WriteFile
Next == Clientele \/ Main \/ Worker

(* The kernel keeps scheduling both threads. *)
Spec == Init /\ [][Next]_vars /\ WF_vars(Main) /\ WF_vars(Worker)
-----------------------------------------------------------------------------
TypeOK ==
  /\ RingBuffTypeOK
  /\ Net!NetTypeOK
  /\ mpc \in {"loop", "body"}
  /\ wpc \in {"open", "exited", "poll", "check", "body", "write"}
  /\ accepted \in Seq(Byte)
  /\ handed \in Seq(Byte)
  /\ file \in Seq(Byte)

(* Although both calls test data_size before they take the mutex, every    *)
(* byte accepted is in exactly one place and in order: handed out once to  *)
(* the worker, or still in the buffer.  (And all variables are typed.)     *)
NothingLostInside == TypeOK /\ accepted = handed \o Queue

(* The buffer is full and rdp = wrp: reads find it empty, writes full.     *)
Stuck == data_size = buffer_size /\ wrp = rdp

(* Every byte the buffer took is handed to the worker that has a file,     *)
(* unless the buffer gets stuck (ringbuff.c:83).                           *)
AcceptedIsHanded ==
  \A n \in Net!AllBytes :
    Len(accepted) >= n ~> Len(handed) >= n \/ wpc = "exited" \/ Stuck
=============================================================================
