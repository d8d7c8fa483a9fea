----------------------------- MODULE FileClient -----------------------------
(***************************************************************************)
(* Tcp_Transferring_Files/client.c: the client that sends a file to the    *)
(* receiving servers.  It reads a piece of the file, offers it to the      *)
(* socket with sendn, and moves the file back by what the socket did not   *)
(* take.  SelectLoop has the servers' side and relies on what is stated    *)
(* here: a client sends its bytes in order and each of them once.          *)
(*                                                                         *)
(* Bytes are told apart by their place in the file.                        *)
(***************************************************************************)
EXTENDS Integers, Sequences

CONSTANTS FileSize,     \* the bytes the file has
          Reads,        \* the sizes random_data comes up with
          Room,         \* what the socket holds for a peer that does not read
          ClientFaults  \* TRUE: reads and sends may fail, the peer may hang up

ASSUME FileClientAssumption ==
  /\ FileSize \in Nat /\ Reads \subseteq Nat \ {0} /\ Reads # {}
  /\ Room \in Nat \ {0} /\ ClientFaults \in BOOLEAN

VARIABLES pc,       \* where main is
          offset,   \* the file's offset
          buffer,   \* the piece read, what sendn has still to offer of it
          size,     \* its length when it was read
          taken,    \* history: what the socket took, in order
          read,     \* how much of it the peer has read
          up        \* whether the peer is there

senderVars == <<pc, offset, buffer, size, taken, read, up>>

Piece(n) == [i \in 1 .. n |-> offset + i]
MinOf(a, b) == IF a < b THEN a ELSE b

ClientInit ==
  /\ pc = "welcome" /\ offset = 0 /\ buffer = <<>> /\ size = 0
  /\ taken = <<>> /\ read = 0 /\ up = TRUE

(* Whatever recv says: the welcome, or that there is none. *)
Welcome ==
  /\ pc = "welcome" /\ pc' = "read"
  /\ UNCHANGED <<offset, buffer, size, taken, read, up>>

ReadFile ==
  /\ pc = "read"
  /\ \E want \in Reads :
       LET n == MinOf(want, FileSize - offset)
       IN  /\ buffer' = Piece(n) /\ size' = n /\ offset' = offset + n
           /\ pc' = IF n = 0 THEN "end" ELSE "sendn"
  /\ UNCHANGED <<taken, read, up>>

(* A read that fails ends main as the end of the file does. *)
ReadFails ==
  /\ pc = "read" /\ ClientFaults /\ pc' = "unread"
  /\ UNCHANGED <<offset, buffer, size, taken, read, up>>

(* One send of sendn: the socket takes some of what is left, for a peer    *)
(* that has hung up without its notice, too.                               *)
Send ==
  /\ pc = "sendn" /\ buffer # <<>>
  /\ \E n \in 1 .. MinOf(Len(buffer), Room - (Len(taken) - read)) :
       /\ taken' = taken \o SubSeq(buffer, 1, n)
       /\ buffer' = SubSeq(buffer, n + 1, Len(buffer))
  /\ UNCHANGED <<pc, offset, size, read, up>>

nleft == Len(buffer)

(* Mutant: a failed send gives up what the socket took of the piece, too. *)
SendFailsBack ==
  /\ pc = "sendn" /\ buffer # <<>> /\ (ClientFaults \/ ~up)
  /\ IF nleft = size THEN pc' = "failed" /\ offset' = offset - size
                     ELSE pc' = "read" /\ offset' = offset - size
  /\ buffer' = <<>>
  /\ UNCHANGED <<size, taken, read, up>>

(* Mutant: a failed send is tried again. *)
SendFailsRetried ==
  /\ pc = "sendn" /\ buffer # <<>> /\ (ClientFaults \/ ~up)
  /\ UNCHANGED senderVars

(* A send that fails: main gives up if the piece is whole; if not, sendn   *)
(* comes back short and main moves the file back to offer the rest again.  *)
(* Without a peer the signal of a broken pipe may end main instead.        *)
SendFails ==
  /\ pc = "sendn" /\ buffer # <<>> /\ (ClientFaults \/ ~up)
  /\ \/ /\ pc' = IF nleft = size THEN "failed" ELSE "read"
        /\ offset' = offset - nleft
     \/ ~up /\ pc' = "failed" /\ UNCHANGED offset
  /\ buffer' = <<>>
  /\ UNCHANGED <<size, taken, read, up>>

Sent ==
  /\ pc = "sendn" /\ buffer = <<>> /\ pc' = "read"
  /\ UNCHANGED <<offset, buffer, size, taken, read, up>>

(* What main does unless a call fails for once. *)
Main == Welcome \/ ReadFile \/ Send \/ Sent \/ (~up /\ SendFails)

(* The peer reads what the socket holds, or hangs up. *)
PeerReads ==
  /\ up /\ read < Len(taken) /\ read' = Len(taken)
  /\ UNCHANGED <<pc, offset, buffer, size, taken, up>>

PeerLeaves ==
  /\ up /\ ClientFaults /\ up' = FALSE
  /\ UNCHANGED <<pc, offset, buffer, size, taken, read>>

ClientNext == Main \/ ReadFails \/ SendFails \/ PeerReads \/ PeerLeaves

(* The kernel schedules the client, and a peer that stays reads; nothing   *)
(* has to fail while it is there.                                          *)
ClientSpec == /\ ClientInit /\ [][ClientNext]_senderVars
              /\ WF_senderVars(Main) /\ WF_senderVars(PeerReads)
-----------------------------------------------------------------------------
FileClientTypeOK ==
  /\ pc \in {"welcome", "read", "sendn", "end", "unread", "failed"}
  /\ offset \in 0 .. FileSize
  /\ size \in 0 .. FileSize
  /\ buffer \in Seq(1 .. FileSize) /\ Len(buffer) <= size
  /\ taken \in Seq(1 .. FileSize) /\ Len(taken) <= FileSize
  /\ read \in 0 .. Len(taken)
  /\ up \in BOOLEAN

(* Short and failed sends and the seeks back repeat and skip nothing: the  *)
(* socket has taken the beginning of the file, each byte once, and what is *)
(* left of the piece goes on there, up to the file's offset; a client that *)
(* ends well has sent the whole file.  (And all variables are typed.)      *)
SocketHasPrefix ==
  /\ FileClientTypeOK
  /\ pc # "failed" => taken \o buffer = [i \in 1 .. offset |-> i]
  /\ taken = [i \in 1 .. Len(taken) |-> i] /\ Len(taken) <= FileSize
  /\ pc = "end" => Len(taken) = FileSize

(* main ends, however sends fail and the peer reads. *)
ClientEnds == <>(pc \in {"end", "unread", "failed"})
=============================================================================
