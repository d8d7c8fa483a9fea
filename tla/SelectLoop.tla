----------------------------- MODULE SelectLoop -----------------------------
(***************************************************************************)
(* The socket side of the receiving servers of Tcp_Transferring_Files:     *)
(* the loop around select that server.c and ringbuff/test/server.c share.  *)
(* One pass takes the descriptors select reported from the lowest up; the  *)
(* listening socket is the lowest.  The bytes of one read wait in chunk    *)
(* until the server has offered them to its buffer.  Clients fit the       *)
(* table of MAXSOCKFD descriptors, and accept succeeds when the listening  *)
(* socket is ready.                                                        *)
(***************************************************************************)
EXTENDS Integers, Sequences

CONSTANTS Clients,       \* how many clients there are
          Stream,        \* the bytes each of them sends
          BUFFER_SIZE    \* the bytes the server reads at once

VARIABLES peer,           \* per client: "idle", "backlog", "open", "closed"
          sent,           \* per client: bytes it has sent
          gone,           \* the clients that closed their end
          taken,          \* per client: bytes the server has read
          is_connected,   \* the clients select watches
          readfds,        \* what is left of this pass
          chunk           \* the bytes last read, not yet offered

netVars == <<peer, sent, gone, taken, is_connected, readfds, chunk>>

Client == 1 .. Clients
Listen == 0

(* The bytes of all clients, told apart: the k-th byte of client c. *)
Id(c, k) == (c - 1) * Stream + k
AllBytes == 1 .. Clients * Stream

NetInit ==
  /\ peer = [c \in Client |-> "idle"]
  /\ sent = [c \in Client |-> 0]
  /\ gone = {}
  /\ taken = [c \in Client |-> 0]
  /\ is_connected = {}
  /\ readfds = {}
  /\ chunk = <<>>

(* The clients: connect, send once welcomed, hang up at any time. *)
Connect(c) ==
  /\ peer[c] = "idle"
  /\ peer' = [peer EXCEPT ![c] = "backlog"]
  /\ UNCHANGED <<sent, gone, taken, is_connected, readfds, chunk>>

Send(c) ==
  /\ peer[c] = "open" /\ c \notin gone
  /\ \E n \in 1 .. Stream - sent[c] : sent' = [sent EXCEPT ![c] = @ + n]
  /\ UNCHANGED <<peer, gone, taken, is_connected, readfds, chunk>>

HangUp(c) ==
  /\ peer[c] \in {"backlog", "open"} /\ c \notin gone
  /\ gone' = gone \cup {c}
  /\ UNCHANGED <<peer, sent, taken, is_connected, readfds, chunk>>

Readable(c) == sent[c] > taken[c] \/ c \in gone

Ready ==
  {c \in is_connected : Readable(c)}
    \cup {fd \in {Listen} : \E c \in Client : peer[c] = "backlog"}

(* select returns when something is ready, and a pass begins. *)
Select ==
  /\ readfds = {} /\ chunk = <<>>
  /\ Ready # {}
  /\ readfds' = Ready
  /\ UNCHANGED <<peer, sent, gone, taken, is_connected, chunk>>

Accept ==
  /\ chunk = <<>> /\ Listen \in readfds
  /\ \E c \in Client :
       /\ peer[c] = "backlog"
       /\ peer' = [peer EXCEPT ![c] = "open"]
       /\ is_connected' = is_connected \cup {c}
  /\ readfds' = readfds \ {Listen}
  /\ UNCHANGED <<sent, gone, taken, chunk>>

(* The descriptors of clients are reached in any order: which one a client *)
(* was given depends on those closed before.                               *)
Turn(c) == chunk = <<>> /\ Listen \notin readfds /\ c \in readfds

Read(c) ==
  /\ Turn(c) /\ sent[c] > taken[c]
  /\ \E n \in 1 .. BUFFER_SIZE :
       /\ n <= sent[c] - taken[c]
       /\ chunk' = [i \in 1..n |-> Id(c, taken[c] + i)]
       /\ taken' = [taken EXCEPT ![c] = @ + n]
  /\ readfds' = readfds \ {c}
  /\ UNCHANGED <<peer, sent, gone, is_connected>>

(* Mutant: a client that hung up is closed before its last bytes are read. *)
CloseEarly(c) ==
  /\ Turn(c) /\ c \in gone
  /\ peer' = [peer EXCEPT ![c] = "closed"]
  /\ is_connected' = is_connected \ {c}
  /\ readfds' = readfds \ {c}
  /\ UNCHANGED <<sent, gone, taken, chunk>>

(* read returns 0: the connection is closed and no longer watched. *)
Close(c) ==
  /\ Turn(c) /\ sent[c] = taken[c]
  /\ peer' = [peer EXCEPT ![c] = "closed"]
  /\ is_connected' = is_connected \ {c}
  /\ readfds' = readfds \ {c}
  /\ UNCHANGED <<sent, gone, taken, chunk>>

ClientStep == \E c \in Client : Connect(c) \/ Send(c) \/ HangUp(c)

ServerStep == Select \/ Accept \/ \E c \in Client : Read(c) \/ Close(c)

NetTypeOK ==
  /\ peer \in [Client -> {"idle", "backlog", "open", "closed"}]
  /\ sent \in [Client -> 0 .. Stream]
  /\ gone \subseteq Client
  /\ taken \in [Client -> 0 .. Stream]
  /\ is_connected \subseteq Client
  /\ readfds \subseteq Client \cup {Listen}
  /\ chunk \in Seq(AllBytes)
=============================================================================
