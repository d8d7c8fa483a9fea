---------------------------- MODULE FileTransfer ----------------------------
(***************************************************************************)
(* Tcp_Transferring_Files/file_transfer: clients (fileclient.c) that send  *)
(* the name of a file, a line break and the file; one server               *)
(* (fileserver.c) that takes them one after the other and writes each into *)
(* the file of that name.  writen and readline (common/common.c) try again *)
(* when a signal interrupts them, which changes nothing here.              *)
(*                                                                         *)
(* A connection keeps the order of its bytes; what a client has written    *)
(* still arrives when the client dies.                                     *)
(***************************************************************************)
EXTENDS Integers, Sequences

CONSTANTS
    Client,
    NameOf,       \* per client: the name of its file
    FileOf,       \* per client: what is in it, or NoFile
    NoFile,
    Disk,         \* the server's files before
    NL,           \* the line break
    BUFFERSIZE,
    Window,       \* the bytes a connection holds
    Faults        \* TRUE: clients die; reads, writes and opens fail

Byte == 0 .. 255

ASSUME FileTransferAssumption ==
    /\ BUFFERSIZE \in Nat /\ BUFFERSIZE > 2
    /\ Window \in Nat \ {0}
    /\ NL \in Byte
    /\ \A c \in Client : /\ NameOf[c] \in Seq(Byte)
                         /\ Len(NameOf[c]) \in 1 .. BUFFERSIZE - 1
                         /\ \A i \in 1 .. Len(NameOf[c]) : NameOf[c][i] # NL
                         /\ FileOf[c] = NoFile \/ FileOf[c] \in Seq(Byte)
    /\ \A n \in DOMAIN Disk : Disk[n] \in Seq(Byte)

VARIABLES
    cpc,        \* per client: where it is
    left,       \* per client: what its writen has still to write
    pos,        \* per client: how much of its file it has read
    net,        \* per client: what is on the connection
    spc,        \* where the server is
    conn,       \* the client it serves, or served last
    buff,       \* its buffer
    target,     \* the name of the file it writes
    foff,       \* ... and the offset there
    disk,       \* its files
    before,     \* history: what was in the file when it was opened
    received    \* history: the clients whose file it has reported

clientVars == <<cpc, left, pos>>
serverVars == <<spc, conn, buff, target, foff, disk, before, received>>
vars == <<clientVars, net, serverVars>>

Least(a, b) == IF a < b THEN a ELSE b
Drop(s, n) == SubSeq(s, n + 1, Len(s))

Init ==
    /\ cpc = [c \in Client |-> "connect"]
    /\ left = [c \in Client |-> <<>>]
    /\ pos = [c \in Client |-> 0]
    /\ net = [c \in Client |-> <<>>]
    /\ spc = "accept" /\ conn \in Client /\ buff = <<>>
    /\ target = <<>> /\ foff = 0 /\ disk = Disk /\ before = <<>>
    /\ received = {}
-----------------------------------------------------------------------------
\* The client.

Goto(c, to) == cpc' = [cpc EXCEPT ![c] = to]

Connect(c) ==
    /\ cpc[c] = "connect" /\ spc # "exited"
    /\ Goto(c, "name")
    /\ left' = [left EXCEPT ![c] = Append(NameOf[c], NL)]
    /\ UNCHANGED <<pos, net, serverVars>>

\* One write of writen; until the end of the server has come through, it
\* may still write to one that has gone.
Write(c) ==
    /\ cpc[c] \in {"name", "block"}
    /\ \E n \in 1 .. Least(Len(left[c]), Window - Len(net[c])) :
        /\ net' = [net EXCEPT ![c] = @ \o SubSeq(left[c], 1, n)]
        /\ left' = [left EXCEPT ![c] = Drop(@, n)]
    /\ Goto(c, IF left'[c] # <<>> THEN cpc[c]
               ELSE IF cpc[c] = "name" THEN "open" ELSE "read")
    /\ UNCHANGED <<pos, serverVars>>

\* A write to a server that has gone: it kills the client or is an error,
\* which the client ignores while it sends the name.
WriteFails(c) ==
    /\ cpc[c] \in {"name", "block"} /\ spc = "exited"
    /\ \/ Goto(c, "failed")
       \/ cpc[c] = "name" /\ Goto(c, "open")
    /\ left' = [left EXCEPT ![c] = <<>>]
    /\ UNCHANGED <<pos, net, serverVars>>

\* The file is looked for only when its name is sent.
Open(c) ==
    /\ cpc[c] = "open"
    /\ Goto(c, IF FileOf[c] = NoFile THEN "failed" ELSE "read")
    /\ UNCHANGED <<left, pos, net, serverVars>>

Read(c) ==
    /\ cpc[c] = "read"
    /\ LET n == Least(Len(FileOf[c]) - pos[c], BUFFERSIZE)
       IN  /\ left' = [left EXCEPT ![c] = SubSeq(FileOf[c], pos[c] + 1, pos[c] + n)]
           /\ pos' = [pos EXCEPT ![c] = @ + n]
           /\ Goto(c, IF n = 0 THEN "done" ELSE "block")
    /\ UNCHANGED <<net, serverVars>>

\* The client dies, or a read of its file fails.
Die(c) ==
    /\ cpc[c] \in {"name", "open", "read", "block"} /\ Faults
    /\ Goto(c, "failed")
    /\ left' = [left EXCEPT ![c] = <<>>]
    /\ UNCHANGED <<pos, net, serverVars>>

ClientStep(c) == \/ Connect(c) \/ Write(c) \/ WriteFails(c) \/ Open(c)
                 \/ Read(c)
-----------------------------------------------------------------------------
\* The server.

Closed(c) == cpc[c] \in {"done", "failed"}
Took(n) == net' = [net EXCEPT ![conn] = Drop(@, n)]

Accept ==
    /\ spc = "accept" /\ spc' = "line"
    /\ \E c \in Client :
        /\ cpc[c] # "connect" /\ c \notin received
        /\ conn' = c
    /\ buff' = <<>>
    /\ UNCHANGED <<clientVars, net, target, foff, disk, before, received>>

\* One character of readline: up to the line break, and at most
\* BUFFERSIZE - 1
Readline ==
    /\ spc = "line" /\ net[conn] # <<>>
    /\ Took(1) /\ buff' = Append(buff, Head(net[conn]))
    /\ spc' = IF Head(net[conn]) = NL \/ Len(buff') = BUFFERSIZE - 1
              THEN "chop" ELSE "line"
    /\ UNCHANGED <<clientVars, conn, target, foff, disk, before, received>>

(* Mutant: readline tries again at the end of the connection. *)
ReadlineEofAgain ==
    /\ spc = "line" /\ net[conn] = <<>> /\ Closed(conn)
    /\ UNCHANGED vars

\* readline's end of file, which the server takes for a line
ReadlineEof ==
    /\ spc = "line" /\ net[conn] = <<>> /\ Closed(conn)
    /\ spc' = "chop"
    /\ UNCHANGED <<clientVars, net, conn, buff, target, foff, disk, before,
                   received>>

(* Mutant: the line break of a short line stays in the name. *)
OpenTargetAll ==
    /\ spc = "chop"
    /\ LET name == IF Len(buff) < BUFFERSIZE - 1 THEN buff
                   ELSE SubSeq(buff, 1, Len(buff) - 1)
       IN  /\ name # <<>>
           /\ target' = name /\ foff' = 0
           /\ before' = IF name \in DOMAIN disk THEN disk[name] ELSE <<>>
           /\ disk' = [n \in DOMAIN disk \cup {name} |->
                         IF n = name THEN before' ELSE disk[n]]
    /\ spc' = "read"
    /\ UNCHANGED <<clientVars, net, conn, buff, received>>

\* The last character is cut off, whatever it is.  A file that is there is
\* opened as it is.  No file has an empty name, and the server exits.
OpenTarget ==
    /\ spc = "chop"
    /\ LET name == SubSeq(buff, 1, Len(buff) - 1)
       IN  /\ name # <<>>
           /\ target' = name /\ foff' = 0
           /\ before' = IF name \in DOMAIN disk THEN disk[name] ELSE <<>>
           /\ disk' = [n \in DOMAIN disk \cup {name} |->
                         IF n = name THEN before' ELSE disk[n]]
    /\ spc' = "read"
    /\ UNCHANGED <<clientVars, net, conn, buff, received>>

NoTarget ==
    /\ spc = "chop" /\ Len(buff) <= 1
    /\ spc' = "exited"
    /\ UNCHANGED <<clientVars, net, conn, buff, target, foff, disk, before,
                   received>>

Exit ==
    /\ spc \in {"line", "chop", "read", "write"} /\ Faults
    /\ spc' = "exited"
    /\ UNCHANGED <<clientVars, net, conn, buff, target, foff, disk, before,
                   received>>

ReadBlock ==
    /\ spc = "read" /\ spc' = "write"
    /\ \E n \in 1 .. Least(Len(net[conn]), BUFFERSIZE) :
        Took(n) /\ buff' = SubSeq(net[conn], 1, n)
    /\ UNCHANGED <<clientVars, conn, target, foff, disk, before, received>>

\* old, with new written over it from off on
Overlay(old, off, new) ==
    [i \in 1 .. (IF off + Len(new) > Len(old) THEN off + Len(new) ELSE Len(old)) |->
        IF i \in off + 1 .. off + Len(new) THEN new[i - off] ELSE old[i]]

(* Mutant: a short write is taken for a whole one. *)
WriteBlockShort ==
    /\ spc = "write" /\ spc' = "read"
    /\ \E n \in 1 .. Len(buff) :
        /\ disk' = [disk EXCEPT ![target] = Overlay(@, foff, SubSeq(buff, 1, n))]
        /\ foff' = foff + n
    /\ buff' = <<>>
    /\ UNCHANGED <<clientVars, net, conn, target, before, received>>

\* One write of writen
WriteBlock ==
    /\ spc = "write"
    /\ \E n \in 1 .. Len(buff) :
        /\ disk' = [disk EXCEPT ![target] = Overlay(@, foff, SubSeq(buff, 1, n))]
        /\ foff' = foff + n
        /\ buff' = Drop(buff, n)
    /\ spc' = IF buff' = <<>> THEN "read" ELSE "write"
    /\ UNCHANGED <<clientVars, net, conn, target, before, received>>

\* The end of the connection, whatever became of the client, is the end of
\* its file.
Received ==
    /\ spc = "read" /\ net[conn] = <<>> /\ Closed(conn)
    /\ spc' = "accept" /\ received' = received \cup {conn}
    /\ UNCHANGED <<clientVars, net, conn, buff, target, foff, disk, before>>

Server == \/ Accept \/ Readline \/ ReadlineEof \/ OpenTarget \/ NoTarget
          \/ ReadBlock \/ WriteBlock \/ Received

Next == Server \/ Exit \/ \E c \in Client : ClientStep(c) \/ Die(c)

\* The kernels schedule the server and every client; nothing has to fail.
Spec == /\ Init /\ [][Next]_vars
        /\ WF_vars(Server)
        /\ \A c \in Client : WF_vars(ClientStep(c))
-----------------------------------------------------------------------------
Text(c) == IF FileOf[c] = NoFile THEN <<>> ELSE FileOf[c]

FileTransferTypeOK ==
    /\ cpc \in [Client -> {"connect", "name", "open", "read", "block",
                           "done", "failed"}]
    /\ left \in [Client -> Seq(Byte)]
    /\ pos \in [Client -> Nat]
    /\ \A c \in Client : pos[c] <= Len(Text(c))
    /\ net \in [Client -> Seq(Byte)]
    /\ \A c \in Client : Len(net[c]) <= Window
    /\ spc \in {"accept", "line", "chop", "read", "write", "exited"}
    /\ conn \in Client
    /\ buff \in Seq(Byte) /\ Len(buff) <= BUFFERSIZE
    /\ target \in Seq(Byte) /\ foff \in Nat
    /\ \A n \in DOMAIN disk : disk[n] \in Seq(Byte)
    /\ before \in Seq(Byte)
    /\ received \subseteq Client

\* A name that leaves room for its line break and the NUL
Fits(c) == Len(NameOf[c]) < BUFFERSIZE - 1
Serving == spc \in {"read", "write"}

\* Wherever readline stopped, the server writes the file its client named.
\* Two clients are not so lucky: one that failed, since its line may not have
\* been out, and one whose name is as long as fileclient.c lets it be and a
\* byte too long for fileserver.c.
NameIsWhole ==
    Serving /\ target # NameOf[conn] => cpc[conn] = "failed" \/ ~Fits(conn)

\* Blocks, short writes and the connection cut the file anywhere, and still
\* the file on the server is its beginning, over what was there before, and
\* the rest of what the client has read is on its way, in order.  (And all
\* variables are typed.)
NothingLostOnTheWay ==
    /\ FileTransferTypeOK
    /\ Serving /\ target = NameOf[conn] =>
        LET onTheWay == (IF spc = "write" THEN buff ELSE <<>>)
                            \o net[conn] \o left[conn]
        IN  /\ foff <= pos[conn]
            /\ disk[target] = Overlay(before, 0, SubSeq(Text(conn), 1, foff))
            /\ cpc[conn] # "failed" =>
                 onTheWay = SubSeq(Text(conn), foff + 1, pos[conn])

\* "file received!" (fileserver.c:57) after "file transferred!" of the
\* client means the whole file, whatever happened between them: the file
\* it sent, and behind it only the end of a longer file of the same name.
ReceivedIsSent ==
    [][\A c \in received' \ received :
          cpc[c] = "done" /\ Fits(c) =>
            disk[NameOf[c]] = Overlay(before, 0, FileOf[c])]_vars

\* Every client ends, and the server has taken its file or is gone: no
\* client waits for ever for another one's turn to end.
EveryoneIsServed ==
    \A c \in Client :
        cpc[c] # "connect" ~> Closed(c) /\ (c \in received \/ spc = "exited")
=============================================================================
