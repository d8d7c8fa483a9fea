----------------------------- MODULE RtspServer -----------------------------
(***************************************************************************)
(* The sessions of the RTSP server (rtsp/): the thread vd_rtsp_procin      *)
(* accepts connections, the loop rtsp_callback of test/sample_rtspd.c      *)
(* starts a session for each, a thread vd_rtsp_proc per session answers    *)
(* its commands, and two more stream RTP and RTCP.  They meet in the       *)
(* channels rtsp[0 .. MAX_CONN - 1], the semaphores rtspd_lock and a       *)
(* condition variable.                                                     *)
(*                                                                         *)
(* A step makes the stores of one call together where every other thread   *)
(* loads at most one of the words stored.  Sections under rtspd_semop are  *)
(* one store long and are steps.  No accept fails and no thread fails to   *)
(* start; a descriptor that was closed is not used again for another       *)
(* socket; the signal with which the kernel ends a server that writes to a *)
(* connection that is gone is left out: such a server does nothing more.   *)
(***************************************************************************)
EXTENDS Integers, FiniteSets

CONSTANTS MAX_CONN,     \* the channels
          Client,       \* who may connect, once each
          None,         \* no client
          Methods,      \* the commands clients use
          Requests,     \* bound: the commands of all clients, and those
                        \* answered again at the end of a connection
          Spurious,     \* bound: returns of the wait without a signal
          Kinds,        \* the vist_types of the files asked for
          Faults        \* TRUE: sockets, files and sends may fail

ASSUME RtspServerAssumption ==
  /\ MAX_CONN \in Nat \ {0} /\ Requests \in Nat /\ Spurious \in Nat
  /\ IsFiniteSet(Client) /\ None \notin Client
  /\ Methods \subseteq 1 .. 6 /\ Kinds \subseteq 0 .. 2
  /\ Faults \in BOOLEAN

VARIABLES link,       \* per client: "idle", "queued", "open", "broken" by
                      \* the client, "closed" by the server
          asked,      \* how many commands were sent or answered again
          mail,       \* per client: the command on its way, 0 if none
          rtsp,       \* per channel: struct rtsp_buffer
          lock,       \* per channel: the value of rtspd_lock
          acceptor,   \* vd_rtsp_procin
          callback,   \* rtsp_callback
          round,      \* how many sessions it has started
          spurious,   \* how often its wait returned without a signal
          cmd,        \* per session: its vd_rtsp_proc
          rtp,        \* per session: its vd_rtp_func
          rtcp,       \* per session: its vd_rtcp_func
          opened,     \* the UDP sockets open, <<"rtp" or "rtcp", session>>
          plays,      \* history, per channel: PLAY commands granted
          streams,    \* history, per channel: sessions that got to stream
          closer      \* history, per client: the session that closed its
                      \* connection, 0 while none has

wakes   == <<round, spurious>>
history == <<plays, streams, closer>>
vars == <<link, asked, mail, rtsp, lock, acceptor, callback, wakes, cmd, rtp,
          rtcp, opened, history>>

Channel == 0 .. MAX_CONN - 1

(* A session takes a signal, or a wait that returned without one.          *)
Session == 1 .. Cardinality(Client) + Spurious

(* get_rtsp_method: OPTIONS, DESCRIBE, SETUP, PLAY, TEARDOWN, others.      *)
PLAY == 4
TEARDOWN == 5
Other == 6
Method == 1 .. Other
Nothing == 0                            \* an empty in_buffer

(* The rtspd_status after a command that fails, and after one that works.  *)
Refused(m) == IF m = TEARDOWN THEN 17 ELSE 2 * m - 1
Granted(m) == IF m = TEARDOWN THEN 18 ELSE 2 * m

Init ==
  /\ link = [c \in Client |-> "idle"]
  /\ asked = 0
  /\ mail = [c \in Client |-> 0]
  /\ rtsp = [n \in Channel |->
               [conn_status |-> 0, cli_fd |-> None, is_runing |-> FALSE,
                rtspd_status |-> 0, in_buffer |-> Nothing,
                vist_type |-> 0, video_rtp_fd |-> 0, video_rtcp_fd |-> 0]]
  /\ lock = [n \in Channel |-> 0]
  /\ acceptor = [at |-> "scan", chn |-> 0]
  /\ callback = [at |-> "idle", chn |-> 0]
  /\ round = 0 /\ spurious = 0
  /\ cmd = [s \in Session |-> [at |-> "none", chn |-> 0, fd |-> None]]
  /\ rtp = [s \in Session |-> "none"]
  /\ rtcp = [s \in Session |-> "none"]
  /\ opened = {}
  /\ plays = [n \in Channel |-> 0]
  /\ streams = [n \in Channel |-> 0]
  /\ closer = [c \in Client |-> 0]

Set(n, field, value) == [rtsp EXCEPT ![n] = [@ EXCEPT ![field] = value]]
-----------------------------------------------------------------------------
(* The clients. *)
Connect(c) ==
  /\ link[c] = "idle"
  /\ link' = [link EXCEPT ![c] = "queued"]
  /\ UNCHANGED <<asked, mail, rtsp, lock, acceptor, callback, wakes, cmd, rtp,
                 rtcp, opened, history>>

Ask(c) ==
  /\ link[c] \in {"queued", "open"} /\ mail[c] = 0
  /\ asked < Requests
  /\ asked' = asked + 1
  /\ \E m \in Methods : mail' = [mail EXCEPT ![c] = m]
  /\ UNCHANGED <<link, rtsp, lock, acceptor, callback, wakes, cmd, rtp, rtcp,
                 opened, history>>

(* The client hangs up, stops sending, or is gone. *)
Break(c) ==
  /\ link[c] = "open"
  /\ link' = [link EXCEPT ![c] = "broken"]
  /\ UNCHANGED <<asked, mail, rtsp, lock, acceptor, callback, wakes, cmd, rtp,
                 rtcp, opened, history>>
-----------------------------------------------------------------------------
(* One look of a scan for a free channel; with none left the scan ends.    *)
Look(t, next, none) ==
  IF rtsp[t.chn].conn_status = 0 THEN [t EXCEPT !.at = next]
  ELSE IF t.chn + 1 < MAX_CONN THEN [t EXCEPT !.chn = @ + 1]
  ELSE none

(* tcp_accept: get_free_conn_status, over and over while all are taken.    *)
AcceptScan ==
  /\ acceptor.at = "scan"
  /\ acceptor' = Look(acceptor, "accept", [at |-> "scan", chn |-> 0])
  /\ UNCHANGED <<link, asked, mail, rtsp, lock, callback, wakes, cmd, rtp,
                 rtcp, opened, history>>

Accept(c) ==
  /\ acceptor.at = "accept" /\ link[c] = "queued"
  /\ link' = [link EXCEPT ![c] = "open"]
  /\ rtsp' = Set(acceptor.chn, "cli_fd", c)
  /\ acceptor' = [acceptor EXCEPT !.at = "signal"]
  /\ UNCHANGED <<asked, mail, lock, callback, wakes, cmd, rtp, rtcp, opened,
                 history>>

(* pthread_cond_signal wakes the callback only if it is waiting.           *)
Signal ==
  /\ acceptor.at = "signal"
  /\ acceptor' = [at |-> "scan", chn |-> 0]
  /\ callback' = (IF callback.at = "waiting" THEN [at |-> "scan", chn |-> 0]
                                             ELSE callback)
  /\ UNCHANGED <<link, asked, mail, rtsp, lock, wakes, cmd, rtp, rtcp, opened,
                 history>>

Acceptor == AcceptScan \/ Signal \/ \E c \in Client : Accept(c)
-----------------------------------------------------------------------------
(* rtspd_freechn: wait, then scan; nothing is tested in between, ... *)
Wait ==
  /\ callback.at = "idle"
  /\ callback' = [callback EXCEPT !.at = "waiting"]
  /\ UNCHANGED <<link, asked, mail, rtsp, lock, acceptor, wakes, cmd, rtp,
                 rtcp, opened, history>>

(* ... so that a wait that returns without a signal is taken for a client. *)
WakeSpuriously ==
  /\ callback.at = "waiting" /\ spurious < Spurious
  /\ spurious' = spurious + 1
  /\ callback' = [at |-> "scan", chn |-> 0]
  /\ UNCHANGED <<link, asked, mail, rtsp, lock, acceptor, round, cmd, rtp,
                 rtcp, opened, history>>

(* With all channels taken the callback goes on with channel -1, and what  *)
(* it does to rtsp[-1] is anything.                                        *)
FreeScan ==
  /\ callback.at = "scan"
  /\ callback' = Look(callback, "proc", [at |-> "wild", chn |-> -1])
  /\ UNCHANGED <<link, asked, mail, rtsp, lock, acceptor, wakes, cmd, rtp,
                 rtcp, opened, history>>

rtsp_proc ==
  /\ callback.at = "proc"
  /\ round' = round + 1
  /\ cmd' = [cmd EXCEPT ![round'] =
               [at |-> "read", chn |-> callback.chn, fd |-> None]]
  /\ callback' = [callback EXCEPT !.at = "lock"]
  /\ UNCHANGED <<link, asked, mail, rtsp, lock, acceptor, spurious, rtp, rtcp,
                 opened, history>>

(* rtp_init: wait for a PLAY or for the session to fail. *)
TakeLock ==
  /\ callback.at = "lock" /\ lock[callback.chn] > 0
  /\ lock' = [lock EXCEPT ![callback.chn] = @ - 1]
  /\ callback' = [callback EXCEPT !.at = "check"]
  /\ UNCHANGED <<link, asked, mail, rtsp, acceptor, wakes, cmd, rtp, rtcp,
                 opened, history>>

(* Mutant: the status not looked at. *)
CheckNothing ==
  /\ callback.at = "check"
  /\ callback' = [callback EXCEPT !.at = "rtp"]
  /\ UNCHANGED <<link, asked, mail, rtsp, lock, acceptor, wakes, cmd, rtp,
                 rtcp, opened, history>>

CheckStatus ==
  /\ callback.at = "check"
  /\ callback' = [callback EXCEPT
       !.at = IF rtsp[callback.chn].rtspd_status = Granted(PLAY) THEN "rtp"
                                                                 ELSE "idle"]
  /\ UNCHANGED <<link, asked, mail, rtsp, lock, acceptor, wakes, cmd, rtp,
                 rtcp, opened, history>>

(* A socket that cannot be bound or connected is left open. *)
RtpSocket ==
  /\ callback.at = "rtp"
  /\ opened' = opened \cup {<<"rtp", round>>}
  /\ \/ /\ rtsp' = [rtsp EXCEPT ![callback.chn] =
                      [@ EXCEPT !.video_rtp_fd = round, !.rtspd_status = 20]]
        /\ streams' = [streams EXCEPT ![callback.chn] = @ + 1]
        /\ callback' = [callback EXCEPT !.at = "rtcp"]
     \/ /\ Faults
        /\ rtsp' = [rtsp EXCEPT ![callback.chn] =
                      [@ EXCEPT !.video_rtp_fd = round, !.rtspd_status = 19]]
        /\ callback' = [callback EXCEPT !.at = "idle"]
        /\ UNCHANGED streams
  /\ UNCHANGED <<link, asked, mail, lock, acceptor, wakes, cmd, rtp, rtcp,
                 plays, closer>>

(* rtcp_init, whose failure the callback ignores. *)
RtcpSocket ==
  /\ callback.at = "rtcp"
  /\ opened' = opened \cup {<<"rtcp", round>>}
  /\ \/ /\ rtsp' = [rtsp EXCEPT ![callback.chn] =
                      [@ EXCEPT !.video_rtcp_fd = round, !.rtspd_status = 24]]
        /\ rtcp' = [rtcp EXCEPT ![round] = "loop"]
     \/ /\ Faults
        /\ rtsp' = [rtsp EXCEPT ![callback.chn] =
                      [@ EXCEPT !.video_rtcp_fd = round, !.rtspd_status = 23]]
        /\ UNCHANGED rtcp
  /\ callback' = [callback EXCEPT !.at = "file"]
  /\ UNCHANGED <<link, asked, mail, lock, acceptor, wakes, cmd, rtp, history>>

(* A file is sent by a thread of its own; for the other kinds of stream    *)
(* the sample sends nothing.                                               *)
send_file ==
  /\ callback.at = "file"
  /\ rtp' = [rtp EXCEPT ![round] =
               IF rtsp[callback.chn].vist_type = 0 THEN "loop" ELSE "none"]
  /\ callback' = [callback EXCEPT !.at = "idle"]
  /\ UNCHANGED <<link, asked, mail, rtsp, lock, acceptor, wakes, cmd, rtcp,
                 opened, history>>

Callback == Wait \/ FreeScan \/ rtsp_proc \/ TakeLock \/ CheckStatus
              \/ RtpSocket \/ RtcpSocket \/ send_file
-----------------------------------------------------------------------------
Go(s, at) == [cmd EXCEPT ![s] = [@ EXCEPT !.at = at]]

(* tcp_read looks up cli_fd once and then waits for that client.  A socket *)
(* already closed is an error, on which the thread ends as it is.  Without *)
(* a client cli_fd is 0, the terminal, at which nobody types.              *)
StartRead(s) ==
  /\ cmd[s].at = "read"
  /\ LET fd == rtsp[cmd[s].chn].cli_fd
     IN  cmd' = [cmd EXCEPT ![s] = [@ EXCEPT
                   !.fd = fd,
                   !.at = IF fd \in Client /\ link[fd] = "closed"
                          THEN "ended" ELSE "blocked"]]
  /\ UNCHANGED <<link, asked, mail, rtsp, lock, acceptor, callback, wakes, rtp,
                 rtcp, opened, history>>

Receive(s) ==
  /\ cmd[s].at = "blocked"
  /\ LET fd == cmd[s].fd
     IN  /\ fd \in Client /\ mail[fd] # 0
         /\ rtsp' = Set(cmd[s].chn, "in_buffer", mail[fd])
         /\ mail' = [mail EXCEPT ![fd] = 0]
  /\ cmd' = Go(s, "match")
  /\ UNCHANGED <<link, asked, lock, acceptor, callback, wakes, rtp, rtcp,
                 opened, history>>

(* What in_buffer may hold by now: a packet of RTP_SIZE_MAX bytes does not  *)
(* fit nalu_buffer, and its end lands on the command that was there.        *)
Overrun(n) ==
  {rtsp[n].in_buffer} \cup
    {m \in Method : \E s \in Session : cmd[s].chn = n /\ rtp[s] # "none"}

Gone(c) == c \in Client /\ link[c] \in {"broken", "closed"}

(* tcp_read at the end of a connection: read returns 0, no error, and what *)
(* in_buffer holds is answered once more.                                  *)
ReadEnds(s) ==
  LET n == cmd[s].chn
      c == cmd[s].fd
  IN  /\ cmd[s].at = "blocked" /\ Gone(c) /\ mail[c] = 0
      /\ asked < Requests /\ asked' = asked + 1
      /\ \E m \in Overrun(n) : rtsp' = Set(n, "in_buffer", m)
      /\ cmd' = Go(s, "match")
      /\ UNCHANGED <<link, mail, lock, acceptor, callback, wakes, rtp, rtcp,
                     opened, history>>

(* tcp_read of a connection that was reset: the thread ends as it is.      *)
ReadFails(s) ==
  /\ cmd[s].at = "blocked" /\ Gone(cmd[s].fd)
  /\ cmd' = Go(s, "ended")
  /\ UNCHANGED <<link, asked, mail, rtsp, lock, acceptor, callback, wakes, rtp,
                 rtcp, opened, history>>

(* close of whatever client the channel holds now. *)
CloseClient(s) ==
  LET c == rtsp[cmd[s].chn].cli_fd
  IN  IF c \in Client /\ link[c] # "closed"
      THEN /\ link' = [link EXCEPT ![c] = "closed"]
           /\ closer' = [closer EXCEPT ![c] = s]
      ELSE UNCHANGED <<link, closer>>

(* Mutant: nobody told. *)
PostNothing(n) == lock' = lock

Post(n) == lock' = [lock EXCEPT ![n] = @ + 1]

(* get_rtsp_method: an empty in_buffer leaves the method uninitialised. *)
Matched(n) == IF rtsp[n].in_buffer = Nothing THEN Method
              ELSE {rtsp[n].in_buffer}

(* The name of a file sets the vist_type, if the command gets that far.    *)
Visits(m) == IF m \in 2 .. TEARDOWN THEN Kinds ELSE {}

(* rtsp_cmd_match, for a command that fails ... *)
Refuse(s) ==
  LET n == cmd[s].chn
  IN  /\ cmd[s].at = "match"
      /\ CloseClient(s)
      /\ \E m \in Matched(n) \ {Other} :
           /\ \E kind \in {rtsp[n].vist_type} \cup Visits(m) :
                rtsp' = [rtsp EXCEPT ![n] = [rtsp[n] EXCEPT
                  !.vist_type = kind, !.rtspd_status = Refused(m),
                  !.is_runing = FALSE]]
           /\ IF m = TEARDOWN THEN UNCHANGED lock ELSE Post(n)
      /\ cmd' = Go(s, "free")
      /\ UNCHANGED <<asked, mail, acceptor, callback, wakes, rtp, rtcp, opened,
                     plays, streams>>

(* ... and for one that is granted: not an empty one, and but for OPTIONS  *)
(* none whose answer finds the connection closed.                          *)
Answerable(n) == rtsp[n].cli_fd \in Client => link[rtsp[n].cli_fd] # "closed"

Grant(s) ==
  LET n == cmd[s].chn
      m == IF rtsp[n].in_buffer = Nothing THEN Other ELSE rtsp[n].in_buffer
  IN  /\ cmd[s].at = "match" /\ (m \in 2 .. TEARDOWN => Answerable(n))
      /\ \E kind \in IF m \in 2 .. TEARDOWN THEN Kinds
                     ELSE {rtsp[n].vist_type} :
           rtsp' = [rtsp EXCEPT ![n] = [rtsp[n] EXCEPT
             !.vist_type = kind,
             !.rtspd_status = IF m = Other THEN rtsp[n].rtspd_status
                              ELSE Granted(m),
             !.is_runing = m = PLAY
                             \/ (rtsp[n].is_runing /\ m # TEARDOWN)]]
      /\ IF m = TEARDOWN THEN CloseClient(s) ELSE UNCHANGED <<link, closer>>
      /\ IF m = PLAY THEN Post(n) ELSE UNCHANGED lock
      /\ plays' = (IF m = PLAY THEN [plays EXCEPT ![n] = @ + 1] ELSE plays)
      /\ cmd' = Go(s, IF m = TEARDOWN THEN "free" ELSE "busy")
      /\ UNCHANGED <<asked, mail, acceptor, callback, wakes, rtp, rtcp, opened,
                     streams>>

(* Mutant: the channel stays taken. *)
SetFreeNot(s) ==
  /\ cmd[s].at = "free"
  /\ cmd' = Go(s, "ended")
  /\ UNCHANGED <<link, asked, mail, rtsp, lock, acceptor, callback, wakes, rtp,
                 rtcp, opened, history>>

SetFree(s) ==
  /\ cmd[s].at = "free"
  /\ rtsp' = Set(cmd[s].chn, "conn_status", 0)
  /\ cmd' = Go(s, "ended")
  /\ UNCHANGED <<link, asked, mail, lock, acceptor, callback, wakes, rtp, rtcp,
                 opened, history>>

SetBusy(s) ==
  /\ cmd[s].at = "busy"
  /\ rtsp' = Set(cmd[s].chn, "conn_status", 1)
  /\ cmd' = Go(s, "read")
  /\ UNCHANGED <<link, asked, mail, lock, acceptor, callback, wakes, rtp, rtcp,
                 opened, history>>

(* vd_rtsp_proc *)
Command(s) == StartRead(s) \/ Receive(s) \/ Refuse(s) \/ Grant(s)
                \/ SetFree(s) \/ SetBusy(s)
-----------------------------------------------------------------------------
(* rtp_send_form_file: a file that cannot be read leaves the socket open.  *)
RtpFails(s) ==
  /\ rtp[s] = "loop" /\ Faults
  /\ rtp' = [rtp EXCEPT ![s] = "failed"]
  /\ UNCHANGED <<link, asked, mail, rtsp, lock, acceptor, callback, wakes, cmd,
                 rtcp, opened, history>>

(* Mutant: the flag is not looked at again. *)
RtpOn(s) ==
  /\ rtp[s] = "loop"
  /\ rtp' = [rtp EXCEPT ![s] = "send"]
  /\ UNCHANGED <<link, asked, mail, rtsp, lock, acceptor, callback, wakes, cmd,
                 rtcp, opened, history>>

(* while(is_runing) *)
RtpLoop(s) ==
  /\ rtp[s] = "loop"
  /\ rtp' = [rtp EXCEPT ![s] =
               IF rtsp[cmd[s].chn].is_runing THEN "send" ELSE "close"]
  /\ UNCHANGED <<link, asked, mail, rtsp, lock, acceptor, callback, wakes, cmd,
                 rtcp, opened, history>>

(* close of whatever socket the channel holds now. *)
RtpClose(s) ==
  /\ rtp[s] = "close"
  /\ rtp' = [rtp EXCEPT ![s] = "ended"]
  /\ opened' = opened \ {<<"rtp", rtsp[cmd[s].chn].video_rtp_fd>>}
  /\ UNCHANGED <<link, asked, mail, rtsp, lock, acceptor, callback, wakes, cmd,
                 rtcp, history>>

(* The units of one read of the file; the last unit stops the session.  A  *)
(* send that fails is only noted.  A packet of RTP_SIZE_MAX bytes does not *)
(* fit nalu_buffer: its end lands on the command in in_buffer, which then  *)
(* may read as any (or is overwritten, if none is pending).                *)
Spoilt(n) ==
  {rtsp[n].in_buffer} \cup
    {m \in Method : \E s \in Session : cmd[s].chn = n /\ cmd[s].at = "match"}

RtpSend(s) ==
  LET n == cmd[s].chn
  IN  /\ rtp[s] = "send"
      /\ \E command \in Spoilt(n),
            running \in {rtsp[n].is_runing, FALSE},
            status \in {rtsp[n].rtspd_status} \cup {st \in {33} : Faults} :
           rtsp' = [rtsp EXCEPT ![n] = [rtsp[n] EXCEPT
                      !.in_buffer = command, !.is_runing = running,
                      !.rtspd_status = status]]
      /\ rtp' = [rtp EXCEPT ![s] = "loop"]
      /\ UNCHANGED <<link, asked, mail, lock, acceptor, callback, wakes, cmd,
                     rtcp, opened, history>>

RtcpLoop(s) ==
  /\ rtcp[s] = "loop"
  /\ rtcp' = [rtcp EXCEPT ![s] =
                IF rtsp[cmd[s].chn].is_runing THEN "send" ELSE "close"]
  /\ UNCHANGED <<link, asked, mail, rtsp, lock, acceptor, callback, wakes, cmd,
                 rtp, opened, history>>

RtcpClose(s) ==
  /\ rtcp[s] = "close"
  /\ rtcp' = [rtcp EXCEPT ![s] = "ended"]
  /\ opened' = opened \ {<<"rtcp", rtsp[cmd[s].chn].video_rtcp_fd>>}
  /\ UNCHANGED <<link, asked, mail, rtsp, lock, acceptor, callback, wakes, cmd,
                 rtp, history>>

RtcpSend(s) ==
  /\ rtcp[s] = "send"
  /\ \/ rtsp' = rtsp
     \/ Faults /\ rtsp' = Set(cmd[s].chn, "rtspd_status", 34)
  /\ rtcp' = [rtcp EXCEPT ![s] = "loop"]
  /\ UNCHANGED <<link, asked, mail, lock, acceptor, callback, wakes, cmd, rtp,
                 opened, history>>

Rtp(s) == RtpFails(s) \/ RtpLoop(s) \/ RtpSend(s) \/ RtpClose(s)
Rtcp(s) == RtcpLoop(s) \/ RtcpSend(s) \/ RtcpClose(s)

Next ==
  \/ \E c \in Client : Connect(c) \/ Ask(c) \/ Break(c)
  \/ Acceptor
  \/ Callback \/ WakeSpuriously
  \/ \E s \in Session :
       Command(s) \/ ReadEnds(s) \/ ReadFails(s) \/ Rtp(s) \/ Rtcp(s)

Spec == Init /\ [][Next]_vars

(* The kernel keeps scheduling every thread; when it tells a reader that a *)
(* connection is gone is left open.                                        *)
FairSpec ==
  /\ Spec
  /\ WF_vars(Acceptor) /\ WF_vars(Callback)
  /\ \A s \in Session :
       WF_vars(Command(s)) /\ WF_vars(Rtp(s)) /\ WF_vars(Rtcp(s))
-----------------------------------------------------------------------------
Statuses == {0, 19, 20, 23, 24, 33, 34} \cup {Refused(m) : m \in Method}
              \cup {Granted(m) : m \in Method}

(* struct rtsp_buffer, as far as the sessions use it. *)
Buffer ==
  [conn_status : {0, 1}, cli_fd : Client \cup {None}, is_runing : BOOLEAN,
   rtspd_status : Statuses, in_buffer : 0 .. Other, vist_type : 0 .. 2,
   video_rtp_fd : Nat, video_rtcp_fd : Nat]

TypeOK ==
  /\ link \in [Client -> {"idle", "queued", "open", "broken", "closed"}]
  /\ asked \in 0 .. Requests
  /\ mail \in [Client -> 0 .. Other]
  /\ rtsp \in [Channel -> Buffer]
  /\ lock \in [Channel -> Nat]
  /\ acceptor \in [at : {"scan", "accept", "signal"}, chn : Channel]
  /\ callback \in
       [at : {"idle", "waiting", "scan", "proc", "lock", "check", "rtp",
              "rtcp", "file", "wild"}, chn : Channel \cup {-1}]
  /\ round \in Nat /\ spurious \in 0 .. Spurious
  /\ cmd \in [Session ->
       [at : {"none", "read", "blocked", "match", "free", "busy", "ended"},
        chn : Channel, fd : Client \cup {None}]]
  /\ rtp \in [Session -> {"none", "loop", "send", "close", "ended", "failed"}]
  /\ rtcp \in [Session -> {"none", "loop", "send", "close", "ended"}]
  /\ opened \subseteq {"rtp", "rtcp"} \X Nat
  /\ plays \in [Channel -> Nat]
  /\ streams \in [Channel -> Nat]
  /\ closer \in [Client -> Session \cup {0}]

(* No session streams that was not told to: on every channel the callback  *)
(* sets up at most one stream for each PLAY granted, however posts left    *)
(* over, failing commands and sessions sharing the channel come together.  *)
StreamsHavePlays == \A n \in Channel : streams[n] <= plays[n]

Over(s) == {rtp[s], rtcp[s]} \subseteq {"none", "ended", "failed"}

(* A stream whose session was stopped ends, unless the channel plays on.   *)
StoppedStreamEnds ==
  \A s \in Session :
    LET running == rtsp[cmd[s].chn].is_runing
    IN  ~running /\ ~Over(s) ~> running \/ Over(s)

(* A channel marked taken has a thread that answers its client.  Or else   *)
(* one ended at tcp_read and left it taken for good: its client had broken *)
(* the connection off, or a thread that shares the channel had closed it.  *)
TakenIsServed ==
  \A n \in Channel : rtsp[n].conn_status = 1 =>
    \E s \in Session :
      /\ cmd[s].chn = n /\ cmd[s].at # "none"
      /\ \/ cmd[s].at # "ended"
         \/ /\ cmd[s].fd \in Client
            /\ \/ link[cmd[s].fd] = "broken"
               \/ closer[cmd[s].fd] \in Session \ {s}

(* The first PLAY granted on the channel is streamed, unless another       *)
(* command or a socket that fails changes the channel's status first.      *)
(* With several channels this is so only where the callback is not waiting *)
(* for the PLAY of another.                                                *)
PlayIsStreamed ==
  \A n \in Channel :
    plays[n] = 1 /\ streams[n] = 0
      ~> \/ streams[n] > 0 \/ plays[n] > 1
         \/ rtsp[n].rtspd_status # Granted(PLAY)

(* A session that got to stream leaves nothing behind: its threads end,    *)
(* its channel is free, the callback waits for the next client, and its    *)
(* sockets are closed, but for those that no thread came to own or whose   *)
(* thread found no file to send.  Exceptions: another session that shares  *)
(* the channel is at work on it; the callback was woken for nothing.       *)
SessionEndsClean ==
  \A s \in Session :
    LET n == cmd[s].chn
    IN  cmd[s].at = "free" /\ streams[n] > 0
        ~> \/ \E t \in Session \ {s} :
                cmd[t].chn = n /\ cmd[t].at \notin {"none", "ended"}
           \/ /\ rtsp[n].conn_status = 0
              /\ Over(s)
              /\ <<"rtp", s>> \in opened => rtp[s] \in {"none", "failed"}
              /\ <<"rtcp", s>> \in opened => rtcp[s] = "none"
              /\ callback.at = "waiting" \/ spurious > 0
=============================================================================
