-------------------------- MODULE RtspServerProofs --------------------------
(***************************************************************************)
(* The RTSP server streams only what a PLAY asked for, and a channel marked *)
(* taken is served or was left by a thread whose connection had gone: all  *)
(* this however many channels, clients and commands there are, and however *)
(* often the callback is woken for nothing.                                *)
(***************************************************************************)
EXTENDS RtspServer, FiniteSetTheorems, TLAPS

USE DEF wakes, history

(* The callback may still set up a stream on the channel.                  *)
Owed(n) == \/ rtsp[n].rtspd_status = Granted(PLAY)
           \/ callback.at = "rtp" /\ callback.chn = n
Pending(n) == IF Owed(n) THEN 1 ELSE 0

(* The inductive invariant: types, the callback works on channel -1 only   *)
(* when it is lost, and a stream not yet set up has its PLAY to itself.    *)
CallbackOnChannel == callback.at # "wild" => callback.chn \in Channel
PlaysToSpare == \A n \in Channel : streams[n] + Pending(n) <= plays[n]
IInv == TypeOK /\ CallbackOnChannel /\ PlaysToSpare

LEMMA Constants ==
  /\ MAX_CONN \in Nat \ {0} /\ Requests \in Nat /\ Spurious \in Nat
  /\ None \notin Client /\ Methods \subseteq 1 .. 6 /\ Kinds \subseteq 0 .. 2
  BY RtspServerAssumption

LEMMA StatusTypes ==
  /\ \A m \in Method : Refused(m) \in Statuses /\ Granted(m) \in Statuses
  /\ {0, 19, 20, 23, 24, 33, 34} \subseteq Statuses
  BY DEF Statuses

(* Of the statuses only that of a granted PLAY is 8.                       *)
LEMMA StatusOfPlay ==
  /\ Granted(PLAY) = 8
  /\ \A m \in Method : Refused(m) # 8 /\ (Granted(m) = 8 <=> m = PLAY)
  BY DEF Granted, Refused, PLAY, TEARDOWN, Method, Other

LEMMA InitTypes == Init => TypeOK
  BY Constants, StatusTypes
  DEF Init, TypeOK, Buffer, Channel, Method, Other, Nothing

LEMMA BufferTypes ==
  ASSUME NEW b \in Buffer
  PROVE  /\ \A v \in {0, 1} : [b EXCEPT !.conn_status = v] \in Buffer
         /\ \A v \in Client : [b EXCEPT !.cli_fd = v] \in Buffer
         /\ \A v \in BOOLEAN : [b EXCEPT !.is_runing = v] \in Buffer
         /\ \A v \in Statuses : [b EXCEPT !.rtspd_status = v] \in Buffer
         /\ \A v \in 0 .. Other : [b EXCEPT !.in_buffer = v] \in Buffer
         /\ \A v \in Nat, w \in Statuses :
              [b EXCEPT !.video_rtp_fd = v, !.rtspd_status = w] \in Buffer
         /\ \A v \in Nat, w \in Statuses :
              [b EXCEPT !.video_rtcp_fd = v, !.rtspd_status = w] \in Buffer
         /\ \A v \in BOOLEAN, w \in Statuses :
              [b EXCEPT !.is_runing = v, !.rtspd_status = w] \in Buffer
         /\ \A u \in 0 .. 2, v \in BOOLEAN, w \in Statuses :
              [b EXCEPT !.vist_type = u, !.rtspd_status = w, !.is_runing = v]
                \in Buffer
  BY DEF Buffer

(* Whatever a packet leaves of the command is read as some command.        *)
LEMMA SpoiltTypes ==
  ASSUME NEW n, rtsp[n].in_buffer \in 0 .. Other
  PROVE  Spoilt(n) \subseteq 0 .. Other /\ Overrun(n) \subseteq 0 .. Other
<1>1. Method \subseteq 0 .. Other
  BY DEF Method, Other
<1> QED
  BY <1>1 DEF Spoilt, Overrun

LEMMA SomeChannel == 0 \in Channel
  BY Constants DEF Channel

Seats == [at : {"scan", "accept", "signal"}, chn : Channel]
Places == [at : {"idle", "waiting", "scan", "proc", "lock", "check", "rtp",
                 "rtcp", "file", "wild"}, chn : Channel \cup {-1}]
Threads ==
  [at : {"none", "read", "blocked", "match", "free", "busy", "ended"},
   chn : Channel, fd : Client \cup {None}]
-----------------------------------------------------------------------------
LEMMA ClientTypes ==
  ASSUME TypeOK, CallbackOnChannel, NEW c \in Client,
         Connect(c) \/ Ask(c) \/ Break(c)
  PROVE  TypeOK' /\ CallbackOnChannel'
<1>1. CASE Connect(c)
  BY <1>1 DEF Connect, TypeOK, CallbackOnChannel
<1>2. CASE Ask(c)
  <2>1. PICK m \in Methods : mail' = [mail EXCEPT ![c] = m]
    BY <1>2 DEF Ask
  <2>2. m \in 0 .. Other
    BY Constants DEF Other
  <2>3. asked' \in 0 .. Requests
    BY <1>2, Constants DEF Ask, TypeOK
  <2> QED
    BY <1>2, <2>1, <2>2, <2>3 DEF Ask, TypeOK, CallbackOnChannel
<1>3. CASE Break(c)
  BY <1>3 DEF Break, TypeOK, CallbackOnChannel
<1> QED
  BY <1>1, <1>2, <1>3

LEMMA AcceptorTypes ==
  ASSUME TypeOK, CallbackOnChannel, Acceptor
  PROVE  TypeOK' /\ CallbackOnChannel'
<1>1. CASE AcceptScan
  <2>1. acceptor' \in Seats
    <3>1. acceptor \in Seats
      BY DEF TypeOK, Seats
    <3>2. acceptor.chn + 1 < MAX_CONN => acceptor.chn + 1 \in Channel
      BY <3>1, Constants DEF Seats, Channel
    <3> QED
      BY <1>1, <3>1, <3>2, SomeChannel DEF AcceptScan, Look, Seats
  <2> QED
    BY <1>1, <2>1 DEF AcceptScan, TypeOK, CallbackOnChannel, Seats
<1>2. CASE Signal
  <2>1. acceptor' \in Seats
    BY <1>2, SomeChannel DEF Signal, Seats
  <2>2. callback' \in Places /\ CallbackOnChannel'
    <3>1. callback \in Places
      BY DEF TypeOK, Places
    <3> QED
      BY <1>2, <3>1, SomeChannel DEF Signal, Places, CallbackOnChannel
  <2> QED
    BY <1>2, <2>1, <2>2 DEF Signal, TypeOK, Seats, Places
<1>3. ASSUME NEW c \in Client, Accept(c)
      PROVE  TypeOK' /\ CallbackOnChannel'
  <2>1. rtsp' \in [Channel -> Buffer]
    BY <1>3, BufferTypes DEF Accept, Set, TypeOK
  <2> QED
    BY <1>3, <2>1 DEF Accept, TypeOK, CallbackOnChannel
<1> QED
  BY <1>1, <1>2, <1>3 DEF Acceptor

LEMMA CallbackTypes ==
  ASSUME TypeOK, CallbackOnChannel, Callback \/ WakeSpuriously
  PROVE  TypeOK' /\ CallbackOnChannel'
<1>1. CASE Wait
  BY <1>1 DEF Wait, TypeOK, CallbackOnChannel
<1>2. CASE FreeScan
  <2>1. callback' \in Places /\ CallbackOnChannel'
    <3>1. callback \in Places /\ callback.chn \in Channel
      BY <1>2 DEF TypeOK, Places, FreeScan, CallbackOnChannel
    <3>2. callback.chn + 1 < MAX_CONN => callback.chn + 1 \in Channel
      BY <3>1, Constants DEF Channel
    <3> QED
      BY <1>2, <3>1, <3>2 DEF FreeScan, Look, Places, CallbackOnChannel
  <2> QED
    BY <1>2, <2>1 DEF FreeScan, TypeOK, Places
<1>3. CASE rtsp_proc
  <2>1. callback.chn \in Channel
    BY <1>3 DEF rtsp_proc, CallbackOnChannel
  <2> DEFINE t == [at |-> "read", chn |-> callback.chn, fd |-> None]
  <2>2. t \in Threads
    BY <2>1 DEF Threads
  <2>3. cmd' = [cmd EXCEPT ![round'] = t] /\ cmd \in [Session -> Threads]
    BY <1>3 DEF rtsp_proc, TypeOK, Threads
  <2> HIDE DEF t
  <2>4. cmd' \in [Session -> Threads]
    BY <2>2, <2>3
  <2>5. round' \in Nat
    BY <1>3 DEF rtsp_proc, TypeOK
  <2>6. callback' \in Places /\ CallbackOnChannel'
    BY <1>3, <2>1 DEF rtsp_proc, TypeOK, Places, CallbackOnChannel
  <2> QED
    BY <1>3, <2>4, <2>5, <2>6 DEF rtsp_proc, TypeOK, Threads, Places
<1>4. CASE TakeLock
  BY <1>4 DEF TakeLock, TypeOK, CallbackOnChannel
<1>5. CASE CheckStatus
  BY <1>5 DEF CheckStatus, TypeOK, CallbackOnChannel
<1>6. CASE RtpSocket
  <2>1. rtsp' \in [Channel -> Buffer]
    <3>1. /\ callback.chn \in Channel /\ round \in Nat
          /\ rtsp[callback.chn] \in Buffer /\ rtsp \in [Channel -> Buffer]
      BY <1>6 DEF RtpSocket, TypeOK, CallbackOnChannel
    <3>2. PICK w \in Statuses :
            rtsp' = [rtsp EXCEPT ![callback.chn] =
              [rtsp[callback.chn] EXCEPT !.video_rtp_fd = round,
                                         !.rtspd_status = w]]
      BY <1>6, <3>1, StatusTypes DEF RtpSocket
    <3> QED
      BY <3>1, <3>2, BufferTypes
  <2>2. opened' \subseteq {"rtp", "rtcp"} \X Nat
    BY <1>6 DEF RtpSocket, TypeOK
  <2>3. streams' \in [Channel -> Nat] /\ callback'.at \in {"rtcp", "idle"}
        /\ callback' = [callback EXCEPT !.at = callback'.at]
    BY <1>6 DEF RtpSocket, TypeOK
  <2> QED
    BY <1>6, <2>1, <2>2, <2>3 DEF RtpSocket, TypeOK, CallbackOnChannel
<1>7. CASE RtcpSocket
  <2>1. rtsp' \in [Channel -> Buffer]
    <3>1. /\ callback.chn \in Channel /\ round \in Nat
          /\ rtsp[callback.chn] \in Buffer /\ rtsp \in [Channel -> Buffer]
      BY <1>7 DEF RtcpSocket, TypeOK, CallbackOnChannel
    <3>2. PICK w \in Statuses :
            rtsp' = [rtsp EXCEPT ![callback.chn] =
              [rtsp[callback.chn] EXCEPT !.video_rtcp_fd = round,
                                         !.rtspd_status = w]]
      BY <1>7, <3>1, StatusTypes DEF RtcpSocket
    <3> QED
      BY <3>1, <3>2, BufferTypes
  <2>2. opened' \subseteq {"rtp", "rtcp"} \X Nat
    BY <1>7 DEF RtcpSocket, TypeOK
  <2>3. rtcp' \in [Session -> {"none", "loop", "send", "close", "ended"}]
    BY <1>7 DEF RtcpSocket, TypeOK
  <2> QED
    BY <1>7, <2>1, <2>2, <2>3 DEF RtcpSocket, TypeOK, CallbackOnChannel
<1>8. CASE send_file
  BY <1>8 DEF send_file, TypeOK, CallbackOnChannel
<1>9. CASE WakeSpuriously
  BY <1>9, SomeChannel, Constants
  DEF WakeSpuriously, TypeOK, CallbackOnChannel
<1> QED
  BY <1>1, <1>2, <1>3, <1>4, <1>5, <1>6, <1>7, <1>8, <1>9 DEF Callback

LEMMA CloseTypes ==
  ASSUME TypeOK, NEW s \in Session, CloseClient(s)
  PROVE  /\ link' \in
              [Client -> {"idle", "queued", "open", "broken", "closed"}]
         /\ closer' \in [Client -> Session \cup {0}]
<1>1. /\ link \in [Client -> {"idle", "queued", "open", "broken", "closed"}]
      /\ closer \in [Client -> Session \cup {0}]
  BY DEF TypeOK
<1>2. \/ link' = link /\ closer' = closer
      \/ \E c \in Client : /\ link' = [link EXCEPT ![c] = "closed"]
                           /\ closer' = [closer EXCEPT ![c] = s]
  BY DEF CloseClient
<1> QED
  BY <1>1, <1>2

(* A thread that goes to another place is the thread it was. *)
LEMMA GoTypes ==
  ASSUME TypeOK, NEW s \in Session,
         NEW at \in {"none", "read", "blocked", "match", "free", "busy", "ended"}
  PROVE  Go(s, at) \in [Session -> Threads]
<1>1. cmd \in [Session -> Threads]
  BY DEF TypeOK, Threads
<1>2. [cmd[s] EXCEPT !.at = at] \in Threads
  BY <1>1 DEF Threads
<1> QED
  BY <1>1, <1>2 DEF Go

LEMMA CommandTypes ==
  ASSUME TypeOK, CallbackOnChannel, NEW s \in Session,
         Command(s) \/ ReadEnds(s) \/ ReadFails(s)
  PROVE  TypeOK' /\ CallbackOnChannel'
<1>1. CASE StartRead(s)
  <2> DEFINE fd == rtsp[cmd[s].chn].cli_fd
             at == IF fd \in Client /\ link[fd] = "closed"
                   THEN "ended" ELSE "blocked"
  <2>1. cmd[s].chn \in Channel /\ fd \in Client \cup {None}
    BY DEF TypeOK, Buffer
  <2>2. cmd' = [cmd EXCEPT ![s] = [cmd[s] EXCEPT !.fd = fd, !.at = at]]
    BY <1>1 DEF StartRead, TypeOK
  <2>3. at \in {"ended", "blocked"}
    OBVIOUS
  <2>4. cmd \in [Session -> Threads]
    BY DEF TypeOK, Threads
  <2> HIDE DEF fd, at
  <2>5. [cmd[s] EXCEPT !.fd = fd, !.at = at] \in Threads
    BY <2>1, <2>3, <2>4 DEF Threads
  <2>6. cmd' \in [Session -> Threads]
    BY <2>2, <2>4, <2>5
  <2> QED
    BY <1>1, <2>6 DEF StartRead, TypeOK, Threads, CallbackOnChannel
<1>2. CASE Receive(s)
  <2>1. rtsp' \in [Channel -> Buffer]
    <3>1. mail[cmd[s].fd] \in 0 .. Other /\ cmd[s].chn \in Channel
      BY <1>2 DEF Receive, TypeOK
    <3> QED
      BY <1>2, <3>1, BufferTypes DEF Receive, Set, TypeOK
  <2>2. cmd' \in [Session -> Threads]
    BY <1>2, GoTypes DEF Receive
  <2>3. mail' \in [Client -> 0 .. Other]
    BY <1>2 DEF Receive, TypeOK, Other
  <2> QED
    BY <1>2, <2>1, <2>2, <2>3 DEF Receive, TypeOK, Threads, CallbackOnChannel
<1>3. CASE Refuse(s)
  <2> DEFINE n == cmd[s].chn
  <2>1. n \in Channel /\ rtsp[n] \in Buffer /\ rtsp \in [Channel -> Buffer]
        /\ rtsp[n].in_buffer \in 0 .. Other /\ rtsp[n].vist_type \in 0 .. 2
    BY DEF TypeOK, Buffer
  <2>2. PICK m \in Matched(n) \ {Other} :
          /\ \E kind \in {rtsp[n].vist_type} \cup Visits(m) :
               rtsp' = [rtsp EXCEPT ![n] = [rtsp[n] EXCEPT
                          !.vist_type = kind, !.rtspd_status = Refused(m),
                          !.is_runing = FALSE]]
          /\ IF m = TEARDOWN THEN UNCHANGED lock ELSE Post(n)
    BY <1>3 DEF Refuse
  <2>3. m \in Method /\ Visits(m) \subseteq 0 .. 2
    BY <2>1, <2>2, Constants DEF Matched, Visits, Method, Other, Nothing
  <2>8. PICK kind \in 0 .. 2 :
          rtsp' = [rtsp EXCEPT ![n] = [rtsp[n] EXCEPT
                     !.vist_type = kind, !.rtspd_status = Refused(m),
                     !.is_runing = FALSE]]
    BY <2>1, <2>2, <2>3
  <2>4. [rtsp[n] EXCEPT !.vist_type = kind, !.rtspd_status = Refused(m),
           !.is_runing = FALSE] \in Buffer
    BY <2>1, <2>3, BufferTypes, StatusTypes
  <2>5. rtsp' \in [Channel -> Buffer]
    BY <2>1, <2>8, <2>4
  <2>6. lock' \in [Channel -> Nat]
    BY <2>1, <2>2 DEF Post, TypeOK
  <2>7. CloseClient(s) /\ cmd' = Go(s, "free")
        /\ UNCHANGED <<asked, mail, acceptor, callback, round, spurious, rtp,
                       rtcp, opened, plays, streams>>
    BY <1>3 DEF Refuse
  <2>9. cmd' \in [Session -> Threads]
    BY <2>7, GoTypes
  <2>10. /\ link' \in
               [Client -> {"idle", "queued", "open", "broken", "closed"}]
         /\ closer' \in [Client -> Session \cup {0}]
    BY <2>7, CloseTypes
  <2> QED
    BY <2>5, <2>6, <2>7, <2>9, <2>10 DEF TypeOK, Threads, CallbackOnChannel
<1>4. CASE Grant(s)
  <2> DEFINE n == cmd[s].chn
             m == IF rtsp[n].in_buffer = Nothing THEN Other
                  ELSE rtsp[n].in_buffer
  <2>1. n \in Channel /\ m \in Method /\ rtsp[n] \in Buffer
        /\ rtsp[n].vist_type \in 0 .. 2 /\ rtsp[n].rtspd_status \in Statuses
        /\ rtsp[n].is_runing \in BOOLEAN
    BY DEF TypeOK, Buffer, Method, Other, Nothing
  <2>2. rtsp' \in [Channel -> Buffer]
    <3>1. PICK kind \in IF m \in 2 .. TEARDOWN THEN Kinds
                        ELSE {rtsp[n].vist_type} :
            rtsp' = [rtsp EXCEPT ![n] = [rtsp[n] EXCEPT
              !.vist_type = kind,
              !.rtspd_status = IF m = Other THEN rtsp[n].rtspd_status
                               ELSE Granted(m),
              !.is_runing = m = PLAY \/ (rtsp[n].is_runing /\ m # TEARDOWN)]]
      BY <1>4 DEF Grant
    <3> DEFINE w == IF m = Other THEN rtsp[n].rtspd_status ELSE Granted(m)
               v == m = PLAY \/ (rtsp[n].is_runing /\ m # TEARDOWN)
    <3>2. kind \in 0 .. 2 /\ w \in Statuses /\ v \in BOOLEAN
      BY <2>1, Constants, StatusTypes
    <3>3. rtsp' = [rtsp EXCEPT ![n] = [rtsp[n] EXCEPT !.vist_type = kind,
                                 !.rtspd_status = w, !.is_runing = v]]
      BY <3>1
    <3> HIDE DEF w, v
    <3> QED
      BY <2>1, <3>2, <3>3, BufferTypes DEF TypeOK
  <2>3. lock' \in [Channel -> Nat]
    BY <1>4, <2>1 DEF Grant, Post, TypeOK
  <2>4. /\ link' \in
              [Client -> {"idle", "queued", "open", "broken", "closed"}]
        /\ closer' \in [Client -> Session \cup {0}]
    BY <1>4, CloseTypes DEF Grant, TypeOK
  <2>5. plays' \in [Channel -> Nat]
    BY <1>4, <2>1 DEF Grant, TypeOK
  <2>6. /\ cmd' = [cmd EXCEPT ![s] = [cmd[s] EXCEPT !.at = cmd'[s].at]]
        /\ cmd'[s].at \in {"free", "busy"}
        /\ UNCHANGED <<asked, mail, acceptor, callback, round, spurious, rtp,
                       rtcp, opened, streams>>
    BY <1>4 DEF Grant, Go, TypeOK
  <2>7. cmd' \in [Session -> Threads]
    <3>1. cmd \in [Session -> Threads]
      BY DEF TypeOK, Threads
    <3>2. [cmd[s] EXCEPT !.at = cmd'[s].at] \in Threads
      BY <2>6, <3>1 DEF Threads
    <3> QED
      BY <2>6, <3>1, <3>2
  <2> QED
    BY <2>2, <2>3, <2>4, <2>5, <2>6, <2>7 DEF TypeOK, Threads,
       CallbackOnChannel
<1>5. CASE SetFree(s)
  <2>1. rtsp' \in [Channel -> Buffer]
    BY <1>5, BufferTypes DEF SetFree, Set, TypeOK
  <2>2. cmd' \in [Session -> Threads]
    BY <1>5, GoTypes DEF SetFree
  <2> QED
    BY <1>5, <2>1, <2>2 DEF SetFree, TypeOK, Threads, CallbackOnChannel
<1>6. CASE SetBusy(s)
  <2>1. rtsp' \in [Channel -> Buffer]
    BY <1>6, BufferTypes DEF SetBusy, Set, TypeOK
  <2>2. cmd' \in [Session -> Threads]
    BY <1>6, GoTypes DEF SetBusy
  <2> QED
    BY <1>6, <2>1, <2>2 DEF SetBusy, TypeOK, Threads, CallbackOnChannel
<1>7. CASE ReadEnds(s)
  <2> DEFINE n == cmd[s].chn
  <2>1. n \in Channel /\ rtsp \in [Channel -> Buffer]
        /\ rtsp[n].in_buffer \in 0 .. Other
    BY DEF TypeOK, Buffer
  <2>2. PICK m \in Overrun(n) : rtsp' = Set(n, "in_buffer", m)
    BY <1>7 DEF ReadEnds
  <2>3. m \in 0 .. Other
    BY <2>1, <2>2 DEF Overrun, Method, Other
  <2>4. rtsp' \in [Channel -> Buffer]
    BY <2>1, <2>2, <2>3, BufferTypes DEF Set
  <2>5. asked' \in 0 .. Requests
    BY <1>7, Constants DEF ReadEnds, TypeOK
  <2>6. cmd' = Go(s, "match")
        /\ UNCHANGED <<link, mail, lock, acceptor, callback, wakes, rtp, rtcp,
                       opened, history>>
    BY <1>7 DEF ReadEnds
  <2>7. cmd' \in [Session -> Threads]
    BY <2>6, GoTypes
  <2> QED
    BY <2>4, <2>5, <2>6, <2>7 DEF TypeOK, Threads, CallbackOnChannel
<1>8. CASE ReadFails(s)
  <2>1. cmd' \in [Session -> Threads]
    BY <1>8, GoTypes DEF ReadFails
  <2> QED
    BY <1>8, <2>1 DEF ReadFails, TypeOK, Threads, CallbackOnChannel
<1> QED
  BY <1>1, <1>2, <1>3, <1>4, <1>5, <1>6, <1>7, <1>8 DEF Command

LEMMA StreamTypes ==
  ASSUME TypeOK, CallbackOnChannel, NEW s \in Session, Rtp(s) \/ Rtcp(s)
  PROVE  TypeOK' /\ CallbackOnChannel'
<1>1. CASE RtpFails(s)
  BY <1>1 DEF RtpFails, TypeOK, CallbackOnChannel
<1>2. CASE RtpLoop(s)
  BY <1>2 DEF RtpLoop, TypeOK, CallbackOnChannel
<1>3. CASE RtpSend(s)
  <2>1. rtsp' \in [Channel -> Buffer]
    <3>1. /\ cmd[s].chn \in Channel /\ rtsp[cmd[s].chn] \in Buffer
          /\ rtsp \in [Channel -> Buffer]
      BY DEF TypeOK
    <3>2. PICK command \in Spoilt(cmd[s].chn),
               running \in {rtsp[cmd[s].chn].is_runing, FALSE},
               status \in {rtsp[cmd[s].chn].rtspd_status}
                          \cup {st \in {33} : Faults} :
            rtsp' = [rtsp EXCEPT ![cmd[s].chn] = [rtsp[cmd[s].chn] EXCEPT
                       !.in_buffer = command, !.is_runing = running,
                       !.rtspd_status = status]]
      BY <1>3 DEF RtpSend
    <3>3. command \in 0 .. Other /\ running \in BOOLEAN /\ status \in Statuses
      <4>1. /\ rtsp[cmd[s].chn].in_buffer \in 0 .. Other
            /\ rtsp[cmd[s].chn].is_runing \in BOOLEAN
            /\ rtsp[cmd[s].chn].rtspd_status \in Statuses
        BY <3>1 DEF Buffer
      <4>2. 33 \in Statuses
        BY StatusTypes
      <4> QED
        BY <3>2, <4>1, <4>2, SpoiltTypes
    <3>4. [rtsp[cmd[s].chn] EXCEPT !.in_buffer = command,
             !.is_runing = running, !.rtspd_status = status] \in Buffer
      BY <3>1, <3>3 DEF Buffer
    <3> QED
      BY <3>1, <3>2, <3>4
  <2> QED
    BY <1>3, <2>1 DEF RtpSend, TypeOK, CallbackOnChannel
<1>4. CASE RtcpLoop(s)
  BY <1>4 DEF RtcpLoop, TypeOK, CallbackOnChannel
<1>5. CASE RtcpSend(s)
  <2>1. rtsp' \in [Channel -> Buffer]
    <3>1. /\ cmd[s].chn \in Channel /\ rtsp[cmd[s].chn] \in Buffer
          /\ rtsp \in [Channel -> Buffer]
      BY DEF TypeOK
    <3>2. \/ rtsp' = rtsp
          \/ rtsp' = [rtsp EXCEPT ![cmd[s].chn] =
                       [rtsp[cmd[s].chn] EXCEPT !.rtspd_status = 34]]
      BY <1>5, <3>1 DEF RtcpSend, Set
    <3>3. [rtsp[cmd[s].chn] EXCEPT !.rtspd_status = 34] \in Buffer
      BY <3>1, BufferTypes, StatusTypes
    <3> QED
      BY <3>1, <3>2, <3>3
  <2> QED
    BY <1>5, <2>1 DEF RtcpSend, TypeOK, CallbackOnChannel
<1>6. CASE RtpClose(s)
  BY <1>6 DEF RtpClose, TypeOK, CallbackOnChannel
<1>7. CASE RtcpClose(s)
  BY <1>7 DEF RtcpClose, TypeOK, CallbackOnChannel
<1> QED
  BY <1>1, <1>2, <1>3, <1>4, <1>5, <1>6, <1>7 DEF Rtp, Rtcp
-----------------------------------------------------------------------------
(* A store into in_buffer leaves the status alone.                         *)
LEMMA SetKeepsStatus ==
  ASSUME TypeOK, NEW n \in Channel, NEW k \in Channel, NEW v
  PROVE  Set(n, "in_buffer", v)[k].rtspd_status = rtsp[k].rtspd_status
<1>1. rtsp \in [Channel -> Buffer] /\ rtsp[n] \in Buffer
  BY DEF TypeOK
<1>2. [rtsp[n] EXCEPT !["in_buffer"] = v].rtspd_status = rtsp[n].rtspd_status
  BY <1>1 DEF Buffer
<1> QED
  BY <1>1, <1>2 DEF Set

(* A step that grants nothing, sets up nothing and makes no channel owed.  *)
LEMMA Quiet ==
  ASSUME TypeOK, PlaysToSpare, UNCHANGED <<plays, streams>>,
         \A n \in Channel : Owed(n)' => Owed(n)
  PROVE  PlaysToSpare'
<1>1. ASSUME NEW n \in Channel
      PROVE  streams'[n] + Pending(n)' <= plays'[n]
  <2>1. streams[n] \in Nat /\ plays[n] \in Nat
    BY DEF TypeOK
  <2>2. streams[n] + Pending(n) <= plays[n]
    BY DEF PlaysToSpare
  <2>3. (Owed(n)' => Owed(n)) /\ streams' = streams /\ plays' = plays
    OBVIOUS
  <2> HIDE DEF Owed
  <2> QED
    BY <2>1, <2>2, <2>3 DEF Pending
<1> QED
  BY <1>1 DEF PlaysToSpare

LEMMA CallerSpares ==
  ASSUME TypeOK, PlaysToSpare,
         Acceptor \/ \E c \in Client : Connect(c) \/ Ask(c) \/ Break(c)
  PROVE  PlaysToSpare'
<1>1. UNCHANGED <<plays, streams>>
  BY DEF Acceptor, AcceptScan, Signal, Accept, Connect, Ask, Break
<1>2. callback' = callback \/ callback'.at = "scan"
  BY DEF Acceptor, AcceptScan, Signal, Accept, Connect, Ask, Break
<1>3. ASSUME NEW n \in Channel
      PROVE  rtsp'[n].rtspd_status = rtsp[n].rtspd_status
  <2>1. rtsp \in [Channel -> Buffer] /\ rtsp[n] \in Buffer
    BY DEF TypeOK
  <2>2. CASE rtsp' = rtsp
    BY <2>2
  <2>3. ASSUME NEW c \in Client, Accept(c)
        PROVE  rtsp'[n].rtspd_status = rtsp[n].rtspd_status
    BY <2>1, <2>3 DEF Accept, Set, Buffer
  <2> QED
    BY <2>2, <2>3 DEF Acceptor, AcceptScan, Signal, Connect, Ask, Break
<1>4. \A n \in Channel : Owed(n)' => Owed(n)
  BY <1>2, <1>3 DEF Owed
<1> QED
  BY <1>1, <1>4, Quiet

LEMMA CallbackSpares ==
  ASSUME TypeOK, CallbackOnChannel, PlaysToSpare,
         Callback \/ WakeSpuriously
  PROVE  PlaysToSpare'
<1>1. CASE \/ Wait \/ WakeSpuriously \/ FreeScan \/ rtsp_proc
           \/ TakeLock \/ send_file
  <2>1. UNCHANGED <<plays, streams, rtsp>> /\ callback'.at # "rtp"
    BY <1>1 DEF Wait, WakeSpuriously, FreeScan, Look, rtsp_proc, TakeLock,
                send_file, TypeOK
  <2>2. \A n \in Channel : Owed(n)' => Owed(n)
    BY <2>1 DEF Owed
  <2> QED
    BY <2>1, <2>2, Quiet
<1>2. CASE CheckStatus
  <2>1. UNCHANGED <<plays, streams, rtsp>> /\ callback'.chn = callback.chn
        /\ (callback'.at = "rtp" =>
              rtsp[callback.chn].rtspd_status = Granted(PLAY))
    BY <1>2 DEF CheckStatus, TypeOK
  <2>2. \A n \in Channel : Owed(n)' => Owed(n)
    BY <2>1 DEF Owed
  <2> QED
    BY <2>1, <2>2, Quiet
<1>3. CASE RtpSocket
  <2> DEFINE n == callback.chn
  <2>1. /\ n \in Channel /\ rtsp[n] \in Buffer
        /\ rtsp \in [Channel -> Buffer] /\ streams \in [Channel -> Nat]
        /\ plays \in [Channel -> Nat] /\ plays' = plays
        /\ callback.at = "rtp"
    BY <1>3 DEF RtpSocket, TypeOK, CallbackOnChannel
  <2>2. callback'.at # "rtp"
    BY <1>3 DEF RtpSocket, TypeOK
  <2>3. rtsp'[n].rtspd_status # Granted(PLAY)
    <3>1. PICK w \in {19, 20} :
            rtsp' = [rtsp EXCEPT ![n] =
              [rtsp[n] EXCEPT !.video_rtp_fd = round, !.rtspd_status = w]]
      BY <1>3 DEF RtpSocket
    <3> HIDE DEF n
    <3>2. rtsp'[n].rtspd_status = w
      BY <2>1, <3>1 DEF Buffer
    <3> QED
      BY <3>2, StatusOfPlay
  <2>4. \A k \in Channel \ {n} : rtsp'[k] = rtsp[k]
    BY <1>3, <2>1 DEF RtpSocket
  <2>5. streams' = streams \/ streams' = [streams EXCEPT ![n] = @ + 1]
    BY <1>3 DEF RtpSocket
  <2>6. ASSUME NEW k \in Channel
        PROVE  streams'[k] + Pending(k)' <= plays'[k]
    <3>1. streams[k] + Pending(k) <= plays[k] /\ streams[k] \in Nat
          /\ plays[k] \in Nat
      BY <2>1 DEF PlaysToSpare
    <3>2. CASE k = n
      <4>1. Pending(k) = 1
        BY <2>1, <3>2 DEF Pending, Owed
      <4>2. Pending(k)' = 0
        BY <2>2, <2>3, <3>2 DEF Pending, Owed
      <4>3. streams'[k] <= streams[k] + 1 /\ streams'[k] \in Nat
        BY <2>1, <2>5, <3>1
      <4> QED
        BY <2>1, <3>1, <4>1, <4>2, <4>3
    <3>3. CASE k # n
      <4>1. Owed(k)' => Owed(k)
        BY <2>2, <2>4, <3>3 DEF Owed
      <4>2. streams'[k] = streams[k]
        BY <2>1, <2>5, <3>3
      <4> QED
        BY <2>1, <3>1, <4>1, <4>2 DEF Pending
    <3> QED
      BY <3>2, <3>3
  <2> QED
    BY <2>6 DEF PlaysToSpare
<1>4. CASE RtcpSocket
  <2>1. /\ UNCHANGED <<plays, streams>> /\ callback'.at # "rtp"
        /\ callback.chn \in Channel /\ rtsp \in [Channel -> Buffer]
    BY <1>4 DEF RtcpSocket, TypeOK, CallbackOnChannel
  <2>2. \A n \in Channel :
          rtsp'[n].rtspd_status = Granted(PLAY) =>
            rtsp[n].rtspd_status = Granted(PLAY)
    <3> DEFINE k == callback.chn
    <3>1. PICK w \in {23, 24} :
            rtsp' = [rtsp EXCEPT ![k] =
              [rtsp[k] EXCEPT !.video_rtcp_fd = round, !.rtspd_status = w]]
      BY <1>4 DEF RtcpSocket
    <3>2. k \in Channel /\ rtsp \in [Channel -> Buffer] /\ rtsp[k] \in Buffer
      BY <2>1
    <3> HIDE DEF k
    <3>3. rtsp'[k].rtspd_status = w
      BY <3>1, <3>2 DEF Buffer
    <3>4. \A n \in Channel \ {k} : rtsp'[n] = rtsp[n]
      BY <3>1, <3>2
    <3> QED
      BY <3>3, <3>4, StatusOfPlay
  <2>3. \A n \in Channel : Owed(n)' => Owed(n)
    BY <2>1, <2>2 DEF Owed
  <2> QED
    BY <2>1, <2>3, Quiet
<1> QED
  BY <1>1, <1>2, <1>3, <1>4 DEF Callback

LEMMA CommandSpares ==
  ASSUME TypeOK, PlaysToSpare, NEW s \in Session,
         Command(s) \/ ReadEnds(s) \/ ReadFails(s)
  PROVE  PlaysToSpare'
<1> DEFINE n == cmd[s].chn
           m == IF rtsp[n].in_buffer = Nothing THEN Other
                ELSE rtsp[n].in_buffer
<1>1. /\ n \in Channel /\ m \in Method /\ rtsp[n] \in Buffer
      /\ rtsp \in [Channel -> Buffer]
  BY DEF TypeOK, Buffer, Method, Other, Nothing
<1>2. CASE \/ StartRead(s) \/ Receive(s) \/ ReadEnds(s) \/ ReadFails(s)
           \/ SetFree(s) \/ SetBusy(s)
  <2>1. UNCHANGED <<plays, streams, callback>>
    BY <1>2 DEF StartRead, Receive, ReadEnds, ReadFails, SetFree, SetBusy
  <2>2. ASSUME NEW k \in Channel
        PROVE  rtsp'[k].rtspd_status = rtsp[k].rtspd_status
    <3>1. rtsp[k] \in Buffer
      BY <1>1
    <3>2. CASE StartRead(s)
      BY <3>2 DEF StartRead
    <3>3. CASE Receive(s)
      BY <3>3, <1>1, <3>1 DEF Receive, Set, Buffer
    <3>4. CASE SetFree(s)
      BY <3>4, <1>1, <3>1 DEF SetFree, Set, Buffer
    <3>5. CASE SetBusy(s)
      BY <3>5, <1>1, <3>1 DEF SetBusy, Set, Buffer
    <3>6. CASE ReadEnds(s) \/ ReadFails(s)
      <4>1. rtsp' = rtsp \/ \E v : rtsp' = Set(n, "in_buffer", v)
        BY <3>6 DEF ReadEnds, ReadFails
      <4> QED
        BY <4>1, <1>1, <3>1, SetKeepsStatus
    <3> QED
      BY <1>2, <3>2, <3>3, <3>4, <3>5, <3>6
  <2>3. \A k \in Channel : Owed(k)' => Owed(k)
    BY <2>1, <2>2 DEF Owed
  <2> QED
    BY <2>1, <2>3, Quiet
<1>3. CASE Refuse(s)
  <2>1. UNCHANGED <<plays, streams, callback>>
    BY <1>3 DEF Refuse
  <2>2. PICK x \in Method, kind \in {rtsp[n].vist_type} \cup Kinds :
          rtsp' = [rtsp EXCEPT ![n] = [rtsp[n] EXCEPT
                     !.vist_type = kind, !.rtspd_status = Refused(x),
                     !.is_runing = FALSE]]
    <3>1. Matched(n) \subseteq Method
      BY <1>1 DEF Matched
    <3> QED
      BY <1>3, <3>1 DEF Refuse, Visits
  <2> HIDE DEF n, m
  <2>3. rtsp'[n].rtspd_status = Refused(x)
    BY <1>1, <2>2 DEF Buffer
  <2>4. \A k \in Channel \ {n} : rtsp'[k] = rtsp[k]
    BY <1>1, <2>2
  <2>5. \A k \in Channel : Owed(k)' => Owed(k)
    BY <1>1, <2>1, <2>3, <2>4, StatusOfPlay DEF Owed
  <2> QED
    BY <2>1, <2>5, Quiet
<1>4. CASE Grant(s)
  <2>1. PICK kind \in IF m \in 2 .. TEARDOWN THEN Kinds
                      ELSE {rtsp[n].vist_type} :
          rtsp' = [rtsp EXCEPT ![n] = [rtsp[n] EXCEPT
            !.vist_type = kind,
            !.rtspd_status = IF m = Other THEN rtsp[n].rtspd_status
                             ELSE Granted(m),
            !.is_runing = m = PLAY \/ (rtsp[n].is_runing /\ m # TEARDOWN)]]
    BY <1>4 DEF Grant
  <2>2. UNCHANGED <<streams, callback>>
        /\ plays' = IF m = PLAY THEN [plays EXCEPT ![n] = @ + 1] ELSE plays
    BY <1>4 DEF Grant
  <2> HIDE DEF n, m
  <2>3. rtsp'[n].rtspd_status =
          IF m = Other THEN rtsp[n].rtspd_status ELSE Granted(m)
    BY <1>1, <2>1 DEF Buffer
  <2>4. \A k \in Channel \ {n} : rtsp'[k] = rtsp[k]
    BY <1>1, <2>1
  <2>5. CASE m # PLAY
    <3>1. \A k \in Channel : Owed(k)' => Owed(k)
      BY <1>1, <2>2, <2>3, <2>4, <2>5, StatusOfPlay DEF Owed
    <3> QED
      BY <2>2, <2>5, <3>1, Quiet
  <2>6. CASE m = PLAY
    <3>1. ASSUME NEW k \in Channel
          PROVE  streams'[k] + Pending(k)' <= plays'[k]
      <4>1. streams[k] + Pending(k) <= plays[k] /\ streams[k] \in Nat
            /\ plays[k] \in Nat
        BY DEF PlaysToSpare, TypeOK
      <4>2. Pending(k) \in {0, 1} /\ Pending(k)' \in {0, 1}
        BY DEF Pending
      <4>3. CASE k = n
        <5>1. plays'[k] = plays[k] + 1
          BY <1>1, <2>2, <2>6, <4>3 DEF TypeOK
        <5> QED
          BY <2>2, <4>1, <4>2, <5>1
      <4>4. CASE k # n
        <5>1. plays'[k] = plays[k]
          BY <2>2, <2>6, <4>4 DEF TypeOK
        <5>2. Owed(k)' => Owed(k)
          BY <2>2, <2>4, <4>4 DEF Owed
        <5> QED
          BY <2>2, <4>1, <5>1, <5>2 DEF Pending
      <4> QED
        BY <4>3, <4>4
    <3> QED
      BY <3>1 DEF PlaysToSpare
  <2> QED
    BY <2>5, <2>6
<1> QED
  BY <1>2, <1>3, <1>4 DEF Command

LEMMA StreamSpares ==
  ASSUME TypeOK, PlaysToSpare, NEW s \in Session, Rtp(s) \/ Rtcp(s)
  PROVE  PlaysToSpare'
<1> DEFINE n == cmd[s].chn
<1>1. UNCHANGED <<plays, streams, callback>>
  BY DEF Rtp, Rtcp, RtpFails, RtpLoop, RtpSend, RtpClose, RtcpLoop, RtcpSend,
         RtcpClose
<1>2. n \in Channel /\ rtsp[n] \in Buffer /\ rtsp \in [Channel -> Buffer]
  BY DEF TypeOK
<1>3. \/ rtsp' = rtsp
      \/ \E w \in {rtsp[n].rtspd_status, 33}, r \in BOOLEAN, c \in 0 .. Other :
           rtsp' = [rtsp EXCEPT ![n] = [rtsp[n] EXCEPT
                      !.in_buffer = c, !.is_runing = r, !.rtspd_status = w]]
      \/ rtsp' = [rtsp EXCEPT ![n] = [rtsp[n] EXCEPT !.rtspd_status = 34]]
  <2>1. CASE RtpSend(s)
    <3>1. rtsp[n].in_buffer \in 0 .. Other /\ rtsp[n].is_runing \in BOOLEAN
      BY <1>2 DEF Buffer
    <3> QED
      <4>1. PICK command \in Spoilt(n),
                 running \in {rtsp[n].is_runing, FALSE},
                 status \in {rtsp[n].rtspd_status}
                            \cup {st \in {33} : Faults} :
              rtsp' = [rtsp EXCEPT ![n] = [rtsp[n] EXCEPT
                         !.in_buffer = command, !.is_runing = running,
                         !.rtspd_status = status]]
        BY <2>1 DEF RtpSend
      <4>2. /\ command \in 0 .. Other /\ running \in BOOLEAN
            /\ status \in {rtsp[n].rtspd_status, 33}
        BY <3>1, <4>1, SpoiltTypes
      <4> QED
        BY <4>1, <4>2
  <2>2. CASE ~RtpSend(s)
    BY <2>2 DEF Rtp, Rtcp, RtpFails, RtpLoop, RtpClose, RtcpLoop, RtcpSend,
           RtcpClose, Set
  <2> QED
    BY <2>1, <2>2
<1> HIDE DEF n
<1>4. rtsp'[n].rtspd_status \in {rtsp[n].rtspd_status, 33, 34}
  BY <1>2, <1>3 DEF Buffer
<1>5. \A k \in Channel \ {n} : rtsp'[k] = rtsp[k]
  BY <1>2, <1>3
<1>6. \A k \in Channel : Owed(k)' => Owed(k)
  BY <1>1, <1>2, <1>4, <1>5, StatusOfPlay DEF Owed
<1> QED
  BY <1>1, <1>6, Quiet
-----------------------------------------------------------------------------
LEMMA InitInvariant == Init => IInv
<1> SUFFICES ASSUME Init PROVE IInv
  OBVIOUS
<1>1. TypeOK
  BY InitTypes
<1>2. CallbackOnChannel
  BY SomeChannel DEF Init, CallbackOnChannel
<1>3. PlaysToSpare
  BY StatusOfPlay DEF Init, PlaysToSpare, Pending, Owed
<1> QED
  BY <1>1, <1>2, <1>3 DEF IInv

LEMMA NextInvariant == IInv /\ [Next]_vars => IInv'
<1> SUFFICES ASSUME IInv, [Next]_vars PROVE IInv'
  OBVIOUS
<1>1. TypeOK /\ CallbackOnChannel /\ PlaysToSpare
  BY DEF IInv
<1>2. CASE \E c \in Client : Connect(c) \/ Ask(c) \/ Break(c)
  BY <1>1, <1>2, ClientTypes, CallerSpares DEF IInv
<1>3. CASE Acceptor
  BY <1>1, <1>3, AcceptorTypes, CallerSpares DEF IInv
<1>4. CASE Callback \/ WakeSpuriously
  BY <1>1, <1>4, CallbackTypes, CallbackSpares DEF IInv
<1>5. ASSUME NEW s \in Session, Command(s) \/ ReadEnds(s) \/ ReadFails(s)
      PROVE  IInv'
  BY <1>1, <1>5, CommandTypes, CommandSpares DEF IInv
<1>6. ASSUME NEW s \in Session, Rtp(s) \/ Rtcp(s)
      PROVE  IInv'
  BY <1>1, <1>6, StreamTypes, StreamSpares DEF IInv
<1>7. CASE UNCHANGED vars
  BY <1>1, <1>7 DEF vars, IInv, TypeOK, CallbackOnChannel, PlaysToSpare,
                    Pending, Owed
<1> QED
  BY <1>2, <1>3, <1>4, <1>5, <1>6, <1>7 DEF Next

(* The variables of the sessions keep their types: no step stores a        *)
(* status, a descriptor or a channel the code does not know, and the       *)
(* callback leaves the channels only by the failed scan.                   *)
THEOREM RtspTypes == Spec => [](TypeOK /\ CallbackOnChannel)
<1>1. IInv => TypeOK /\ CallbackOnChannel
  BY DEF IInv
<1> QED
  BY <1>1, InitInvariant, NextInvariant, PTL DEF Spec

(* On every channel the callback sets up at most one stream for each PLAY  *)
(* that rtsp_cmd_match granted.                                            *)
THEOREM RtspStreamsHavePlays == Spec => []StreamsHavePlays
<1>1. IInv => StreamsHavePlays
  <2> SUFFICES ASSUME IInv, NEW n \in Channel PROVE streams[n] <= plays[n]
    BY DEF StreamsHavePlays
  <2>1. streams[n] \in Nat /\ plays[n] \in Nat
    BY DEF IInv, TypeOK
  <2>2. streams[n] + Pending(n) <= plays[n] /\ Pending(n) \in {0, 1}
    BY DEF IInv, PlaysToSpare, Pending
  <2> QED
    BY <2>1, <2>2
<1> QED
  BY <1>1, InitInvariant, NextInvariant, PTL DEF Spec
-----------------------------------------------------------------------------
(* A thread that answers its client, and one that ended at tcp_read when   *)
(* the client was gone or another thread had closed its connection.        *)
Live(s) == cmd[s].at \notin {"none", "ended"}
Parted(s) == /\ cmd[s].at = "ended" /\ cmd[s].fd \in Client
             /\ \/ link[cmd[s].fd] = "broken"
                \/ closer[cmd[s].fd] \in Session \ {s}
Holds(s, n) == cmd[s].chn = n /\ (Live(s) \/ Parted(s))

(* The inductive invariant: the callback has started the sessions it       *)
(* counted, a thread that closed a connection reads no more, a closed      *)
(* connection was closed by a thread, and a taken channel is held.         *)
Started == \A s \in Session : s > round => cmd[s].at = "none"
ClosersLeave ==
  \A c \in Client, s \in Session :
    closer[c] = s => cmd[s].at \in {"free", "ended"}
ClosedBySomeone == \A c \in Client : link[c] = "closed" => closer[c] # 0
TakenIsHeld ==
  \A n \in Channel : rtsp[n].conn_status = 1 => \E s \in Session : Holds(s, n)
Served ==
  /\ Started /\ ClosersLeave /\ ClosedBySomeone /\ TakenIsHeld

LEMMA ServerTypes ==
  ASSUME TypeOK
  PROVE  /\ rtsp \in [Channel -> Buffer] /\ cmd \in [Session -> Threads]
         /\ link \in [Client -> {"idle", "queued", "open", "broken", "closed"}]
         /\ closer \in [Client -> Session \cup {0}] /\ round \in Nat
         /\ \A s \in Session : /\ cmd[s] \in Threads /\ cmd[s].chn \in Channel
                               /\ cmd[s].fd \in Client \cup {None}
         /\ \A n \in Channel : rtsp[n] \in Buffer
  BY DEF TypeOK, Threads

LEMMA SessionIsPositive == \A s \in Session : s \in Nat /\ s # 0
<1>1. Cardinality(Client) + Spurious \in Nat
  BY RtspServerAssumption, FS_CardinalityType
<1> QED
  BY <1>1 DEF Session

(* A step that leaves the sessions and the channels' conn_status alone.    *)
Bystands ==
  /\ UNCHANGED <<cmd, round, closer>>
  /\ \A n \in Channel : rtsp'[n].conn_status = rtsp[n].conn_status
  /\ \A c \in Client : /\ link[c] = "broken" => link'[c] = "broken"
                       /\ link'[c] = "closed" => link[c] = "closed"

LEMMA BystandersServe ==
  ASSUME Served, Bystands
  PROVE  Served'
<1>1. Started' /\ ClosersLeave' /\ ClosedBySomeone'
  BY DEF Served, Bystands, Started, ClosersLeave, ClosedBySomeone
<1>2. \A s \in Session, n \in Channel : Holds(s, n) => Holds(s, n)'
  BY DEF Bystands, Holds, Live, Parted
<1>3. TakenIsHeld'
  BY <1>2 DEF Served, Bystands, TakenIsHeld
<1> QED
  BY <1>1, <1>3 DEF Served

(* What a session s may do to the connections: close one.                  *)
LinksKeep(s) ==
  \A c \in Client :
    /\ link[c] = "broken" => link'[c] = "broken" \/ closer'[c] = s
    /\ link'[c] = "closed" => link[c] = "closed" \/ closer'[c] = s
    /\ closer'[c] \in {closer[c], s}

LEMMA CloseKeepsLinks ==
  ASSUME TypeOK, NEW s \in Session,
         CloseClient(s) \/ UNCHANGED <<link, closer>>
  PROVE  LinksKeep(s)
  BY ServerTypes DEF CloseClient, LinksKeep

(* What a step of the session s does, as far as the invariant goes.        *)
Moves(s) ==
  /\ round' = round
  /\ \A t \in Session \ {s} : cmd'[t] = cmd[t]
  /\ cmd'[s].chn = cmd[s].chn /\ Live(s) /\ cmd'[s].at # "none"
  /\ cmd[s].at = "free" => cmd'[s].at = "ended"
  /\ closer' = closer \/ cmd'[s].at = "free"
  /\ LinksKeep(s)
  /\ \A n \in Channel \ {cmd[s].chn} :
       rtsp'[n].conn_status = rtsp[n].conn_status
  /\ \/ Live(s)' \/ Parted(s)'
     \/ rtsp'[cmd[s].chn].conn_status = 0

LEMMA MoversServe ==
  ASSUME TypeOK, Served, NEW s \in Session, Moves(s)
  PROVE  Served'
<1>1. Started'
  BY DEF Served, Started, Moves, Live
<1>2. ClosersLeave'
  <2> SUFFICES ASSUME NEW c \in Client, NEW t \in Session, closer'[c] = t
               PROVE  cmd'[t].at \in {"free", "ended"}
    BY DEF ClosersLeave
  <2>1. closer[c] = t => cmd[t].at \in {"free", "ended"}
    BY DEF Served, ClosersLeave
  <2>2. closer'[c] \in {closer[c], s}
    BY DEF Moves, LinksKeep
  <2>3. CASE t # s
    BY <2>1, <2>2, <2>3 DEF Moves
  <2>4. CASE t = s /\ closer' = closer
    BY <2>1, <2>4 DEF Moves, Live
  <2>5. CASE t = s /\ closer' # closer
    BY <2>5 DEF Moves
  <2> QED
    BY <2>3, <2>4, <2>5
<1>3. ClosedBySomeone'
  BY SessionIsPositive DEF Served, ClosedBySomeone, Moves, LinksKeep
<1>4. ASSUME NEW t \in Session \ {s}, NEW n \in Channel, Holds(t, n)
      PROVE  Holds(t, n)'
  <2>1. cmd'[t] = cmd[t]
    BY DEF Moves
  <2>2. CASE Live(t)
    BY <1>4, <2>1, <2>2 DEF Holds, Live
  <2>3. CASE Parted(t)
    <3> DEFINE c == cmd[t].fd
    <3>1. /\ c \in Client /\ cmd[t].at = "ended"
          /\ link[c] = "broken" \/ closer[c] \in Session \ {t}
      BY <2>3 DEF Parted
    <3>2. /\ link[c] = "broken" => link'[c] = "broken" \/ closer'[c] = s
          /\ closer'[c] \in {closer[c], s}
      BY <3>1 DEF Moves, LinksKeep
    <3>3. link'[c] = "broken" \/ closer'[c] \in Session \ {t}
      BY <3>1, <3>2
    <3> QED
      BY <1>4, <2>1, <3>1, <3>3 DEF Holds, Parted
  <2> QED
    BY <1>4, <2>2, <2>3 DEF Holds
<1>5. TakenIsHeld'
  <2> SUFFICES ASSUME NEW n \in Channel, rtsp'[n].conn_status = 1
               PROVE  \E t \in Session : Holds(t, n)'
    BY DEF TakenIsHeld
  <2>1. CASE n = cmd[s].chn
    <3>1. Live(s)' \/ Parted(s)'
      BY <2>1 DEF Moves
    <3>2. cmd'[s].chn = n
      BY <2>1 DEF Moves
    <3> QED
      BY <3>1, <3>2 DEF Holds
  <2>2. CASE n # cmd[s].chn
    <3>1. rtsp[n].conn_status = 1
      BY <2>2 DEF Moves
    <3>2. PICK t \in Session : Holds(t, n)
      BY <3>1 DEF Served, TakenIsHeld
    <3>3. t # s
      BY <2>2, <3>2 DEF Holds
    <3> QED
      BY <1>4, <3>2, <3>3
  <2> QED
    BY <2>1, <2>2
<1> QED
  BY <1>1, <1>2, <1>3, <1>5 DEF Served

LEMMA WhoBystands ==
  ASSUME TypeOK, CallbackOnChannel,
         \/ \E c \in Client : Connect(c) \/ Ask(c) \/ Break(c)
         \/ Acceptor
         \/ Callback /\ ~rtsp_proc
         \/ WakeSpuriously
         \/ \E s \in Session : Rtp(s) \/ Rtcp(s)
  PROVE  Bystands
<1>1. UNCHANGED <<cmd, round, closer>>
  BY DEF Connect, Ask, Break, Acceptor, AcceptScan, Accept, Signal, Callback,
         Wait, WakeSpuriously, FreeScan, TakeLock, CheckStatus, RtpSocket,
         RtcpSocket, send_file, Rtp, RtpFails, RtpLoop, RtpSend, RtpClose,
         Rtcp, RtcpLoop, RtcpSend, RtcpClose
<1>2. \A c \in Client : /\ link[c] = "broken" => link'[c] = "broken"
                        /\ link'[c] = "closed" => link[c] = "closed"
  <2>1. link' = link
        \/ \E c \in Client, to \in {"queued", "open", "broken"} :
             link[c] # "broken" /\ link' = [link EXCEPT ![c] = to]
    BY DEF Connect, Ask, Break, Acceptor, AcceptScan, Accept, Signal, Callback,
           Wait, WakeSpuriously, FreeScan, TakeLock, CheckStatus, RtpSocket,
           RtcpSocket, send_file, Rtp, RtpFails, RtpLoop, RtpSend, RtpClose,
           Rtcp, RtcpLoop, RtcpSend, RtcpClose
  <2> QED
    BY <2>1, ServerTypes
<1>3. \A n \in Channel : rtsp'[n].conn_status = rtsp[n].conn_status
  <2>1. rtsp \in [Channel -> Buffer]
    BY ServerTypes
  <2>2. CASE rtsp' = rtsp
    BY <2>2
  <2>3. CASE RtpSocket \/ RtcpSocket
    <3> DEFINE k == callback.chn
    <3>1. k \in Channel /\ rtsp[k] \in Buffer
      BY <2>1, <2>3 DEF RtpSocket, RtcpSocket, CallbackOnChannel
    <3>2. \E w : \/ rtsp' = [rtsp EXCEPT ![k] = [rtsp[k] EXCEPT
                               !.video_rtp_fd = round, !.rtspd_status = w]]
                 \/ rtsp' = [rtsp EXCEPT ![k] = [rtsp[k] EXCEPT
                               !.video_rtcp_fd = round, !.rtspd_status = w]]
      BY <2>3 DEF RtpSocket, RtcpSocket
    <3> HIDE DEF k
    <3> QED
      BY <2>1, <3>1, <3>2 DEF Buffer
  <2>4. ASSUME NEW s \in Session, RtpSend(s)
        PROVE  \A n \in Channel : rtsp'[n].conn_status = rtsp[n].conn_status
    <3>1. cmd[s].chn \in Channel /\ rtsp[cmd[s].chn] \in Buffer
      BY <2>1, ServerTypes
    <3>2. PICK command, running, status :
            rtsp' = [rtsp EXCEPT ![cmd[s].chn] = [rtsp[cmd[s].chn] EXCEPT
                       !.in_buffer = command, !.is_runing = running,
                       !.rtspd_status = status]]
      BY <2>4 DEF RtpSend
    <3> QED
      BY <2>1, <3>1, <3>2 DEF Buffer
  <2>5. ASSUME NEW s \in Session, RtcpSend(s), rtsp' # rtsp
        PROVE  \A n \in Channel : rtsp'[n].conn_status = rtsp[n].conn_status
    <3>1. cmd[s].chn \in Channel /\ rtsp[cmd[s].chn] \in Buffer
      BY <2>1, ServerTypes
    <3>2. rtsp' = [rtsp EXCEPT ![cmd[s].chn] =
                     [rtsp[cmd[s].chn] EXCEPT !.rtspd_status = 34]]
      BY <2>1, <2>5, <3>1 DEF RtcpSend, Set
    <3> QED
      BY <2>1, <3>1, <3>2 DEF Buffer
  <2>6. ASSUME NEW c \in Client, Accept(c)
        PROVE  \A n \in Channel : rtsp'[n].conn_status = rtsp[n].conn_status
    <3>1. acceptor.chn \in Channel
      BY DEF TypeOK
    <3>2. rtsp' = [rtsp EXCEPT ![acceptor.chn] =
                     [rtsp[acceptor.chn] EXCEPT !.cli_fd = c]]
      BY <2>1, <2>6, <3>1 DEF Accept, Set
    <3> QED
      BY <2>1, <3>1, <3>2 DEF Buffer
  <2> QED
    BY <2>2, <2>3, <2>4, <2>5, <2>6
    DEF Connect, Ask, Break, Acceptor, AcceptScan, Signal, Callback, Wait,
        WakeSpuriously, FreeScan, TakeLock, CheckStatus, send_file, Rtp,
        RtpFails, RtpLoop, RtpClose, Rtcp, RtcpLoop, RtcpClose
<1> QED
  BY <1>1, <1>2, <1>3 DEF Bystands

(* A session that starts was none before: it takes nobody's place.         *)
LEMMA StartServes ==
  ASSUME TypeOK, CallbackOnChannel, Served, rtsp_proc
  PROVE  Served'
<1> DEFINE s == round + 1
           t0 == [at |-> "read", chn |-> callback.chn, fd |-> None]
<1>1. /\ UNCHANGED <<link, rtsp, closer>> /\ round' = s /\ round \in Nat
      /\ cmd' = [cmd EXCEPT ![s] = t0]
  BY DEF rtsp_proc, TypeOK
<1>2. s \in Session => cmd[s].at = "none"
  BY <1>1 DEF Served, Started
<1>3. \A t \in Session \ {s} : cmd'[t] = cmd[t]
  BY <1>1, ServerTypes
<1> HIDE DEF t0
<1>4. Started'
  <2> SUFFICES ASSUME NEW t \in Session, t > round'
               PROVE  cmd'[t].at = "none"
    BY DEF Started
  <2>1. t > round /\ t # s
    BY <1>1, SessionIsPositive
  <2> QED
    BY <1>3, <2>1 DEF Served, Started
<1> HIDE DEF s
<1>5. ClosersLeave'
  <2> SUFFICES ASSUME NEW c \in Client, NEW t \in Session, closer[c] = t
               PROVE  cmd'[t].at \in {"free", "ended"}
    BY <1>1 DEF ClosersLeave
  <2>1. cmd[t].at \in {"free", "ended"}
    BY DEF Served, ClosersLeave
  <2>2. t # s
    BY <1>2, <2>1
  <2> QED
    BY <1>3, <2>1, <2>2
<1>6. ClosedBySomeone'
  BY <1>1 DEF Served, ClosedBySomeone
<1>7. TakenIsHeld'
  <2> SUFFICES ASSUME NEW n \in Channel, rtsp[n].conn_status = 1
               PROVE  \E t \in Session : Holds(t, n)'
    BY <1>1 DEF TakenIsHeld
  <2>1. PICK t \in Session : Holds(t, n)
    BY DEF Served, TakenIsHeld
  <2>2. t # s
    BY <1>2, <2>1 DEF Holds, Live, Parted
  <2> QED
    BY <1>1, <1>3, <2>1, <2>2 DEF Holds, Live, Parted
<1> QED
  BY <1>4, <1>5, <1>6, <1>7 DEF Served

LEMMA GoTo ==
  ASSUME TypeOK, NEW s \in Session, NEW at, cmd' = Go(s, at)
  PROVE  /\ cmd'[s].at = at /\ cmd'[s].chn = cmd[s].chn
         /\ cmd'[s].fd = cmd[s].fd
         /\ \A t \in Session \ {s} : cmd'[t] = cmd[t]
<1>1. cmd \in [Session -> Threads] /\ cmd[s] \in Threads
  BY ServerTypes
<1>2. cmd' = [cmd EXCEPT ![s] = [cmd[s] EXCEPT !.at = at]]
  BY <1>1 DEF Go
<1>3. /\ cmd'[s] = [cmd[s] EXCEPT !.at = at]
      /\ \A t \in Session \ {s} : cmd'[t] = cmd[t]
  BY <1>1, <1>2
<1>4. /\ [cmd[s] EXCEPT !.at = at].at = at
      /\ [cmd[s] EXCEPT !.at = at].chn = cmd[s].chn
      /\ [cmd[s] EXCEPT !.at = at].fd = cmd[s].fd
  BY <1>1 DEF Threads
<1> QED
  BY <1>3, <1>4

(* What a session finds closed, another has closed.                        *)
LEMMA ClosedByAnother ==
  ASSUME TypeOK, Served, NEW s \in Session, NEW c \in Client,
         cmd[s].at \in {"read", "blocked"}, link[c] = "closed"
  PROVE  closer[c] \in Session \ {s}
<1>1. closer[c] \in Session
  BY ServerTypes DEF Served, ClosedBySomeone
<1>2. closer[c] # s
  BY DEF Served, ClosersLeave
<1> QED
  BY <1>1, <1>2

LEMMA ReadsMove ==
  ASSUME TypeOK, Served, NEW s \in Session,
         StartRead(s) \/ Receive(s) \/ ReadEnds(s) \/ ReadFails(s)
  PROVE  Moves(s)
<1>1. LinksKeep(s) /\ UNCHANGED <<round, closer, link>>
  BY CloseKeepsLinks DEF StartRead, Receive, ReadEnds, ReadFails
<1>2. CASE StartRead(s)
  <2> DEFINE fd == rtsp[cmd[s].chn].cli_fd
             at == IF fd \in Client /\ link[fd] = "closed"
                   THEN "ended" ELSE "blocked"
  <2>1. /\ cmd \in [Session -> Threads] /\ cmd[s] \in Threads
        /\ cmd[s].at = "read" /\ rtsp' = rtsp
    BY <1>2, ServerTypes DEF StartRead
  <2>2. cmd' = [cmd EXCEPT ![s] = [cmd[s] EXCEPT !.fd = fd, !.at = at]]
    BY <1>2, <2>1 DEF StartRead
  <2>3. \/ at = "blocked"
        \/ at = "ended" /\ fd \in Client /\ closer[fd] \in Session \ {s}
    <3>1. ASSUME fd \in Client, link[fd] = "closed"
          PROVE  closer[fd] \in Session \ {s}
      <4> HIDE DEF fd, at
      <4> QED
        BY <2>1, <3>1, ClosedByAnother
    <3>2. CASE fd \in Client /\ link[fd] = "closed"
      BY <3>1, <3>2
    <3>3. CASE ~(fd \in Client /\ link[fd] = "closed")
      BY <3>3
    <3> QED
      BY <3>2, <3>3
  <2> HIDE DEF fd, at
  <2>4. /\ cmd'[s] = [cmd[s] EXCEPT !.fd = fd, !.at = at]
        /\ \A t \in Session \ {s} : cmd'[t] = cmd[t]
    BY <2>1, <2>2
  <2>5. /\ [cmd[s] EXCEPT !.fd = fd, !.at = at].at = at
        /\ [cmd[s] EXCEPT !.fd = fd, !.at = at].fd = fd
        /\ [cmd[s] EXCEPT !.fd = fd, !.at = at].chn = cmd[s].chn
    BY <2>1 DEF Threads
  <2> QED
    BY <1>1, <2>1, <2>3, <2>4, <2>5 DEF Moves, Live, Parted
<1>3. CASE Receive(s) \/ ReadEnds(s)
  <2>1. cmd[s].at = "blocked" /\ cmd' = Go(s, "match")
    BY <1>3 DEF Receive, ReadEnds
  <2>2. \A n \in Channel : rtsp'[n].conn_status = rtsp[n].conn_status
    <3>1. /\ rtsp \in [Channel -> Buffer] /\ cmd[s].chn \in Channel
          /\ rtsp[cmd[s].chn] \in Buffer
      BY ServerTypes
    <3>2. PICK v : rtsp' = [rtsp EXCEPT ![cmd[s].chn] =
                              [rtsp[cmd[s].chn] EXCEPT !.in_buffer = v]]
      BY <1>3, <3>1 DEF Receive, ReadEnds, Set
    <3> QED
      BY <3>1, <3>2 DEF Buffer
  <2> QED
    BY <1>1, <2>1, <2>2, GoTo DEF Moves, Live
<1>4. CASE ReadFails(s)
  <2>1. /\ cmd[s].at = "blocked" /\ cmd' = Go(s, "ended") /\ rtsp' = rtsp
        /\ Gone(cmd[s].fd)
    BY <1>4 DEF ReadFails
  <2>2. Parted(s)'
    BY <1>1, <2>1, GoTo, ClosedByAnother DEF Gone, Parted
  <2> QED
    BY <1>1, <2>1, <2>2, GoTo DEF Moves, Live
<1> QED
  BY <1>2, <1>3, <1>4

LEMMA AnswersMove ==
  ASSUME TypeOK, Served, NEW s \in Session, Refuse(s) \/ Grant(s)
  PROVE  Moves(s)
<1> DEFINE n == cmd[s].chn
<1>1. /\ rtsp \in [Channel -> Buffer] /\ n \in Channel /\ rtsp[n] \in Buffer
  BY ServerTypes
<1>2. /\ round' = round /\ cmd[s].at = "match"
      /\ cmd' = Go(s, "free") \/ cmd' = Go(s, "busy")
      /\ CloseClient(s) \/ UNCHANGED <<link, closer>>
      /\ cmd' = Go(s, "free") \/ closer' = closer
  BY DEF Refuse, Grant
<1>3. \E u, v, w :
        rtsp' = [rtsp EXCEPT ![n] = [rtsp[n] EXCEPT
                   !.vist_type = u, !.rtspd_status = v, !.is_runing = w]]
  <2>1. CASE Refuse(s)
    BY <2>1 DEF Refuse
  <2>2. CASE Grant(s)
    <3> DEFINE m == IF rtsp[n].in_buffer = Nothing THEN Other
                    ELSE rtsp[n].in_buffer
               v == IF m = Other THEN rtsp[n].rtspd_status ELSE Granted(m)
               w == m = PLAY \/ (rtsp[n].is_runing /\ m # TEARDOWN)
    <3>1. PICK u \in IF m \in 2 .. TEARDOWN THEN Kinds
                     ELSE {rtsp[n].vist_type} :
            rtsp' = [rtsp EXCEPT ![n] = [rtsp[n] EXCEPT
                       !.vist_type = u, !.rtspd_status = v, !.is_runing = w]]
      BY <2>2 DEF Grant
    <3> HIDE DEF v, w
    <3> QED
      BY <3>1
  <2> QED
    BY <2>1, <2>2
<1>4. \A k \in Channel : rtsp'[k].conn_status = rtsp[k].conn_status
  <2> HIDE DEF n
  <2> QED
    BY <1>1, <1>3 DEF Buffer
<1>5. LinksKeep(s)
  BY <1>2, CloseKeepsLinks
<1> QED
  BY <1>2, <1>4, <1>5, GoTo DEF Moves, Live

LEMMA MarksMove ==
  ASSUME TypeOK, Served, NEW s \in Session, SetFree(s) \/ SetBusy(s)
  PROVE  Moves(s)
<1> DEFINE n == cmd[s].chn
<1>1. /\ rtsp \in [Channel -> Buffer] /\ n \in Channel /\ rtsp[n] \in Buffer
  BY ServerTypes
<1>2. LinksKeep(s) /\ UNCHANGED <<round, closer>>
  BY CloseKeepsLinks DEF SetFree, SetBusy
<1>3. ASSUME NEW v, rtsp' = Set(n, "conn_status", v)
      PROVE  /\ \A k \in Channel \ {n} : rtsp'[k] = rtsp[k]
             /\ rtsp'[n].conn_status = v
  <2>1. rtsp' = [rtsp EXCEPT ![n] = [rtsp[n] EXCEPT !.conn_status = v]]
    BY <1>1, <1>3 DEF Set
  <2> HIDE DEF n
  <2> QED
    BY <1>1, <2>1 DEF Buffer
<1>4. CASE SetFree(s)
  <2>1. /\ cmd[s].at = "free" /\ cmd' = Go(s, "ended")
        /\ rtsp' = Set(n, "conn_status", 0)
    BY <1>4 DEF SetFree
  <2> QED
    BY <1>2, <1>3, <2>1, GoTo DEF Moves, Live
<1>5. CASE SetBusy(s)
  <2>1. /\ cmd[s].at = "busy" /\ cmd' = Go(s, "read")
        /\ rtsp' = Set(n, "conn_status", 1)
    BY <1>5 DEF SetBusy
  <2> QED
    BY <1>2, <1>3, <2>1, GoTo DEF Moves, Live
<1> QED
  BY <1>4, <1>5

LEMMA StartServed == Init => Served
<1> SUFFICES ASSUME Init PROVE Served
  OBVIOUS
<1>1. ClosersLeave
  BY SessionIsPositive DEF Init, ClosersLeave
<1> QED
  BY <1>1 DEF Init, Served, Started, ClosedBySomeone, TakenIsHeld

LEMMA StepServes ==
  ASSUME TypeOK, CallbackOnChannel, Served, [Next]_vars
  PROVE  Served'
<1>1. CASE \/ \E c \in Client : Connect(c) \/ Ask(c) \/ Break(c)
           \/ Acceptor \/ WakeSpuriously
  BY <1>1, WhoBystands, BystandersServe
<1>2. CASE Callback
  BY <1>2, StartServes, WhoBystands, BystandersServe
<1>3. ASSUME NEW s \in Session, Command(s) \/ ReadEnds(s) \/ ReadFails(s)
      PROVE  Served'
  <2>1. Moves(s)
    BY <1>3, ReadsMove, AnswersMove, MarksMove DEF Command
  <2> QED
    BY <2>1, MoversServe
<1>4. ASSUME NEW s \in Session, Rtp(s) \/ Rtcp(s) PROVE Served'
  BY <1>4, WhoBystands, BystandersServe
<1>5. CASE UNCHANGED vars
  <2>1. Bystands
    BY <1>5 DEF vars, Bystands
  <2> QED
    BY <2>1, BystandersServe
<1> QED
  BY <1>1, <1>2, <1>3, <1>4, <1>5 DEF Next

(* A channel marked taken has a thread of vd_rtsp_proc that answers its    *)
(* client; where it has none, one ended at tcp_read, with its client gone  *)
(* or its connection closed by a thread that shares the channel.           *)
THEOREM RtspTakenIsServed == Spec => []TakenIsServed
<1>1. Served => TakenIsServed
  BY DEF Served, TakenIsHeld, TakenIsServed, Holds, Live, Parted
<1>2. /\ TypeOK /\ CallbackOnChannel /\ Served /\ [Next]_vars => Served'
  BY StepServes
<1>3. Spec => []TypeOK /\ []CallbackOnChannel
  BY RtspTypes, PTL
<1> QED
  BY <1>1, <1>2, <1>3, StartServed, PTL DEF Spec
=============================================================================
