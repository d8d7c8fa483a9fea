------------------------------ MODULE TcpScan ------------------------------
(***************************************************************************)
(* The port scanner (Network_Port_Scan/tcp_scan.c): it sends a SYN to      *)
(* every port of every host of some address segments, several times over,  *)
(* takes answers from two nonblocking raw sockets as it goes, and waits    *)
(* for the late ones for twice the lifetime of a segment.                  *)
(*                                                                         *)
(* The hosts and the network are external: a host answers a SYN by what    *)
(* its port is, every segment takes its time, gets lost or overtakes       *)
(* others, and an answer to some earlier scan may turn up.  An address is  *)
(* a number.                                                               *)
(***************************************************************************)
EXTENDS Integers, Sequences, FiniteSets

CONSTANTS
    MaxAddr,   \* the address with all bits set
    Segs,      \* the scope: a sequence of [first, last], see Hosts
    Ports,     \* the ports: a sequence
    REPEATS,   \* TCP_SCAN_REPEATS
    MSL,       \* MAX_SEG_LIFETIME, in ticks
    Router,    \* who answers for hosts that cannot be reached
    Stales     \* bound: answers to an earlier scan

Addr == 0 .. MaxAddr
PortNumbers == {Ports[k] : k \in DOMAIN Ports}

\* The hosts of a segment of which the first bits of width are given:
\* address & ~hostmax to address | hostmax
Hosts(addr, bits, width) ==
    LET size  == 2^(width - bits)
        first == size * (addr \div size)
    IN  [first |-> first, last |-> first + size - 1]

ASSUME TcpScanAssumption ==
    /\ MaxAddr \in Nat /\ REPEATS \in Nat \ {0} /\ MSL \in Nat \ {0}
    /\ Segs \in Seq([first : Addr, last : Addr]) /\ Segs # << >>
    /\ \A s \in DOMAIN Segs : Segs[s].first <= Segs[s].last
    /\ Ports \in Seq(Nat \ {0}) /\ Ports # << >>
    /\ Router \in Addr /\ Stales \in Nat

Target == UNION {(Segs[s].first .. Segs[s].last) \X PortNumbers :
                     s \in DOMAIN Segs}
Kinds  == {"open", "closed", "unreachable", "silent"}
States == {"accepted", "refused", "unreach"}        \* TS_*
Strays == {"quiet", "readable", "unopened"}
Life   == 2 * MSL

VARIABLES
    kind,      \* what each target is
    stray,     \* what select watches besides the two sockets
    net,       \* probes under way, there or back
    stale,     \* answers to an earlier scan so far
    tcpsock, icmpsock,  \* what the raw sockets hold; the network delivers in
                        \*   any order, so that the order does not matter
    pc,        \* the place in the scan
    i, port, seg, host, \* its loops
    ready,     \* the sockets select found readable
    left,      \* what is left of select's timeout
    root,      \* the tree of addresses seen
    reports,   \* the calls of __info, each with the answer it is about
    resets,    \* the SYN-ACKs for which __tcp_rst is called; whether sendto
               \*   then sends the RST is not looked at
    ret,       \* what tcp_scan returns
    lost,      \* history: the probes that were lost, or their answers
    probes     \* history: the SYNs sent

netVars  == <<net, stale, lost>>
sockVars == <<tcpsock, icmpsock>>
loopVars == <<i, port, seg, host>>
tellVars == <<root, reports, resets>>
vars == <<kind, stray, netVars, sockVars, pc, loopVars, ready, left, tellVars,
          ret, probes>>

Probe   == Target \X (1 .. REPEATS)
\* The SYN of round n or its answer
Segment == [to : Target, n : 1 .. REPEATS, age : 0 .. Life - 1]
\* An answer as a socket gets it: whence it comes, and of what kind; those
\* to an earlier scan have n = 0.
Answer  == [from : Addr, port : PortNumbers, n : 0 .. REPEATS,
            state : States]

TcpScanTypeOK ==
    /\ kind \in [Target -> Kinds] /\ stray \in Strays
    /\ net \subseteq Segment
    /\ stale \in 0 .. Stales
    /\ tcpsock \subseteq Answer /\ icmpsock \subseteq Answer
    /\ pc \in {"syn", "tcp", "icmp", "select", "end"}
    /\ i \in 1 .. REPEATS + 1 /\ port \in DOMAIN Ports
    /\ seg \in DOMAIN Segs /\ host \in Addr
    /\ ready \subseteq {"tcp", "icmp"} /\ left \in 0 .. Life
    /\ root \subseteq Addr \X PortNumbers
    /\ reports \subseteq Answer
    /\ resets \subseteq Addr \X PortNumbers \X (1 .. REPEATS)
    /\ ret \in {0, -1}
    /\ lost \subseteq Probe /\ probes \subseteq Probe

\* The fd_set all of __wait_response is never cleared, so that it names any
\* descriptors besides the sockets: one that is readable, or one that is not
\* open, or none such.
Init ==
    /\ kind \in [Target -> Kinds]
    /\ stray \in Strays
    /\ net = {} /\ stale = 0 /\ tcpsock = {} /\ icmpsock = {}
    /\ pc = "syn" /\ i = 1 /\ port = 1 /\ seg = 1
    /\ host = Segs[1].first
    /\ ready = {"tcp", "icmp"} /\ left = Life
    /\ root = {} /\ reports = {} /\ resets = {} /\ ret = -1
    /\ lost = {} /\ probes = {}
-----------------------------------------------------------------------------
(* The network and the hosts, as long as the scan goes on.                 *)

Answers(k) == k # "silent"
StateOf(k) == CASE k = "open" -> "accepted" [] k = "closed" -> "refused"
                [] k = "unreachable" -> "unreach"
\* An unreachable host is reported by the router.
From(t, k) == IF k = "unreachable" THEN Router ELSE t[1]

\* An answer gets into one of the sockets; none if the target is silent.
Deliver(t, n, k) ==
    LET a == {[from |-> From(t, k), port |-> t[2], n |-> n,
               state |-> StateOf(k)]}
    IN  CASE k \in {"open", "closed"} ->
               tcpsock' = tcpsock \cup a /\ icmpsock' = icmpsock
          [] k = "unreachable" ->
               icmpsock' = icmpsock \cup a /\ tcpsock' = tcpsock
          [] k = "silent" -> UNCHANGED sockVars

Arrive ==
    \E s \in net :
        /\ net' = net \ {s}
        /\ Deliver(s.to, s.n, kind[s.to])
        /\ UNCHANGED <<kind, stray, stale, lost, pc, loopVars, ready, left,
                       tellVars, ret, probes>>

Lose ==
    \E s \in net :
        /\ Answers(kind[s.to])
        /\ net' = net \ {s} /\ lost' = lost \cup {<<s.to, s.n>>}
        /\ UNCHANGED <<kind, stray, stale, sockVars, pc, loopVars, ready, left,
                       tellVars, ret, probes>>

\* An answer to a scan of some time ago, when the target may have been
\* something else
StaleAnswer ==
    /\ stale < Stales /\ stale' = stale + 1
    /\ \E t \in Target, k \in Kinds \ {"silent"} : Deliver(t, 0, k)
    /\ UNCHANGED <<kind, stray, net, lost, pc, loopVars, ready, left, tellVars,
                   ret, probes>>

\* A SYN and its answer are gone after MSL each.
Tick ==
    /\ \A s \in net : s.age < Life - 1
    /\ pc = "select" => left > 0
    /\ net' = {[s EXCEPT !.age = @ + 1] : s \in net}
    /\ left' = IF pc = "select" THEN left - 1 ELSE left
    /\ UNCHANGED <<kind, stray, stale, lost, sockVars, pc, loopVars, ready,
                   tellVars, ret, probes>>

\* A line is typed, say; nobody reads it. Only select cares.
StrayWakes ==
    /\ pc = "select" /\ stray = "quiet" /\ stray' = "readable"
    /\ UNCHANGED <<kind, netVars, sockVars, pc, loopVars, ready, left,
                   tellVars, ret, probes>>
-----------------------------------------------------------------------------
(* The scan.                                                               *)

Waiting == i > REPEATS

\* __rb_search_sockaddr: with port 0, which is never in the tree
Seen(h) == <<h, 0>> \in root

SendSyn ==
    /\ pc = "syn" /\ pc' = "tcp"
    /\ LET t == <<host, Ports[port]>> IN
       IF Seen(host) THEN UNCHANGED <<net, probes>>
       ELSE /\ net' = net \cup {[to |-> t, n |-> i, age |-> 0]}
            /\ probes' = probes \cup {<<t, i>>}
    /\ UNCHANGED <<kind, stray, stale, lost, sockVars, loopVars, ready, left,
                   tellVars, ret>>

Fail == pc' = "end" /\ UNCHANGED <<root, reports>>

(* Mutant: an address already in the tree is reported again. *)
TellAgain(a) ==
    /\ root' = root \cup {<<a.from, a.port>>}
    /\ reports' = reports \cup {a} /\ pc' = pc

\* __rb_insert_sockaddr and __info, each of which may fail
Tell(a) ==
    \/ /\ <<a.from, a.port>> \notin root
       /\ root' = root \cup {<<a.from, a.port>>}
       /\ reports' = reports \cup {a}
       /\ pc' \in {pc, "end"}
    \/ <<a.from, a.port>> \in root /\ UNCHANGED <<root, reports, pc>>
    \/ <<a.from, a.port>> \notin root /\ Fail

(* Mutants: th_ack is not compared; only the first answer gets a RST. *)
ProcTcpAny(a) ==
    Tell(a) /\ resets' = IF a.state = "accepted" /\ a.n # 0
                         THEN resets \cup {<<a.from, a.port, a.n>>} ELSE resets
ProcTcpOnce(a) ==
    IF a.n = 0 THEN UNCHANGED <<pc, tellVars>>
    ELSE /\ resets' = IF a.state = "accepted" /\ <<a.from, a.port>> \notin root
                      THEN resets \cup {<<a.from, a.port, a.n>>} ELSE resets
         /\ Tell(a)

\* __proc_tcp_packet
ProcTcp(a) ==
    IF a.n = 0 THEN UNCHANGED <<pc, tellVars>>
    ELSE /\ resets' = IF a.state = "accepted"
                      THEN resets \cup {<<a.from, a.port, a.n>>} ELSE resets
         /\ Tell(a)

\* __proc_icmp_packet
ProcIcmp(a) ==
    IF a.n = 0 THEN UNCHANGED <<pc, tellVars>>
    ELSE Tell(a) /\ resets' = resets

RecvTcp ==
    /\ pc = "tcp" /\ "tcp" \in ready
    /\ \E a \in tcpsock : tcpsock' = tcpsock \ {a} /\ ProcTcp(a)
    /\ UNCHANGED <<kind, stray, netVars, icmpsock, loopVars, ready, left, ret,
                   probes>>

(* Mutant: the socket blocks. *)
TcpDrainedBlocking ==
    /\ pc = "tcp" /\ "tcp" \notin ready
    /\ pc' = "icmp"
    /\ UNCHANGED <<kind, stray, netVars, sockVars, loopVars, ready, left,
                   tellVars, ret, probes>>

TcpDrained ==
    /\ pc = "tcp" /\ ("tcp" \notin ready \/ tcpsock = {})
    /\ pc' = "icmp"
    /\ UNCHANGED <<kind, stray, netVars, sockVars, loopVars, ready, left,
                   tellVars, ret, probes>>

RecvIcmp ==
    /\ pc = "icmp" /\ "icmp" \in ready
    /\ \E a \in icmpsock : icmpsock' = icmpsock \ {a} /\ ProcIcmp(a)
    /\ UNCHANGED <<kind, stray, netVars, tcpsock, loopVars, ready, left, ret,
                   probes>>

\* The address after h: the one after the last wraps.
Following(h) == IF h = MaxAddr THEN 0 ELSE h + 1

(* Mutant: the loop over the hosts ends before the last.                    *)
NextHostShort ==
    IF host + 1 < Segs[seg].last
    THEN host' = Following(host) /\ UNCHANGED <<seg, port, i>>
    ELSE /\ seg' = IF seg < Len(Segs) THEN seg + 1 ELSE 1
         /\ host' = Segs[seg'].first
         /\ port' = IF seg < Len(Segs) THEN port
                    ELSE IF port < Len(Ports) THEN port + 1 ELSE 1
         /\ i' = IF seg < Len(Segs) \/ port < Len(Ports) THEN i ELSE i + 1

\* The loops over the hosts, the segments, the ports and the repeats
NextHost ==
    IF host # Segs[seg].last
    THEN host' = Following(host) /\ UNCHANGED <<seg, port, i>>
    ELSE /\ seg' = IF seg < Len(Segs) THEN seg + 1 ELSE 1
         /\ host' = Segs[seg'].first
         /\ port' = IF seg < Len(Segs) THEN port
                    ELSE IF port < Len(Ports) THEN port + 1 ELSE 1
         /\ i' = IF seg < Len(Segs) \/ port < Len(Ports) THEN i ELSE i + 1

IcmpDrained ==
    /\ pc = "icmp" /\ ("icmp" \notin ready \/ icmpsock = {})
    /\ IF Waiting THEN pc' = "select" /\ UNCHANGED loopVars
       ELSE NextHost /\ pc' = IF i' > REPEATS THEN "select" ELSE "syn"
    /\ UNCHANGED <<kind, stray, netVars, sockVars, ready, left, tellVars, ret,
                   probes>>

\* __wait_response: select goes on with what is left of its timeout. With a
\* stray descriptor readable it returns at once, even when nothing is left.
SelectReady ==
    /\ pc = "select" /\ stray # "unopened"
    /\ tcpsock # {} \/ icmpsock # {} \/ stray = "readable"
    /\ ready' = (IF tcpsock # {} THEN {"tcp"} ELSE {})
                  \cup (IF icmpsock # {} THEN {"icmp"} ELSE {})
    /\ pc' = "tcp"
    /\ UNCHANGED <<kind, stray, netVars, sockVars, loopVars, left, tellVars,
                   ret, probes>>

(* Mutant: the wait is for one MSL. *)
SelectTimeoutEarly ==
    /\ pc = "select" /\ stray = "quiet"
    /\ tcpsock = {} /\ icmpsock = {} /\ left <= MSL
    /\ pc' = "end" /\ ret' = 0
    /\ UNCHANGED <<kind, stray, netVars, sockVars, loopVars, ready, left,
                   tellVars, probes>>

SelectTimeout ==
    /\ pc = "select" /\ stray = "quiet"
    /\ tcpsock = {} /\ icmpsock = {} /\ left = 0
    /\ pc' = "end" /\ ret' = 0
    /\ UNCHANGED <<kind, stray, netVars, sockVars, loopVars, ready, left,
                   tellVars, probes>>

\* EBADF
SelectFails ==
    /\ pc = "select" /\ stray = "unopened" /\ pc' = "end"
    /\ UNCHANGED <<kind, stray, netVars, sockVars, loopVars, ready, left,
                   tellVars, ret, probes>>

\* recvfrom or select fails with something else than EAGAIN, a signal say.
CallFails ==
    /\ pc \in {"tcp", "icmp", "select"} /\ pc' = "end"
    /\ UNCHANGED <<kind, stray, netVars, sockVars, loopVars, ready, left,
                   tellVars, ret, probes>>

Scan == \/ SendSyn \/ RecvTcp \/ TcpDrained \/ RecvIcmp \/ IcmpDrained
        \/ SelectReady \/ SelectTimeout \/ SelectFails

Network == pc # "end" /\ (Arrive \/ Lose \/ StaleAnswer \/ StrayWakes \/ Tick)

Next == Network \/ Scan \/ CallFails

Spec == Init /\ [][Next]_vars

\* The scanner runs, and time goes on; answers owe nothing.
FairSpec == Spec /\ WF_vars(Scan) /\ WF_vars(pc # "end" /\ Tick)
                 /\ WF_vars(pc # "end" /\ (Arrive \/ Lose))
-----------------------------------------------------------------------------
Done == pc = "end" /\ ret = 0

\* No address and port is reported twice, however many answers come.
ReportedOnce ==
    \A r1, r2 \in reports :
        r1 # r2 => r1.from # r2.from \/ r1.port # r2.port

\* What is reported is so: answers to an earlier scan do not count, and only
\* a router speaks for others.
ReportIsTrue ==
    \A r \in reports :
        CASE r.state = "accepted" -> kind[<<r.from, r.port>>] = "open"
          [] r.state = "refused"  -> kind[<<r.from, r.port>>] = "closed"
          [] r.state = "unreach"  ->
               /\ r.from = Router
               /\ \E t \in Target : t[2] = r.port /\ kind[t] = "unreachable"

\* Every target one of whose probes came through both ways is reported by
\* the time tcp_scan returns 0, under the address that answered.
AnsweredIsReported ==
    Done => \A t \in Target :
        Answers(kind[t]) /\ (\E n \in 1 .. REPEATS : <<t, n>> \notin lost) =>
            \E r \in reports : r.from = From(t, kind[t]) /\ r.port = t[2]

\* A polite scanner: for every connection a host has accepted __tcp_rst is
\* called, for the repeated and the late ones as well.
AcceptedIsReset ==
    Done => \A t \in Target, n \in 1 .. REPEATS :
        kind[t] = "open" /\ <<t, n>> \notin lost => <<t[1], t[2], n>> \in resets

\* Every port of every host of every segment is probed in every round, the
\* host with all bits set included, and nothing else is.
ScopeIsProbed ==
    /\ probes \subseteq Probe
    /\ Done => probes = Probe

\* The scan ends, unless a stray descriptor is readable for ever: select then
\* never times out.
ScanEnds == <>(pc = "end" \/ stray = "readable")
=============================================================================
