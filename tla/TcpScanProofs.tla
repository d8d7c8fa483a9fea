--------------------------- MODULE TcpScanProofs ---------------------------
(***************************************************************************)
(* What a scan finds and leaves behind, for every scope, list of ports,    *)
(* number of repeats and lifetime of a segment.                            *)
(***************************************************************************)
EXTENDS TcpScan, TLAPS

(* The answer of a target to the SYN of round n.                           *)
AnswerOf(t, n, k) ==
    [from |-> From(t, k), port |-> t[2], n |-> n, state |-> StateOf(k)]

(* Where the scan is: it waits only when it has sent everything, and it    *)
(* returns 0 only when nothing can come any more.                          *)
Phases ==
    /\ pc = "syn" => ~Waiting
    /\ ~Waiting => left = Life
    /\ pc = "select" => Waiting
    /\ pc # "end" => ret = -1
    /\ Done => Waiting /\ net = {} /\ tcpsock = {} /\ icmpsock = {}
    /\ host \in Segs[seg].first .. Segs[seg].last

(* Whatever is under way dies before select's timeout runs out.            *)
Fresh == \A s \in net : s.age + left >= Life

(* What is in the sockets and what is reported comes from a target, unless *)
(* it is about an earlier scan; those are never reported.                  *)
Truthful ==
    /\ \A a \in tcpsock \cup icmpsock \cup reports :
           a.n # 0 => \E t \in Target : /\ kind[t] # "silent"
                                        /\ a = AnswerOf(t, a.n, kind[t])
    /\ \A a \in icmpsock : a.state = "unreach"
    /\ \A a \in reports : a.n # 0

(* The tree holds exactly what is reported, each once.                     *)
Recorded ==
    /\ \A r \in reports : <<r.from, r.port>> \in root
    /\ \A x \in root : \E r \in reports : x = <<r.from, r.port>>
    /\ \A r1, r2 \in reports :
           r1 # r2 => r1.from # r2.from \/ r1.port # r2.port

(* What has become of the probe of t in round n                            *)
UnderWay(t, n) == \E s \in net : s.to = t /\ s.n = n
Waits(t, n) == AnswerOf(t, n, kind[t]) \in tcpsock \cup icmpsock
Told(t, n) ==
    /\ \E r \in reports : r.from = From(t, kind[t]) /\ r.port = t[2]
    /\ kind[t] = "open" => <<t[1], t[2], n>> \in resets
Failed == pc = "end" /\ ret = -1
Accounted ==
    Failed \/ \A t \in Target, n \in 1 .. REPEATS :
        <<t, n>> \in probes /\ kind[t] # "silent" =>
            <<t, n>> \in lost \/ UnderWay(t, n) \/ Waits(t, n) \/ Told(t, n)

(* What the loops have passed has been probed.                             *)
Passed(n, p, g, h) ==
    \/ n < i
    \/ n = i /\ p < port
    \/ n = i /\ p = port /\ g < seg
    \/ n = i /\ p = port /\ g = seg /\ h < host
    \/ n = i /\ p = port /\ g = seg /\ h = host /\ pc # "syn"
PassedAreProbed ==
    \A n \in 1 .. REPEATS, p \in DOMAIN Ports, g \in DOMAIN Segs :
        \A h \in Segs[g].first .. Segs[g].last :
            Passed(n, p, g, h) => <<<<h, Ports[p]>>, n>> \in probes

IInv == /\ TcpScanTypeOK /\ Phases /\ Fresh /\ Truthful /\ Recorded
        /\ Accounted /\ PassedAreProbed
-----------------------------------------------------------------------------
LEMMA Numbers ==
  /\ MSL \in Nat /\ MSL > 0 /\ Life \in Nat /\ Life = MSL + MSL
  /\ REPEATS \in Nat /\ REPEATS > 0 /\ MaxAddr \in Nat /\ Stales \in Nat
  BY TcpScanAssumption DEF Life

LEMMA NonEmpty ==
  ASSUME NEW S, NEW q \in Seq(S), q # << >>
  PROVE  /\ Len(q) \in Nat /\ Len(q) > 0 /\ DOMAIN q = 1 .. Len(q)
         /\ \A k \in DOMAIN q : q[k] \in S
  OBVIOUS

LEMMA Scope ==
  /\ Len(Segs) \in Nat /\ Len(Segs) > 0 /\ DOMAIN Segs = 1 .. Len(Segs)
  /\ Len(Ports) \in Nat /\ Len(Ports) > 0 /\ DOMAIN Ports = 1 .. Len(Ports)
  /\ \A g \in DOMAIN Segs : /\ Segs[g].first \in 0 .. MaxAddr
                            /\ Segs[g].last \in 0 .. MaxAddr
                            /\ Segs[g].first <= Segs[g].last
  /\ \A p \in DOMAIN Ports : Ports[p] \in Nat \ {0}
<1>1. /\ Segs \in Seq([first : Addr, last : Addr]) /\ Segs # << >>
      /\ Ports \in Seq(Nat \ {0}) /\ Ports # << >>
  BY TcpScanAssumption
<1>2. /\ Len(Segs) \in Nat /\ Len(Segs) > 0 /\ DOMAIN Segs = 1 .. Len(Segs)
      /\ \A g \in DOMAIN Segs : Segs[g] \in [first : Addr, last : Addr]
  <2> DEFINE S == [first : Addr, last : Addr]
  <2>1. Segs \in Seq(S) /\ Segs # << >>
    BY <1>1
  <2> HIDE DEF S
  <2> QED
    BY <2>1, NonEmpty DEF S
<1>3. /\ Len(Ports) \in Nat /\ Len(Ports) > 0
      /\ DOMAIN Ports = 1 .. Len(Ports)
      /\ \A p \in DOMAIN Ports : Ports[p] \in Nat \ {0}
  BY <1>1, NonEmpty
<1>4. \A g \in DOMAIN Segs : Segs[g].first <= Segs[g].last
  BY TcpScanAssumption
<1> QED
  BY <1>2, <1>3, <1>4 DEF Addr

LEMMA PortsArePositive == \A p \in PortNumbers : p \in Nat \ {0}
  BY Scope DEF PortNumbers

LEMMA TargetsInRange ==
  ASSUME NEW t \in Target
  PROVE  /\ t[1] \in Addr /\ t[2] \in PortNumbers
         /\ t = <<t[1], t[2]>>
<1>1. PICK g \in DOMAIN Segs :
          t \in (Segs[g].first .. Segs[g].last) \X PortNumbers
  BY DEF Target
<1>2. Segs[g].first .. Segs[g].last \subseteq Addr
  BY Scope, Numbers DEF Addr
<1> QED
  BY <1>1, <1>2

LEMMA InScope ==
  ASSUME NEW g \in DOMAIN Segs, NEW p \in DOMAIN Ports,
         NEW h \in Segs[g].first .. Segs[g].last
  PROVE  <<h, Ports[p]>> \in Target
  BY DEF Target, PortNumbers

(* An answer is one, and says who sent it.                                 *)
LEMMA AnswersFit ==
  ASSUME NEW t \in Target, NEW n \in 0 .. REPEATS, NEW k \in Kinds \ {"silent"}
  PROVE  /\ AnswerOf(t, n, k) \in Answer
         /\ AnswerOf(t, n, k).n = n
         /\ AnswerOf(t, n, k).from = From(t, k)
         /\ AnswerOf(t, n, k).port = t[2]
         /\ AnswerOf(t, n, k).state = StateOf(k)
<1>1. From(t, k) \in Addr
  BY TargetsInRange, TcpScanAssumption DEF From
<1>2. StateOf(k) \in States
  BY DEF StateOf, States, Kinds
<1> QED
  BY <1>1, <1>2, TargetsInRange DEF AnswerOf, Answer

(* What delivering does to the sockets.                                    *)
LEMMA Delivered ==
  ASSUME NEW t \in Target, NEW n \in 0 .. REPEATS, NEW k \in Kinds,
         Deliver(t, n, k)
  PROVE  /\ tcpsock \subseteq tcpsock' /\ icmpsock \subseteq icmpsock'
         /\ k = "silent" => UNCHANGED sockVars
         /\ tcpsock' \subseteq tcpsock \cup {AnswerOf(t, n, k)}
         /\ icmpsock' \subseteq icmpsock \cup {AnswerOf(t, n, k)}
         /\ k # "silent" => AnswerOf(t, n, k) \in tcpsock' \cup icmpsock'
         /\ k # "unreachable" => icmpsock' = icmpsock
<1>1. k \in {"open", "closed", "unreachable", "silent"}
  BY DEF Kinds
<1>2. CASE k \in {"open", "closed"}
  BY <1>2 DEF Deliver, AnswerOf
<1>3. CASE k = "unreachable"
  BY <1>3 DEF Deliver, AnswerOf
<1>4. CASE k = "silent"
  BY <1>4 DEF Deliver, sockVars
<1> QED
  BY <1>1, <1>2, <1>3, <1>4

(* The types by groups.                                                    *)
NetTypes == /\ kind \in [Target -> Kinds] /\ stray \in Strays
            /\ net \subseteq Segment
            /\ stale \in 0 .. Stales /\ lost \subseteq Probe
SockTypes == tcpsock \subseteq Answer /\ icmpsock \subseteq Answer
LoopTypes == /\ pc \in {"syn", "tcp", "icmp", "select", "end"}
             /\ i \in 1 .. REPEATS + 1 /\ port \in DOMAIN Ports
             /\ seg \in DOMAIN Segs /\ host \in Addr
             /\ ready \subseteq {"tcp", "icmp"} /\ left \in 0 .. Life
             /\ ret \in {0, -1}
ToldTypes == /\ root \subseteq Addr \X PortNumbers
             /\ reports \subseteq Answer
             /\ resets \subseteq Addr \X PortNumbers \X (1 .. REPEATS)
LEMMA TypesInParts ==
  TcpScanTypeOK <=>
     NetTypes /\ SockTypes /\ LoopTypes /\ ToldTypes /\ probes \subseteq Probe
  BY DEF TcpScanTypeOK, NetTypes, SockTypes, LoopTypes, ToldTypes
LEMMA TypesAfter ==
  ASSUME NetTypes', SockTypes', LoopTypes', ToldTypes', probes' \subseteq Probe
  PROVE  TcpScanTypeOK'
  BY DEF TcpScanTypeOK, NetTypes, SockTypes, LoopTypes, ToldTypes
-----------------------------------------------------------------------------
LEMMA Initially == Init => IInv
<1> SUFFICES ASSUME Init PROVE IInv
  OBVIOUS
<1>1. NetTypes /\ SockTypes /\ probes \subseteq Probe
  BY Numbers DEF Init, NetTypes, SockTypes
<1>2. LoopTypes /\ Segs[1].first \in Segs[1].first .. Segs[1].last
  BY Numbers, Scope DEF Init, LoopTypes, Addr
<1>3. ToldTypes
  BY DEF Init, ToldTypes
<1>4. Phases /\ Fresh
  BY <1>2, Numbers DEF Init, Phases, Fresh, Waiting, Done
<1>5. Truthful /\ Recorded /\ Accounted
  BY DEF Init, Truthful, Recorded, Accounted
<1>6. PassedAreProbed
  <2> SUFFICES ASSUME NEW n \in 1 .. REPEATS, NEW p \in DOMAIN Ports,
                      NEW g \in DOMAIN Segs,
                      NEW h \in Segs[g].first .. Segs[g].last,
                      Passed(n, p, g, h)
               PROVE  FALSE
    BY DEF PassedAreProbed
  <2>1. h >= Segs[g].first /\ h \in Int /\ Segs[g].first \in Int
    BY Scope
  <2> QED
    BY <2>1, Scope, Numbers DEF Passed, Init
<1> QED
  BY <1>1, <1>2, <1>3, <1>4, <1>5, <1>6, TypesInParts DEF IInv
-----------------------------------------------------------------------------
(* The parts that a step leaves alone when it leaves their variables alone. *)
LEMMA PassedStays ==
  ASSUME PassedAreProbed, UNCHANGED loopVars, probes \subseteq probes',
         pc = "syn" <=> pc' = "syn"
  PROVE  PassedAreProbed'
<1> SUFFICES ASSUME NEW n \in 1 .. REPEATS, NEW p \in DOMAIN Ports,
                    NEW g \in DOMAIN Segs,
                    NEW h \in Segs[g].first .. Segs[g].last,
                    Passed(n, p, g, h)'
             PROVE  <<<<h, Ports[p]>>, n>> \in probes'
  BY DEF PassedAreProbed
<1>1. Passed(n, p, g, h)
  BY DEF Passed, loopVars
<1> QED
  BY <1>1 DEF PassedAreProbed

LEMMA ToldStays ==
  ASSUME UNCHANGED kind, reports \subseteq reports', resets \subseteq resets',
         NEW t, NEW n, Told(t, n)
  PROVE  Told(t, n)'
  BY DEF Told

\* The steps of the network and the hosts
NetStep == /\ UNCHANGED <<kind, stray, pc, loopVars, ready, tellVars, ret,
                          probes>>
           /\ pc # "end"

LEMMA NetStepKeeps ==
  ASSUME IInv, NetStep
  PROVE  PassedAreProbed' /\ Recorded' /\ ToldTypes'
<1>1. PassedAreProbed'
  BY PassedStays DEF IInv, NetStep, loopVars
<1>2. Recorded' /\ ToldTypes'
  BY DEF IInv, NetStep, tellVars, Recorded, TcpScanTypeOK, ToldTypes
<1> QED
  BY <1>1, <1>2

LEMMA ArriveKeeps ==
  ASSUME IInv, pc # "end", Arrive
  PROVE  IInv'
<1>1. PICK s \in net :
         /\ net' = net \ {s}
         /\ Deliver(s.to, s.n, kind[s.to])
         /\ UNCHANGED <<kind, stray, stale, lost, pc, loopVars, ready, left,
                        tellVars, ret, probes>>
  BY DEF Arrive
<1> DEFINE t == s.to  n == s.n  k == kind[t]
<1>2. /\ t \in Target /\ n \in 1 .. REPEATS /\ n \in 0 .. REPEATS /\ n # 0
      /\ k \in Kinds
  BY Numbers DEF IInv, TcpScanTypeOK, Segment
<1>3. /\ tcpsock \subseteq tcpsock' /\ icmpsock \subseteq icmpsock'
      /\ k = "silent" => UNCHANGED sockVars
      /\ tcpsock' \subseteq tcpsock \cup {AnswerOf(t, n, k)}
      /\ icmpsock' \subseteq icmpsock \cup {AnswerOf(t, n, k)}
      /\ k # "silent" => AnswerOf(t, n, k) \in tcpsock' \cup icmpsock'
      /\ k # "unreachable" => icmpsock' = icmpsock
  BY <1>1, <1>2, Delivered
<1>4. k # "silent" => /\ AnswerOf(t, n, k) \in Answer
                      /\ AnswerOf(t, n, k).n = n
                      /\ AnswerOf(t, n, k).state = StateOf(k)
  BY <1>2, AnswersFit
<1>5. NetStep
  BY <1>1 DEF NetStep
<1> HIDE DEF t, n, k
<1>6. NetTypes' /\ SockTypes' /\ LoopTypes' /\ probes' \subseteq Probe
  BY <1>1, <1>3, <1>4
  DEF IInv, TcpScanTypeOK, NetTypes, SockTypes, LoopTypes, loopVars, sockVars
<1>7. Phases' /\ Fresh'
  BY <1>1 DEF IInv, Phases, Fresh, Waiting, Done, loopVars
<1>8. Truthful'
  <2>1. k = "unreachable" => StateOf(k) = "unreach"
    BY DEF StateOf
  <2>2. \A a \in icmpsock' : a.state = "unreach"
    BY <1>3, <1>4, <2>1 DEF IInv, Truthful, sockVars
  <2>3. ASSUME NEW a \in tcpsock' \cup icmpsock' \cup reports, a.n # 0
        PROVE  \E u \in Target : /\ kind[u] # "silent"
                                 /\ a = AnswerOf(u, a.n, kind[u])
    BY <2>3, <1>2, <1>3, <1>4 DEF IInv, Truthful, sockVars, t, n, k
  <2> QED
    BY <2>2, <2>3, <1>1 DEF IInv, Truthful, tellVars, AnswerOf, From, StateOf
<1>9. Accounted'
  <2> SUFFICES ASSUME NEW u \in Target, NEW m \in 1 .. REPEATS,
                      <<u, m>> \in probes, kind[u] # "silent"
               PROVE  <<u, m>> \in lost \/ UnderWay(u, m)' \/ Waits(u, m)'
                        \/ Told(u, m)'
    BY <1>1 DEF Accounted
  <2>1. <<u, m>> \in lost \/ UnderWay(u, m) \/ Waits(u, m) \/ Told(u, m)
    BY DEF IInv, Phases, Failed, Accounted, NetStep
  <2>2. CASE UnderWay(u, m)
    <3>1. CASE s.to = u /\ s.n = m
      BY <3>1, <1>1, <1>3 DEF Waits, t, n, k
    <3>2. CASE ~(s.to = u /\ s.n = m)
      BY <3>2, <2>2, <1>1 DEF UnderWay
    <3> QED
      BY <3>1, <3>2
  <2>3. CASE Waits(u, m)
    BY <2>3, <1>1, <1>3 DEF Waits
  <2>4. CASE Told(u, m)
    BY <2>4, <1>1, ToldStays DEF tellVars
  <2> QED
    BY <2>1, <2>2, <2>3, <2>4
<1> QED
  BY <1>5, <1>6, <1>7, <1>8, <1>9, NetStepKeeps, TypesAfter DEF IInv

LEMMA LoseKeeps ==
  ASSUME IInv, pc # "end", Lose
  PROVE  IInv'
<1>1. PICK s \in net :
         /\ net' = net \ {s} /\ lost' = lost \cup {<<s.to, s.n>>}
         /\ UNCHANGED <<kind, stray, stale, sockVars, pc, loopVars, ready,
                        left, tellVars, ret, probes>>
  BY DEF Lose
<1>2. s.to \in Target /\ s.n \in 1 .. REPEATS
  BY DEF IInv, TcpScanTypeOK, Segment
<1>3. NetStep
  BY <1>1 DEF NetStep
<1>4. NetTypes' /\ SockTypes' /\ LoopTypes' /\ probes' \subseteq Probe
  BY <1>1, <1>2
  DEF IInv, TcpScanTypeOK, NetTypes, SockTypes, LoopTypes, loopVars, sockVars,
      Probe
<1>5. Phases' /\ Fresh' /\ Truthful'
  BY <1>1
  DEF IInv, Phases, Fresh, Waiting, Done, loopVars, Truthful, sockVars,
      tellVars, AnswerOf, From, StateOf
<1>6. Accounted'
  <2> SUFFICES ASSUME NEW u \in Target, NEW m \in 1 .. REPEATS,
                      <<u, m>> \in probes, kind[u] # "silent"
               PROVE  <<u, m>> \in lost' \/ UnderWay(u, m)' \/ Waits(u, m)'
                        \/ Told(u, m)'
    BY <1>1 DEF Accounted
  <2>1. <<u, m>> \in lost \/ UnderWay(u, m) \/ Waits(u, m) \/ Told(u, m)
    BY DEF IInv, Phases, Failed, Accounted, NetStep
  <2>2. CASE UnderWay(u, m)
    BY <2>2, <1>1 DEF UnderWay
  <2>3. CASE Waits(u, m)
    BY <2>3, <1>1 DEF Waits, sockVars
  <2>4. CASE Told(u, m)
    BY <2>4, <1>1, ToldStays DEF tellVars
  <2> QED
    BY <2>1, <2>2, <2>3, <2>4, <1>1
<1> QED
  BY <1>3, <1>4, <1>5, <1>6, NetStepKeeps, TypesAfter DEF IInv

LEMMA StaleAnswerKeeps ==
  ASSUME IInv, pc # "end", StaleAnswer
  PROVE  IInv'
<1>1. /\ stale < Stales /\ stale' = stale + 1
      /\ UNCHANGED <<kind, stray, net, lost, pc, loopVars, ready, left,
                     tellVars, ret, probes>>
  BY DEF StaleAnswer
<1>2. PICK t \in Target, k \in Kinds \ {"silent"} : Deliver(t, 0, k)
  BY DEF StaleAnswer
<1>3. 0 \in 0 .. REPEATS
  BY Numbers
<1>4. /\ AnswerOf(t, 0, k) \in Answer /\ AnswerOf(t, 0, k).n = 0
      /\ AnswerOf(t, 0, k).state = StateOf(k)
  BY <1>2, <1>3, AnswersFit
<1>5. /\ tcpsock \subseteq tcpsock' /\ icmpsock \subseteq icmpsock'
      /\ tcpsock' \subseteq tcpsock \cup {AnswerOf(t, 0, k)}
      /\ icmpsock' \subseteq icmpsock \cup {AnswerOf(t, 0, k)}
      /\ k # "unreachable" => icmpsock' = icmpsock
  BY <1>2, <1>3, Delivered
<1>6. NetStep
  BY <1>1 DEF NetStep
<1>7. stale' \in 0 .. Stales
  BY <1>1, Numbers DEF IInv, TcpScanTypeOK
<1>8. NetTypes' /\ SockTypes' /\ LoopTypes' /\ probes' \subseteq Probe
  BY <1>1, <1>4, <1>5, <1>7
  DEF IInv, TcpScanTypeOK, NetTypes, SockTypes, LoopTypes, loopVars
<1>9. Phases' /\ Fresh'
  BY <1>1 DEF IInv, Phases, Fresh, Waiting, Done, loopVars
<1>10. Truthful'
  <2>1. k = "unreachable" => StateOf(k) = "unreach"
    BY DEF StateOf
  <2>2. \A a \in icmpsock' : a.state = "unreach"
    BY <1>4, <1>5, <2>1 DEF IInv, Truthful
  <2>3. ASSUME NEW a \in tcpsock' \cup icmpsock' \cup reports, a.n # 0
        PROVE  \E u \in Target : /\ kind[u] # "silent"
                                 /\ a = AnswerOf(u, a.n, kind[u])
    BY <2>3, <1>4, <1>5 DEF IInv, Truthful
  <2> QED
    BY <2>2, <2>3, <1>1 DEF IInv, Truthful, tellVars, AnswerOf, From, StateOf
<1>11. Accounted'
  <2> SUFFICES ASSUME NEW u \in Target, NEW m \in 1 .. REPEATS,
                      <<u, m>> \in probes, kind[u] # "silent"
               PROVE  <<u, m>> \in lost \/ UnderWay(u, m)' \/ Waits(u, m)'
                        \/ Told(u, m)'
    BY <1>1 DEF Accounted
  <2>1. <<u, m>> \in lost \/ UnderWay(u, m) \/ Waits(u, m) \/ Told(u, m)
    BY DEF IInv, Phases, Failed, Accounted, NetStep
  <2>2. CASE UnderWay(u, m)
    BY <2>2, <1>1 DEF UnderWay
  <2>3. CASE Waits(u, m)
    BY <2>3, <1>1, <1>5 DEF Waits
  <2>4. CASE Told(u, m)
    BY <2>4, <1>1, ToldStays DEF tellVars
  <2> QED
    BY <2>1, <2>2, <2>3, <2>4
<1> QED
  BY <1>6, <1>8, <1>9, <1>10, <1>11, NetStepKeeps, TypesAfter DEF IInv

(* Time passes for the segments and, while the scan waits, for select.     *)
LEMMA StrayWakesKeeps ==
  ASSUME IInv, pc # "end", StrayWakes
  PROVE  IInv'
<1>1. /\ stray' = "readable"
      /\ UNCHANGED <<kind, netVars, sockVars, pc, loopVars, ready, left,
                     tellVars, ret, probes>>
  BY DEF StrayWakes
<1>2. NetTypes' /\ SockTypes' /\ LoopTypes' /\ ToldTypes'
      /\ probes' \subseteq Probe
  BY <1>1
  DEF IInv, TcpScanTypeOK, NetTypes, SockTypes, LoopTypes, ToldTypes, netVars,
      sockVars, loopVars, tellVars, Strays
<1>3. Phases' /\ Fresh' /\ Truthful' /\ Recorded'
  BY <1>1
  DEF IInv, Phases, Fresh, Truthful, Recorded, Waiting, Done, netVars,
      sockVars, loopVars, tellVars, AnswerOf, From, StateOf
<1>4. Accounted'
  BY <1>1
  DEF IInv, Accounted, Failed, UnderWay, Waits, Told, netVars, sockVars,
      tellVars, AnswerOf, From, StateOf
<1>5. PassedAreProbed'
  BY <1>1, PassedStays DEF IInv
<1> QED
  BY <1>2, <1>3, <1>4, <1>5, TypesAfter DEF IInv

LEMMA TickKeeps ==
  ASSUME IInv, pc # "end", Tick
  PROVE  IInv'
<1>1. /\ \A s \in net : s.age < Life - 1
      /\ pc = "select" => left > 0
      /\ net' = {[s EXCEPT !.age = @ + 1] : s \in net}
      /\ left' = IF pc = "select" THEN left - 1 ELSE left
      /\ UNCHANGED <<kind, stray, stale, lost, sockVars, pc, loopVars, ready,
                     tellVars, ret, probes>>
  BY DEF Tick
<1>2. NetStep
  BY <1>1 DEF NetStep
<1>3. ASSUME NEW s \in net
      PROVE  /\ [s EXCEPT !.age = @ + 1] \in Segment
             /\ [s EXCEPT !.age = @ + 1].age = s.age + 1
             /\ [s EXCEPT !.age = @ + 1].to = s.to
             /\ [s EXCEPT !.age = @ + 1].n = s.n
             /\ s.age \in Nat
  BY <1>1, <1>3, Numbers DEF IInv, TcpScanTypeOK, Segment
<1>4. /\ left \in 0 .. Life /\ left' \in 0 .. Life
      /\ left' = left \/ left' = left - 1
  BY <1>1, Numbers DEF IInv, TcpScanTypeOK
<1>5. net' \subseteq Segment
  BY <1>1, <1>3
<1>6. NetTypes' /\ SockTypes' /\ LoopTypes' /\ probes' \subseteq Probe
  BY <1>1, <1>4, <1>5
  DEF IInv, TcpScanTypeOK, NetTypes, SockTypes, LoopTypes, loopVars, sockVars
<1>7. Phases'
  BY <1>1, <1>2, <1>4 DEF IInv, Phases, NetStep, Waiting, Done, loopVars
<1>8. Fresh'
  <2> SUFFICES ASSUME NEW r \in net' PROVE r.age + left' >= Life
    BY Numbers DEF Fresh, Life
  <2>1. PICK s \in net : r = [s EXCEPT !.age = @ + 1]
    BY <1>1
  <2>2. s.age + left >= Life
    BY DEF IInv, Fresh
  <2> QED
    BY <2>1, <2>2, <1>3, <1>4, Numbers
<1>9. Truthful'
  BY <1>1 DEF IInv, Truthful, sockVars, tellVars, AnswerOf, From, StateOf
<1>10. Accounted'
  <2> SUFFICES ASSUME NEW u \in Target, NEW m \in 1 .. REPEATS,
                      <<u, m>> \in probes, kind[u] # "silent"
               PROVE  <<u, m>> \in lost \/ UnderWay(u, m)' \/ Waits(u, m)'
                        \/ Told(u, m)'
    BY <1>1 DEF Accounted
  <2>1. <<u, m>> \in lost \/ UnderWay(u, m) \/ Waits(u, m) \/ Told(u, m)
    BY <1>2 DEF IInv, Phases, Failed, Accounted, NetStep
  <2>2. CASE UnderWay(u, m)
    BY <2>2, <1>1, <1>3 DEF UnderWay
  <2>3. CASE Waits(u, m)
    BY <2>3, <1>1 DEF Waits, sockVars
  <2>4. CASE Told(u, m)
    BY <2>4, <1>1, ToldStays DEF tellVars
  <2> QED
    BY <2>1, <2>2, <2>3, <2>4
<1> QED
  BY <1>2, <1>6, <1>7, <1>8, <1>9, <1>10, NetStepKeeps, TypesAfter DEF IInv
-----------------------------------------------------------------------------
(* The steps of the scan.                                                  *)
LEMMA SendSynKeeps ==
  ASSUME IInv, SendSyn
  PROVE  IInv'
<1>1. /\ pc = "syn" /\ pc' = "tcp"
      /\ UNCHANGED <<kind, stray, stale, lost, sockVars, loopVars, ready, left,
                     tellVars, ret>>
  BY DEF SendSyn
<1> DEFINE t == <<host, Ports[port]>>
<1>2. /\ i \in 1 .. REPEATS /\ left = Life /\ port \in DOMAIN Ports
      /\ seg \in DOMAIN Segs /\ host \in Segs[seg].first .. Segs[seg].last
      /\ t \in Target /\ host \in Addr
  BY <1>1, InScope, Numbers DEF IInv, TcpScanTypeOK, Phases, Waiting
<1>3. ~Seen(host)
  BY PortsArePositive DEF Seen, IInv, TcpScanTypeOK
<1> DEFINE new == [to |-> t, n |-> i, age |-> 0]
<1>4. net' = net \cup {new} /\ probes' = probes \cup {<<t, i>>}
  BY <1>3 DEF SendSyn
<1>5. new \in Segment /\ new.to = t /\ new.n = i /\ new.age = 0
  BY <1>2, Numbers DEF Segment
<1> HIDE DEF new, t
<1>6. NetTypes' /\ SockTypes' /\ LoopTypes' /\ ToldTypes'
  BY <1>1, <1>4, <1>5
  DEF IInv, TcpScanTypeOK, NetTypes, SockTypes, LoopTypes, ToldTypes,
      loopVars, sockVars, tellVars
<1>7. probes' \subseteq Probe
  BY <1>2, <1>4 DEF IInv, TcpScanTypeOK, Probe
<1>8. Phases'
  BY <1>1 DEF IInv, Phases, Waiting, Done, loopVars
<1>9. Fresh'
  BY <1>1, <1>2, <1>4, <1>5, Numbers DEF IInv, Fresh
<1>10. Truthful' /\ Recorded'
  BY <1>1
  DEF IInv, Truthful, Recorded, sockVars, tellVars, AnswerOf, From, StateOf
<1>11. Accounted'
  <2> SUFFICES ASSUME NEW u \in Target, NEW m \in 1 .. REPEATS,
                      <<u, m>> \in probes', kind[u] # "silent"
               PROVE  <<u, m>> \in lost \/ UnderWay(u, m)' \/ Waits(u, m)'
                        \/ Told(u, m)'
    BY <1>1 DEF Accounted
  <2>1. CASE u = t /\ m = i
    BY <2>1, <1>4, <1>5 DEF UnderWay
  <2>2. CASE ~(u = t /\ m = i)
    <3>1. <<u, m>> \in lost \/ UnderWay(u, m) \/ Waits(u, m) \/ Told(u, m)
      BY <1>1, <1>4, <2>2 DEF IInv, Failed, Accounted
    <3>2. CASE UnderWay(u, m)
      BY <3>2, <1>4 DEF UnderWay
    <3>3. CASE Waits(u, m)
      BY <3>3, <1>1 DEF Waits, sockVars
    <3>4. CASE Told(u, m)
      BY <3>4, <1>1, ToldStays DEF tellVars
    <3> QED
      BY <3>1, <3>2, <3>3, <3>4
  <2> QED
    BY <2>1, <2>2
<1>12. PassedAreProbed'
  <2> SUFFICES ASSUME NEW n \in 1 .. REPEATS, NEW p \in DOMAIN Ports,
                      NEW g \in DOMAIN Segs,
                      NEW h \in Segs[g].first .. Segs[g].last,
                      Passed(n, p, g, h)'
               PROVE  <<<<h, Ports[p]>>, n>> \in probes'
    BY DEF PassedAreProbed
  <2>1. CASE n = i /\ p = port /\ h = host
    BY <2>1, <1>4 DEF t
  <2>2. CASE ~(n = i /\ p = port /\ h = host)
    <3>1. Passed(n, p, g, h)
      BY <2>2, <1>1 DEF Passed, loopVars
    <3> QED
      BY <3>1, <1>4 DEF IInv, PassedAreProbed
  <2> QED
    BY <2>1, <2>2
<1> QED
  BY <1>6, <1>7, <1>8, <1>9, <1>10, <1>11, <1>12, TypesAfter DEF IInv

\* The steps at which the scan only moves on
Moves == UNCHANGED <<kind, stray, netVars, sockVars, left, tellVars, probes>>

LEMMA MovesKeep ==
  ASSUME IInv, Moves, ~Failed \/ Failed'
  PROVE  /\ Fresh' /\ Truthful' /\ Recorded' /\ Accounted' /\ NetTypes'
         /\ SockTypes' /\ ToldTypes' /\ probes' \subseteq Probe
<1>1. Fresh' /\ Truthful' /\ Recorded'
  BY DEF IInv, Moves, netVars, sockVars, tellVars, Fresh, Truthful, Recorded,
         AnswerOf, From, StateOf
<1>2. Accounted'
  <2> SUFFICES ASSUME ~Failed', NEW u \in Target, NEW m \in 1 .. REPEATS,
                      <<u, m>> \in probes, kind[u] # "silent"
               PROVE  <<u, m>> \in lost \/ UnderWay(u, m)' \/ Waits(u, m)'
                        \/ Told(u, m)'
    BY DEF Accounted, Moves, netVars
  <2>1. <<u, m>> \in lost \/ UnderWay(u, m) \/ Waits(u, m) \/ Told(u, m)
    BY DEF IInv, Accounted
  <2>2. CASE UnderWay(u, m)
    BY <2>2 DEF UnderWay, Moves, netVars
  <2>3. CASE Waits(u, m)
    BY <2>3 DEF Waits, Moves, sockVars
  <2>4. CASE Told(u, m)
    BY <2>4, ToldStays DEF tellVars, Moves
  <2> QED
    BY <2>1, <2>2, <2>3, <2>4
<1>3. NetTypes' /\ SockTypes' /\ ToldTypes' /\ probes' \subseteq Probe
  BY DEF IInv, Moves, netVars, sockVars, tellVars, TcpScanTypeOK, NetTypes,
         SockTypes, ToldTypes
<1> QED
  BY <1>1, <1>2, <1>3

LEMMA MovingInPlaceKeeps ==
  ASSUME IInv, \/ TcpDrained \/ SelectReady \/ SelectTimeout
         \/ SelectFails \/ CallFails
  PROVE  IInv'
<1>1. Moves /\ UNCHANGED loopVars /\ pc # "syn" /\ pc' # "syn" /\ pc # "end"
  BY DEF Moves, TcpDrained, SelectReady, SelectTimeout, SelectFails,
         CallFails
<1>2. LoopTypes'
  BY DEF IInv, TcpScanTypeOK, LoopTypes, TcpDrained, SelectReady,
         SelectTimeout, SelectFails, CallFails, loopVars
<1>3. PassedAreProbed'
  BY <1>1, PassedStays DEF IInv, Moves
<1>4. Phases'
  <2>1. CASE TcpDrained \/ SelectReady \/ SelectFails \/ CallFails
    BY <2>1
    DEF IInv, Phases, TcpDrained, SelectReady, SelectFails, CallFails,
        Waiting, Done, loopVars
  <2>2. CASE SelectTimeout
    <3>1. net = {}
      <4> SUFFICES ASSUME NEW s \in net PROVE FALSE
        OBVIOUS
      <4>1. s.age \in 0 .. Life - 1 /\ s.age + left >= Life /\ left = 0
        BY <2>2
        DEF IInv, TcpScanTypeOK, Segment, Fresh, SelectTimeout
      <4> QED
        BY <4>1, Numbers
    <3> QED
      BY <3>1, <2>2
      DEF IInv, Phases, SelectTimeout, Waiting, Done, loopVars, netVars,
          sockVars
  <2> QED
    BY <2>1, <2>2
<1> QED
  BY <1>1, <1>2, <1>3, <1>4, MovesKeep, TypesAfter DEF IInv, Failed

(* Going round the loops: whatever the new place has passed, the old one   *)
(* had, the host just probed included.                                     *)
LEMMA NextHostPasses ==
  ASSUME TcpScanTypeOK, Phases, NextHost, ~Waiting, pc = "icmp",
         pc' \in {"syn", "select"}, pc' = "select" => i' > REPEATS
  PROVE  /\ i' \in 1 .. REPEATS + 1 /\ port' \in DOMAIN Ports
         /\ seg' \in DOMAIN Segs /\ host' \in Addr
         /\ host' \in Segs[seg'].first .. Segs[seg'].last
         /\ \A n \in 1 .. REPEATS, p \in DOMAIN Ports, g \in DOMAIN Segs :
               \A h \in Segs[g].first .. Segs[g].last :
                   Passed(n, p, g, h)' => Passed(n, p, g, h)
<1>1. /\ i \in 1 .. REPEATS /\ port \in DOMAIN Ports /\ seg \in DOMAIN Segs
      /\ host \in Segs[seg].first .. Segs[seg].last /\ host \in 0 .. MaxAddr
      /\ Segs[seg].last \in 0 .. MaxAddr
  BY Scope, Numbers DEF TcpScanTypeOK, Phases, Waiting, Addr
<1>2. CASE host # Segs[seg].last
  <2>1. host' = host + 1 /\ UNCHANGED <<seg, port, i>>
    BY <1>1, <1>2, Scope, Numbers DEF NextHost, Following
  <2>2. host' \in Segs[seg'].first .. Segs[seg'].last /\ host' \in Addr
    <3>1. /\ Segs[seg].first \in Int /\ Segs[seg].last \in Int
          /\ host \in Int /\ host < Segs[seg].last
      BY <1>1, <1>2, Scope
    <3>2. Segs[seg'].first = Segs[seg].first /\ Segs[seg'].last = Segs[seg].last
      BY <2>1
    <3>3. host + 1 \in Segs[seg].first .. Segs[seg].last /\ host + 1 \in Addr
      BY <3>1, <1>1, Numbers DEF Addr
    <3> QED
      BY <3>2, <3>3, <2>1
  <2>3. ASSUME NEW n \in 1 .. REPEATS, NEW p \in DOMAIN Ports,
               NEW g \in DOMAIN Segs,
               NEW h \in Segs[g].first .. Segs[g].last, Passed(n, p, g, h)'
        PROVE  Passed(n, p, g, h)
    <3>1. h \in Int
      OBVIOUS
    <3>2. pc' = "syn"
      BY <2>1, <1>1, Numbers
    <3> QED
      BY <2>1, <2>3, <3>1, <3>2, <1>1 DEF Passed
  <2> QED
    BY <1>1, <2>1, <2>2, <2>3, Numbers
<1>3. CASE host = Segs[seg].last
  <2>1. /\ seg' = IF seg < Len(Segs) THEN seg + 1 ELSE 1
        /\ host' = Segs[seg'].first
        /\ port' = IF seg < Len(Segs) THEN port
                   ELSE IF port < Len(Ports) THEN port + 1 ELSE 1
        /\ i' = IF seg < Len(Segs) \/ port < Len(Ports) THEN i ELSE i + 1
    BY <1>3 DEF NextHost
  <2>2. /\ i' \in 1 .. REPEATS + 1 /\ port' \in DOMAIN Ports
        /\ seg' \in DOMAIN Segs
    <3>1. i' \in 1 .. REPEATS + 1
      BY <1>1, <2>1, Numbers
    <3>2. port' \in DOMAIN Ports
      BY <1>1, <2>1, Scope
    <3>3. seg' \in DOMAIN Segs
      BY <1>1, <2>1, Scope
    <3> QED
      BY <3>1, <3>2, <3>3
  <2>3. host' \in Segs[seg'].first .. Segs[seg'].last /\ host' \in Addr
    BY <2>1, <2>2, Scope DEF Addr
  <2>4. ASSUME NEW n \in 1 .. REPEATS, NEW p \in DOMAIN Ports,
               NEW g \in DOMAIN Segs,
               NEW h \in Segs[g].first .. Segs[g].last, Passed(n, p, g, h)'
        PROVE  Passed(n, p, g, h)
    <3>1. /\ h \in Int /\ h >= Segs[g].first /\ h <= Segs[g].last
          /\ Segs[g].first \in Int /\ Segs[g].last \in Int
      BY Scope
    <3>2. pc' = "select" => n < i'
      BY <2>2, Numbers
    <3>3. g \in 1 .. Len(Segs) /\ p \in 1 .. Len(Ports)
      BY Scope
    <3>4. g = seg' => ~(h < host')
      BY <3>1, <2>1
    <3>5. \/ n < i'
          \/ n = i' /\ p < port'
          \/ n = i' /\ p = port' /\ g < seg'
      BY <2>4, <3>2, <3>4, <2>2, Numbers DEF Passed
    <3>6. CASE seg < Len(Segs)
      BY <3>5, <3>6, <3>1, <3>3, <2>1, <1>1, <1>3, Scope DEF Passed
    <3>7. CASE ~(seg < Len(Segs))
      <4>1. seg = Len(Segs) /\ g <= seg /\ (g = seg => h <= host)
        BY <3>7, <3>1, <3>3, <1>1, <1>3, Scope
      <4>2. n < i' \/ (n = i' /\ p < port')
        <5>1. seg' = 1 /\ ~(g < seg')
          BY <3>7, <3>3, <2>1, Scope
        <5> QED
          BY <3>5, <5>1
      <4>3. n < i \/ (n = i /\ p <= port)
        BY <4>2, <3>7, <3>3, <2>1, <1>1, Scope, Numbers
      <4> QED
        BY <4>1, <4>3, <3>1, <3>3, <1>1, Scope DEF Passed
    <3> QED
      BY <3>6, <3>7
  <2> QED
    BY <2>2, <2>3, <2>4
<1> QED
  BY <1>2, <1>3

LEMMA IcmpDrainedKeeps ==
  ASSUME IInv, IcmpDrained
  PROVE  IInv'
<1>1. /\ pc = "icmp" /\ Moves /\ UNCHANGED <<ready, left, ret>>
      /\ pc' \in {"syn", "select"} /\ ~Failed
  BY DEF Moves, IcmpDrained, Failed
<1>2. CASE Waiting
  <2>1. pc' = "select" /\ UNCHANGED loopVars
    BY <1>2 DEF IcmpDrained
  <2>2. LoopTypes' /\ Phases'
    BY <1>1, <1>2, <2>1
    DEF IInv, TcpScanTypeOK, LoopTypes, Phases, Waiting, Done, loopVars
  <2>3. PassedAreProbed'
    BY <1>1, <2>1, PassedStays DEF IInv, Moves
  <2> QED
    BY <1>1, <2>2, <2>3, MovesKeep, TypesAfter DEF IInv
<1>3. CASE ~Waiting
  <2>1. NextHost /\ pc' = IF i' > REPEATS THEN "select" ELSE "syn"
    BY <1>3 DEF IcmpDrained
  <2>2. /\ i' \in 1 .. REPEATS + 1 /\ port' \in DOMAIN Ports
        /\ seg' \in DOMAIN Segs /\ host' \in Addr
        /\ host' \in Segs[seg'].first .. Segs[seg'].last
        /\ \A n \in 1 .. REPEATS, p \in DOMAIN Ports, g \in DOMAIN Segs :
              \A h \in Segs[g].first .. Segs[g].last :
                  Passed(n, p, g, h)' => Passed(n, p, g, h)
    BY <1>1, <1>3, <2>1, NextHostPasses DEF IInv
  <2>3. LoopTypes'
    BY <1>1, <2>1, <2>2 DEF IInv, TcpScanTypeOK, LoopTypes
  <2>4. Phases'
    BY <1>1, <1>3, <2>1, <2>2 DEF IInv, Phases, Waiting, Done
  <2>5. PassedAreProbed'
    BY <1>1, <2>2 DEF IInv, Moves, PassedAreProbed
  <2> QED
    BY <1>1, <2>3, <2>4, <2>5, MovesKeep, TypesAfter DEF IInv
<1> QED
  BY <1>2, <1>3
-----------------------------------------------------------------------------
(* Taking an answer from a socket.                                         *)
Takes(a) ==
    /\ a \in tcpsock \cup icmpsock
    /\ tcpsock' \subseteq tcpsock /\ icmpsock' \subseteq icmpsock
    /\ tcpsock \cup icmpsock \subseteq tcpsock' \cup icmpsock' \cup {a}
    /\ a.n = 0 => UNCHANGED <<pc, tellVars>>
    /\ a.n # 0 => /\ Tell(a)
                  /\ resets \subseteq resets'
                  /\ resets' \subseteq resets \cup {<<a.from, a.port, a.n>>}
                  /\ a.state = "accepted" =>
                         <<a.from, a.port, a.n>> \in resets'
    /\ pc \in {"tcp", "icmp"}
    /\ UNCHANGED <<kind, stray, netVars, loopVars, ready, left, ret, probes>>

LEMMA RecvTakes ==
  ASSUME IInv, RecvTcp \/ RecvIcmp
  PROVE  \E a \in Answer : Takes(a)
<1>1. CASE RecvTcp
  <2>1. PICK a \in tcpsock : tcpsock' = tcpsock \ {a} /\ ProcTcp(a)
    BY <1>1 DEF RecvTcp
  <2>2. /\ a.n = 0 => UNCHANGED <<pc, tellVars>>
        /\ a.n # 0 => /\ Tell(a)
                      /\ resets \subseteq resets'
                      /\ resets' \subseteq
                             resets \cup {<<a.from, a.port, a.n>>}
                      /\ a.state = "accepted" =>
                             <<a.from, a.port, a.n>> \in resets'
    BY <2>1 DEF ProcTcp
  <2>3. Takes(a)
    BY <1>1, <2>1, <2>2 DEF RecvTcp, Takes
  <2> QED
    BY <2>3 DEF IInv, TcpScanTypeOK
<1>2. CASE RecvIcmp
  <2>1. PICK a \in icmpsock : icmpsock' = icmpsock \ {a} /\ ProcIcmp(a)
    BY <1>2 DEF RecvIcmp
  <2>2. /\ a.n = 0 => UNCHANGED <<pc, tellVars>>
        /\ a.n # 0 => Tell(a) /\ resets' = resets
        /\ a.state # "accepted"
    BY <2>1 DEF ProcIcmp, IInv, Truthful
  <2>3. Takes(a)
    BY <1>2, <2>1, <2>2 DEF RecvIcmp, Takes
  <2> QED
    BY <2>3 DEF IInv, TcpScanTypeOK
<1> QED
  BY <1>1, <1>2

(* An address that is told is in the tree and reported, once.              *)
LEMMA TellRecords ==
  ASSUME NEW a, Tell(a), Recorded
  PROVE  /\ Recorded' /\ reports \subseteq reports'
         /\ reports' \subseteq reports \cup {a}
         /\ root' \subseteq root \cup {<<a.from, a.port>>}
         /\ pc' \in {pc, "end"}
         /\ pc' # "end" =>
               \E r \in reports' : r.from = a.from /\ r.port = a.port
<1>1. CASE /\ <<a.from, a.port>> \notin root
           /\ root' = root \cup {<<a.from, a.port>>}
           /\ reports' = reports \cup {a}
           /\ pc' \in {pc, "end"}
  BY <1>1 DEF Recorded
<1>2. CASE <<a.from, a.port>> \in root /\ UNCHANGED <<root, reports, pc>>
  <2>1. \E r \in reports : <<a.from, a.port>> = <<r.from, r.port>>
    BY <1>2 DEF Recorded
  <2>2. \E r \in reports : r.from = a.from /\ r.port = a.port
    BY <2>1
  <2> QED
    BY <1>2, <2>2 DEF Recorded
<1>3. CASE <<a.from, a.port>> \notin root /\ Fail
  BY <1>3 DEF Recorded, Fail
<1> QED
  BY <1>1, <1>2, <1>3 DEF Tell

LEMMA RecvKeeps ==
  ASSUME IInv, RecvTcp \/ RecvIcmp
  PROVE  IInv'
<1>1. PICK a \in Answer : Takes(a)
  BY RecvTakes
<1>2. /\ Recorded' /\ reports \subseteq reports'
      /\ reports' \subseteq reports \cup {a}
      /\ a.n = 0 => reports' = reports
      /\ root' \subseteq root \cup {<<a.from, a.port>>}
      /\ pc' \in {pc, "end"} /\ pc \in {"tcp", "icmp"}
  <2>1. CASE a.n = 0
    BY <1>1, <2>1 DEF Takes, tellVars, IInv, Recorded
  <2>2. CASE a.n # 0
    BY <1>1, <2>2, TellRecords DEF Takes, IInv
  <2> QED
    BY <2>1, <2>2
<1>3. resets \subseteq resets'
  BY <1>1 DEF Takes, tellVars
<1>4. ToldTypes'
  <2>1. <<a.from, a.port>> \in Addr \X PortNumbers
    BY DEF Answer
  <2>2. resets' \subseteq Addr \X PortNumbers \X (1 .. REPEATS)
    <3>1. CASE a.n = 0
      BY <1>1, <3>1 DEF Takes, tellVars, IInv, TcpScanTypeOK
    <3>2. CASE a.n # 0
      <4>1. <<a.from, a.port, a.n>> \in Addr \X PortNumbers \X (1 .. REPEATS)
        BY <3>2, Numbers DEF Answer
      <4> QED
        BY <1>1, <3>2, <4>1 DEF Takes, IInv, TcpScanTypeOK
    <3> QED
      BY <3>1, <3>2
  <2> QED
    BY <1>2, <2>1, <2>2 DEF IInv, TcpScanTypeOK, ToldTypes
<1>5. NetTypes' /\ SockTypes' /\ probes' \subseteq Probe /\ Fresh'
  BY <1>1 DEF Takes, netVars, IInv, TcpScanTypeOK, NetTypes, SockTypes, Fresh
<1>6. LoopTypes' /\ Phases'
  BY <1>1, <1>2
  DEF Takes, loopVars, IInv, TcpScanTypeOK, LoopTypes, Phases, Waiting, Done
<1>7. Truthful'
  <2>1. /\ tcpsock' \cup icmpsock' \cup reports'
              \subseteq tcpsock \cup icmpsock \cup reports
        /\ icmpsock' \subseteq icmpsock
        /\ \A r \in reports' : r.n # 0
    BY <1>1, <1>2 DEF Takes, IInv, Truthful
  <2> QED
    BY <1>1, <2>1 DEF Takes, IInv, Truthful, AnswerOf, From, StateOf
<1>8. Accounted'
  <2> SUFFICES ASSUME ~Failed', NEW u \in Target, NEW m \in 1 .. REPEATS,
                      <<u, m>> \in probes, kind[u] # "silent"
               PROVE  <<u, m>> \in lost \/ UnderWay(u, m)' \/ Waits(u, m)'
                        \/ Told(u, m)'
    BY <1>1 DEF Accounted, Takes, netVars
  <2>1. <<u, m>> \in lost \/ UnderWay(u, m) \/ Waits(u, m) \/ Told(u, m)
    BY <1>2 DEF IInv, Accounted, Failed
  <2>2. CASE UnderWay(u, m)
    BY <2>2, <1>1 DEF UnderWay, Takes, netVars
  <2>3. CASE Waits(u, m)
    <3>1. CASE AnswerOf(u, m, kind[u]) # a
      BY <2>3, <3>1, <1>1 DEF Waits, Takes
    <3>2. CASE AnswerOf(u, m, kind[u]) = a
      <4>1. /\ a.n = m /\ a.from = From(u, kind[u]) /\ a.port = u[2]
            /\ a.state = StateOf(kind[u])
        <5>1. m \in 0 .. REPEATS /\ kind[u] \in Kinds \ {"silent"}
          BY Numbers DEF IInv, TcpScanTypeOK
        <5> QED
          BY <5>1, <3>2, AnswersFit
      <4>2. m # 0
        BY Numbers
      <4>3. pc' # "end"
        BY <1>1, <1>2 DEF Takes, Failed, IInv, Phases
      <4>4. \E r \in reports' : r.from = a.from /\ r.port = a.port
        BY <1>1, <4>1, <4>2, <4>3, TellRecords DEF Takes, IInv
      <4>5. kind[u] = "open" => <<u[1], u[2], m>> \in resets'
        BY <1>1, <4>1, <4>2 DEF Takes, From, StateOf
      <4> QED
        BY <1>1, <4>1, <4>4, <4>5 DEF Told, Takes
    <3> QED
      BY <3>1, <3>2
  <2>4. CASE Told(u, m)
    BY <2>4, <1>1, <1>2, <1>3, ToldStays DEF Takes
  <2> QED
    BY <2>1, <2>2, <2>3, <2>4
<1>9. PassedAreProbed'
  BY <1>1, <1>2, PassedStays DEF Takes, IInv
<1> QED
  BY <1>2, <1>4, <1>5, <1>6, <1>7, <1>8, <1>9, TypesAfter DEF IInv

LEMMA StutterKeeps ==
  ASSUME IInv, UNCHANGED vars
  PROVE  IInv'
<1>1. Moves /\ UNCHANGED <<pc, loopVars, ready, ret>>
  BY DEF vars, Moves
<1>2. LoopTypes' /\ Phases'
  BY <1>1
  DEF IInv, TcpScanTypeOK, LoopTypes, Phases, Waiting, Done, loopVars, Moves,
      netVars, sockVars
<1>3. PassedAreProbed'
  BY <1>1, PassedStays DEF IInv, Moves
<1>4. ~Failed \/ Failed'
  BY <1>1 DEF Failed
<1> QED
  BY <1>1, <1>2, <1>3, <1>4, MovesKeep, TypesAfter DEF IInv

LEMMA Keeps == IInv /\ [Next]_vars => IInv'
<1> SUFFICES ASSUME IInv, [Next]_vars PROVE IInv'
  OBVIOUS
<1>1. CASE Network
  BY <1>1, ArriveKeeps, LoseKeeps, StaleAnswerKeeps, StrayWakesKeeps,
     TickKeeps DEF Network
<1>2. CASE Scan
  BY <1>2, SendSynKeeps, RecvKeeps, MovingInPlaceKeeps, IcmpDrainedKeeps
  DEF Scan
<1>3. CASE CallFails
  BY <1>3, MovingInPlaceKeeps
<1>4. CASE UNCHANGED vars
  BY <1>4, StutterKeeps
<1> QED
  BY <1>1, <1>2, <1>3, <1>4 DEF Next

LEMMA Invariant == Spec => []IInv
  BY Initially, Keeps, PTL DEF Spec
-----------------------------------------------------------------------------
(* Every variable stays in its range: the loops never leave the scope and  *)
(* nothing but targets is probed.                                          *)
THEOREM Typed == Spec => []TcpScanTypeOK
<1>1. IInv => TcpScanTypeOK
  BY DEF IInv
<1> QED
  BY <1>1, Invariant, PTL

(* An address and port is reported once, by whatever socket and however    *)
(* often its answer comes.                                                 *)
THEOREM ReportsAreOnce == Spec => []ReportedOnce
<1>1. IInv => ReportedOnce
  BY DEF IInv, Recorded, ReportedOnce
<1> QED
  BY <1>1, Invariant, PTL

(* A report speaks the truth about the port it names, or about a port that *)
(* its router could not reach.                                             *)
THEOREM ReportsAreTrue == Spec => []ReportIsTrue
<1>1. IInv => ReportIsTrue
  <2> SUFFICES ASSUME IInv, NEW r \in reports
      PROVE CASE r.state = "accepted" -> kind[<<r.from, r.port>>] = "open"
              [] r.state = "refused"  -> kind[<<r.from, r.port>>] = "closed"
              [] r.state = "unreach"  ->
                   /\ r.from = Router
                   /\ \E t \in Target :
                          t[2] = r.port /\ kind[t] = "unreachable"
    BY DEF ReportIsTrue
  <2>1. PICK t \in Target : /\ kind[t] # "silent"
                            /\ r = AnswerOf(t, r.n, kind[t])
    BY DEF IInv, Truthful
  <2>2. /\ r.from = From(t, kind[t]) /\ r.port = t[2]
        /\ r.state = StateOf(kind[t]) /\ kind[t] \in Kinds \ {"silent"}
    <3>1. r.n \in 0 .. REPEATS /\ kind[t] \in Kinds \ {"silent"}
      BY <2>1 DEF IInv, TcpScanTypeOK, Answer
    <3> QED
      BY <2>1, <3>1, AnswersFit
  <2>3. CASE kind[t] = "open"
    BY <2>2, <2>3, TargetsInRange DEF From, StateOf
  <2>4. CASE kind[t] = "closed"
    BY <2>2, <2>4, TargetsInRange DEF From, StateOf
  <2>5. CASE kind[t] = "unreachable"
    BY <2>2, <2>5 DEF From, StateOf
  <2> QED
    BY <2>2, <2>3, <2>4, <2>5 DEF Kinds
<1> QED
  BY <1>1, Invariant, PTL

(* A scan that returns 0 has probed all of its scope in every round.       *)
LEMMA DoneHasProbed ==
  ASSUME IInv, Done
  PROVE  probes = Probe
<1>1. i > REPEATS
  BY DEF IInv, Phases, Waiting
<1>2. ASSUME NEW t \in Target, NEW n \in 1 .. REPEATS
      PROVE  <<t, n>> \in probes
  <2>1. PICK g \in DOMAIN Segs :
            t \in (Segs[g].first .. Segs[g].last) \X PortNumbers
    BY DEF Target
  <2>2. PICK p \in DOMAIN Ports : t[2] = Ports[p]
    BY <2>1 DEF PortNumbers
  <2>3. t = <<t[1], Ports[p]>> /\ t[1] \in Segs[g].first .. Segs[g].last
    BY <2>1, <2>2
  <2>4. Passed(n, p, g, t[1])
    BY <1>1, Numbers DEF Passed, IInv, TcpScanTypeOK
  <2> QED
    BY <2>3, <2>4 DEF IInv, PassedAreProbed
<1>3. Probe \subseteq probes
  BY <1>2 DEF Probe
<1> QED
  BY <1>3 DEF IInv, TcpScanTypeOK

THEOREM ScopesAreProbed == Spec => []ScopeIsProbed
<1>1. IInv => ScopeIsProbed
  BY DoneHasProbed DEF IInv, TcpScanTypeOK, ScopeIsProbed
<1> QED
  BY <1>1, Invariant, PTL

(* When the scan returns 0, every probe whose answer was not lost has been *)
(* told of: nothing is under way and nothing waits in a socket.            *)
LEMMA DoneHasTold ==
  ASSUME IInv, Done, NEW t \in Target, NEW n \in 1 .. REPEATS,
         kind[t] # "silent", <<t, n>> \notin lost
  PROVE  Told(t, n)
<1>1. <<t, n>> \in probes
  BY DoneHasProbed DEF Probe
<1>2. ~Failed /\ net = {} /\ tcpsock = {} /\ icmpsock = {}
  BY DEF Done, Failed, IInv, Phases
<1> QED
  BY <1>1, <1>2 DEF IInv, Accounted, UnderWay, Waits

(* No answer that came is forgotten, however late it was.                  *)
THEOREM AnswersAreReported == Spec => []AnsweredIsReported
<1>1. IInv => AnsweredIsReported
  BY DoneHasTold DEF AnsweredIsReported, Answers, Told
<1> QED
  BY <1>1, Invariant, PTL

(* Nor is a connection left half open at a host that accepted it.          *)
THEOREM AcceptedAreReset == Spec => []AcceptedIsReset
<1>1. IInv => AcceptedIsReset
  BY DoneHasTold DEF AcceptedIsReset, Told
<1> QED
  BY <1>1, Invariant, PTL
=============================================================================
