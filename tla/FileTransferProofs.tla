------------------------- MODULE FileTransferProofs -------------------------
(***************************************************************************)
(* fileserver.c writes the file its client named and in it what the client *)
(* has read, in order and without a gap, for every number of clients, all  *)
(* names and files, every size of the buffer and of a connection, and      *)
(* every way the bytes are cut on their way.  And client.c sends its file  *)
(* from the beginning, each byte once.                                     *)
(***************************************************************************)
EXTENDS FileTransfer, FileClient, SequenceTheorems, TLAPS

LEMMA Constants ==
  /\ BUFFERSIZE \in Nat /\ BUFFERSIZE > 2 /\ Window \in Nat \ {0} /\ NL \in Byte
  /\ \A c \in Client : /\ NameOf[c] \in Seq(Byte)
                       /\ Len(NameOf[c]) \in 1 .. BUFFERSIZE - 1
                       /\ \A i \in 1 .. Len(NameOf[c]) : NameOf[c][i] # NL
                       /\ FileOf[c] = NoFile \/ FileOf[c] \in Seq(Byte)
                       /\ Text(c) \in Seq(Byte)
  /\ \A n \in DOMAIN Disk : Disk[n] \in Seq(Byte)
  BY FileTransferAssumption DEF Text
-----------------------------------------------------------------------------
(* Sequences cut in two and put together again.                            *)
Front(s, n) == SubSeq(s, 1, n)
Join(s, t) == s \o t

LEMMA CutInTwo ==
  ASSUME NEW S, NEW s \in Seq(S), NEW n \in 0 .. Len(s)
  PROVE  /\ Front(s, n) \in Seq(S) /\ Len(Front(s, n)) = n
         /\ \A i \in 1 .. n : Front(s, n)[i] = s[i]
         /\ Drop(s, n) \in Seq(S) /\ Len(Drop(s, n)) = Len(s) - n
         /\ \A i \in 1 .. Len(s) - n : Drop(s, n)[i] = s[n + i]
         /\ Join(Front(s, n), Drop(s, n)) = s
<1> DEFINE a == SubSeq(s, 1, n)
           b == SubSeq(s, n + 1, Len(s))
<1>1. a \in Seq(S) /\ Len(a) = n /\ \A i \in 1 .. n : a[i] = s[i]
  BY SubSeqProperties
<1>2. /\ b \in Seq(S) /\ Len(b) = Len(s) - n
      /\ \A i \in 1 .. Len(s) - n : b[i] = s[n + 1 + i - 1]
  BY SubSeqProperties
<1>3. \A i \in 1 .. Len(s) - n : n + 1 + i - 1 = n + i
  OBVIOUS
<1>4. a \o b = s
  <2>1. /\ Len(s) \in Nat /\ 1 \in 1 .. Len(s) + 1
        /\ n \in 1 - 1 .. Len(s) /\ Len(s) \in n .. Len(s)
    OBVIOUS
  <2>2. a \o b = SubSeq(s, 1, Len(s))
    BY <2>1, ConcatAdjacentSubSeq, Zenon
  <2> QED
    BY <2>2, SubSeqFull
<1> HIDE DEF a, b
<1>5. /\ a \in Seq(S) /\ Len(a) = n /\ (\A i \in 1 .. n : a[i] = s[i])
      /\ b \in Seq(S) /\ Len(b) = Len(s) - n
      /\ \A i \in 1 .. Len(s) - n : b[i] = s[n + i]
  BY <1>1, <1>2, <1>3
<1> QED
  BY <1>5, <1>4 DEF Front, Drop, Join, a, b

LEMMA Middle ==
  ASSUME NEW S, NEW s \in Seq(S), NEW p \in 0 .. Len(s),
         NEW n \in 0 .. Len(s) - p
  PROVE  /\ SubSeq(s, p + 1, p + n) \in Seq(S)
         /\ Len(SubSeq(s, p + 1, p + n)) = n
         /\ \A i \in 1 .. n : SubSeq(s, p + 1, p + n)[i] = s[p + i]
<1>1. ASSUME NEW m \in Int, NEW k \in Int, m = p + 1, k = p + n
      PROVE  /\ SubSeq(s, m, k) \in Seq(S) /\ Len(SubSeq(s, m, k)) = n
             /\ \A i \in 1 .. n : SubSeq(s, m, k)[i] = s[p + i]
  <2>1. \A i \in m .. k : s[i] \in S
    BY <1>1
  <2>2. /\ SubSeq(s, m, k) \in Seq(S)
        /\ Len(SubSeq(s, m, k)) = IF m <= k THEN k - m + 1 ELSE 0
        /\ \A i \in 1 .. k - m + 1 : SubSeq(s, m, k)[i] = s[m + i - 1]
    BY <2>1, SubSeqProperties
  <2>3. k - m + 1 = n /\ \A i \in 1 .. n : m + i - 1 = p + i
    BY <1>1
  <2>4. (IF m <= k THEN k - m + 1 ELSE 0) = n
    BY <1>1
  <2> QED
    BY <2>2, <2>3, <2>4
<1> QED
  BY <1>1

LEMMA JoinLaws ==
  ASSUME NEW S
  PROVE  /\ \A s \in Seq(S), t \in Seq(S) : /\ Join(s, t) \in Seq(S)
                                            /\ Len(Join(s, t)) = Len(s) + Len(t)
         /\ \A s \in Seq(S) : Join(s, <<>>) = s /\ Join(<<>>, s) = s
         /\ \A s \in Seq(S), t \in Seq(S), u \in Seq(S) :
              Join(Join(s, t), u) = Join(s, Join(t, u))
<1>1. ASSUME NEW s \in Seq(S), NEW t \in Seq(S)
      PROVE  Join(s, t) \in Seq(S) /\ Len(Join(s, t)) = Len(s) + Len(t)
  BY ConcatProperties DEF Join
<1>2. ASSUME NEW s \in Seq(S)
      PROVE  Join(s, <<>>) = s /\ Join(<<>>, s) = s
  BY ConcatEmptySeq DEF Join
<1>3. ASSUME NEW s \in Seq(S), NEW t \in Seq(S), NEW u \in Seq(S)
      PROVE  Join(Join(s, t), u) = Join(s, Join(t, u))
  <2>1. (s \o t) \o u = s \o (t \o u)
    BY ConcatAssociative
  <2> QED
    BY <2>1, Zenon DEF Join
<1> QED
  BY <1>1, <1>2, <1>3

LEMMA ByteLaws ==
  /\ \A s \in Seq(Byte), t \in Seq(Byte) : /\ Join(s, t) \in Seq(Byte)
                                          /\ Len(Join(s, t)) = Len(s) + Len(t)
  /\ \A s \in Seq(Byte) : Join(s, <<>>) = s /\ Join(<<>>, s) = s
  /\ \A s \in Seq(Byte), t \in Seq(Byte), u \in Seq(Byte) :
       Join(Join(s, t), u) = Join(s, Join(t, u))
  BY JoinLaws

(* The next piece moves on along the way.                                  *)
LEMMA MovePiece ==
  ASSUME NEW S, NEW h \in Seq(S), NEW a \in Seq(S), NEW b \in Seq(S),
         NEW l \in Seq(S), NEW n, n = Join(a, b)
  PROVE  Join(h, Join(n, l)) = Join(Join(h, a), Join(b, l))
  BY JoinLaws

LEMMA MoveFirst ==
  ASSUME NEW S, NEW h \in Seq(S), NEW n \in Seq(S), n # <<>>, NEW l \in Seq(S)
  PROVE  /\ Join(h, Join(n, l)) = Join(Append(h, Head(n)), Join(Drop(n, 1), l))
         /\ Append(h, Head(n)) \in Seq(S) /\ Head(n) = n[1]
<1> DEFINE a == <<n[1]>>
           b == Drop(n, 1)
<1>1. /\ Len(n) \in Nat /\ Len(n) > 0 /\ n[1] \in S /\ Head(n) = n[1]
  BY EmptySeq
<1>2. /\ a \in Seq(S) /\ b \in Seq(S)
  BY <1>1, CutInTwo
<1>3. n = Join(a, b)
  <2>1. 1 \in 0 .. Len(n)
    BY <1>1
  <2>2. /\ Front(n, 1) \in Seq(S) /\ Len(Front(n, 1)) = 1
        /\ \A i \in 1 .. 1 : Front(n, 1)[i] = n[i]
        /\ Join(Front(n, 1), b) = n
    BY <2>1, CutInTwo
  <2>3. Len(a) = 1 /\ a[1] = n[1]
    OBVIOUS
  <2> HIDE DEF a, b
  <2>4. \A i \in 1 .. Len(Front(n, 1)) : Front(n, 1)[i] = a[i]
    BY <2>2, <2>3
  <2>5. Front(n, 1) = a
    BY <1>2, <2>2, <2>3, <2>4, SeqEqual
  <2> QED
    BY <2>2, <2>5
<1>4. Append(h, n[1]) = Join(h, a)
  BY <1>1, AppendIsConcat DEF Join
<1>5. Append(h, n[1]) \in Seq(S)
  BY <1>1
<1> HIDE DEF a, b
<1>6. Join(h, Join(n, l)) = Join(Join(h, a), Join(b, l))
  BY <1>2, <1>3, MovePiece
<1> QED
  BY <1>1, <1>4, <1>5, <1>6 DEF b

(* s continues all from the from-th element on, up to the to-th one.       *)
Continues(s, from, to, all) ==
  /\ \A i \in 1 .. Len(s) : s[i] = all[from + i]
  /\ from + Len(s) <= to

LEMMA ContinuesWithout ==
  ASSUME NEW S, NEW s \in Seq(S), NEW from \in Nat, NEW to \in Nat, NEW all,
         NEW n \in 0 .. Len(s), Continues(s, from, to, all)
  PROVE  Continues(Drop(s, n), from + n, to, all)
<1>1. /\ Len(Drop(s, n)) = Len(s) - n
      /\ \A i \in 1 .. Len(s) - n : Drop(s, n)[i] = s[n + i]
  BY CutInTwo
<1>2. ASSUME NEW i \in 1 .. Len(s) - n
      PROVE  Drop(s, n)[i] = all[from + n + i]
  <2>1. n + i \in 1 .. Len(s) /\ from + (n + i) = from + n + i
    OBVIOUS
  <2> QED
    BY <1>1, <2>1 DEF Continues
<1> QED
  BY <1>1, <1>2 DEF Continues

LEMMA ContinuesWith ==
  ASSUME NEW S, NEW s \in Seq(S), NEW t \in Seq(S), NEW from \in Nat,
         NEW to \in Nat, NEW all, Continues(s, from, to, all),
         from + Len(s) = to,
         \A i \in 1 .. Len(t) : t[i] = all[to + i]
  PROVE  Continues(Join(s, t), from, to + Len(t), all)
<1>1. /\ s \o t \in Seq(S) /\ Len(s \o t) = Len(s) + Len(t)
      /\ \A i \in 1 .. Len(s) + Len(t) :
           (s \o t)[i] = IF i <= Len(s) THEN s[i] ELSE t[i - Len(s)]
  BY ConcatProperties
<1>0. Len(s) \in Nat /\ Len(t) \in Nat
  OBVIOUS
<1>2. ASSUME NEW i \in 1 .. Len(s) + Len(t)
      PROVE  (s \o t)[i] = all[from + i]
  <2>1. CASE i <= Len(s)
    BY <1>1, <2>1 DEF Continues
  <2>2. CASE i > Len(s)
    <3> DEFINE j == i - Len(s)
    <3>1. /\ j \in 1 .. Len(t) /\ to + j = from + i
          /\ ~ (i <= Len(s))
      BY <1>0, <2>2
    <3>2. t[j] = all[from + i]
      BY <3>1
    <3>3. (s \o t)[i] = t[j]
      BY <1>1, <3>1
    <3> QED
      BY <3>2, <3>3
  <2> QED
    BY <2>1, <2>2
<1> QED
  BY <1>1, <1>2 DEF Continues, Join

LEMMA ContinuesShort ==
  ASSUME NEW S, NEW s \in Seq(S), NEW t \in Seq(S), NEW from \in Nat,
         NEW to \in Nat, NEW all, Continues(Join(s, t), from, to, all)
  PROVE  Continues(s, from, to, all)
<1>1. /\ Len(s \o t) = Len(s) + Len(t)
      /\ \A i \in 1 .. Len(s) + Len(t) :
           (s \o t)[i] = IF i <= Len(s) THEN s[i] ELSE t[i - Len(s)]
  BY ConcatProperties
<1> QED
  BY <1>1 DEF Continues, Join
-----------------------------------------------------------------------------
(* What a client has to say: its line and its file; and where a byte of it *)
(* may be on its way: in the server's hand, on the connection, or with     *)
(* writen.                                                                 *)
Line(c) == Append(NameOf[c], NL)
All(c) == Join(Line(c), Text(c))

Hold(c) == IF c = conn /\ spc \in {"line", "chop", "write"} THEN buff ELSE <<>>
Way(c) == Join(Hold(c), Join(net[c], left[c]))

(* How much of it the client has read, and the server is done with.        *)
Told(c) == IF cpc[c] = "connect" THEN 0 ELSE Len(Line(c)) + pos[c]
Done(c) == IF c = conn /\ Serving THEN Len(Line(c)) + foff ELSE 0

(* The invariant.  What is on its way goes on where the server stopped and *)
(* ends where a client that lives has come to.  Nothing is said of a client*)
(* whose file was received, nor once the server has taken the line for     *)
(* something else than the name.                                           *)
Tracked(c) == /\ c \notin received /\ spc # "exited"
              /\ c = conn /\ Serving => target = NameOf[c]

OnWay(c) ==
  Tracked(c) => /\ Continues(Way(c), Done(c), Told(c), All(c))
                /\ cpc[c] # "failed" => Done(c) + Len(Way(c)) = Told(c)

Stage(c) ==
  /\ cpc[c] = "connect" => pos[c] = 0 /\ left[c] = <<>> /\ net[c] = <<>>
  /\ cpc[c] \in {"open", "read", "done", "failed"} => left[c] = <<>>
  /\ cpc[c] \in {"read", "block", "done"} => FileOf[c] # NoFile
  /\ cpc[c] = "done" => pos[c] = Len(Text(c))
  /\ c \in received => cpc[c] # "connect"

Turn == spc \notin {"accept", "exited"} =>
          cpc[conn] # "connect" /\ conn \notin received

(* readline stops at the line break, with its buffer full, or at the end.  *)
LineRead ==
  /\ spc = "line" => /\ Len(buff) < BUFFERSIZE - 1
                     /\ \A i \in 1 .. Len(buff) : buff[i] # NL
  /\ spc = "chop" => /\ Len(buff) < BUFFERSIZE
                     /\ \A i \in 1 .. Len(buff) - 1 : buff[i] # NL
                     /\ \/ Len(buff) > 0 /\ buff[Len(buff)] = NL
                        \/ Len(buff) = BUFFERSIZE - 1
                        \/ net[conn] = <<>> /\ Closed(conn)

Written ==
  Serving => /\ target \in DOMAIN disk /\ foff <= Len(disk[target])
             /\ target = NameOf[conn] =>
                  disk[target] = Overlay(before, 0, SubSeq(Text(conn), 1, foff))

IInv == /\ FileTransferTypeOK /\ Turn /\ LineRead /\ Written /\ NameIsWhole
        /\ \A c \in Client : Stage(c) /\ OnWay(c)

LEMMA LineThenFile ==
  ASSUME NEW c \in Client
  PROVE  /\ Line(c) \in Seq(Byte) /\ Len(Line(c)) = Len(NameOf[c]) + 1
         /\ All(c) \in Seq(Byte) /\ Len(All(c)) = Len(Line(c)) + Len(Text(c))
         /\ \A i \in 1 .. Len(NameOf[c]) : All(c)[i] = NameOf[c][i]
         /\ All(c)[Len(Line(c))] = NL
         /\ \A i \in 1 .. Len(Line(c)) : All(c)[i] = Line(c)[i]
         /\ \A i \in 1 .. Len(Text(c)) : All(c)[Len(Line(c)) + i] = Text(c)[i]
<1> DEFINE n == NameOf[c]
           l == Line(c)
           t == Text(c)
<1>1. n \in Seq(Byte) /\ NL \in Byte /\ t \in Seq(Byte)
  BY Constants
<1>2. /\ l \in Seq(Byte) /\ Len(l) = Len(n) + 1
      /\ \A i \in 1 .. Len(n) : l[i] = n[i]
      /\ l[Len(n) + 1] = NL
  BY <1>1, AppendProperties DEF Line
<1> HIDE DEF n, l, t
<1>3. /\ l \o t \in Seq(Byte) /\ Len(l \o t) = Len(l) + Len(t)
      /\ \A i \in 1 .. Len(l) + Len(t) :
           (l \o t)[i] = IF i <= Len(l) THEN l[i] ELSE t[i - Len(l)]
  BY <1>1, <1>2, ConcatProperties
<1>4. ASSUME NEW i \in 1 .. Len(t)
      PROVE  (l \o t)[Len(l) + i] = t[i]
  <2>1. /\ Len(l) + i \in 1 .. Len(l) + Len(t) /\ ~ (Len(l) + i <= Len(l))
        /\ Len(l) + i - Len(l) = i
    BY <1>1, <1>2
  <2> QED
    BY <1>3, <2>1
<1>5. \A i \in 1 .. Len(l) : (l \o t)[i] = l[i]
  BY <1>1, <1>2, <1>3
<1>6. (l \o t)[Len(l)] = NL /\ \A i \in 1 .. Len(n) : (l \o t)[i] = n[i]
  BY <1>1, <1>2, <1>5
<1>7. l \o t = All(c)
  BY DEF All, Join, l, t
<1> QED
  BY <1>2, <1>3, <1>4, <1>5, <1>6, <1>7 DEF n, l, t

LEMMA StateTypes ==
  ASSUME FileTransferTypeOK, NEW c \in Client
  PROVE  /\ left[c] \in Seq(Byte) /\ net[c] \in Seq(Byte) /\ buff \in Seq(Byte)
         /\ Hold(c) \in Seq(Byte) /\ Join(net[c], left[c]) \in Seq(Byte)
         /\ Way(c) \in Seq(Byte)
         /\ pos[c] \in Nat /\ foff \in Nat /\ pos[c] <= Len(Text(c))
         /\ Told(c) \in Nat /\ Done(c) \in Nat
<1>1. /\ left[c] \in Seq(Byte) /\ net[c] \in Seq(Byte) /\ buff \in Seq(Byte)
      /\ pos[c] \in Nat /\ foff \in Nat /\ pos[c] <= Len(Text(c))
  BY DEF FileTransferTypeOK
<1>2. Hold(c) \in Seq(Byte)
  BY <1>1, EmptySeq DEF Hold
<1>3. Join(net[c], left[c]) \in Seq(Byte)
  BY <1>1, ByteLaws
<1>4. Way(c) \in Seq(Byte)
  BY <1>2, <1>3, ByteLaws DEF Way
<1>5. Told(c) \in Nat /\ Done(c) \in Nat
  BY <1>1, LineThenFile DEF Told, Done
<1> QED
  BY <1>1, <1>2, <1>3, <1>4, <1>5

LEMMA InitInvariant == Init => IInv
<1> SUFFICES ASSUME Init PROVE IInv
  OBVIOUS
<1>0. <<>> \in Seq(Byte) /\ Len(<<>>) = 0 /\ Join(<<>>, <<>>) = <<>>
  BY EmptySeq, ByteLaws
<1>1. FileTransferTypeOK
  BY <1>0, Constants DEF Init, FileTransferTypeOK
<1>2. Turn /\ LineRead /\ Written /\ NameIsWhole
  BY DEF Init, Turn, LineRead, Written, NameIsWhole, Serving
<1>3. ASSUME NEW c \in Client PROVE Stage(c) /\ OnWay(c)
  <2>1. Way(c) = <<>> /\ Done(c) = 0 /\ Told(c) = 0
    BY <1>0, LineThenFile DEF Init, Way, Hold, Done, Told, Serving
  <2> QED
    BY <1>0, <2>1 DEF Init, Stage, OnWay, Continues
<1> QED
  BY <1>1, <1>2, <1>3 DEF IInv
-----------------------------------------------------------------------------
(* The steps of a client.                                                  *)
LEMMA ServerRests ==
  ASSUME UNCHANGED serverVars, NEW c \in Client
  PROVE  Hold(c)' = Hold(c) /\ Done(c)' = Done(c) /\ (Tracked(c)' <=> Tracked(c))
  BY DEF serverVars, Hold, Done, Tracked, Serving

(* What a step of c has to keep, and what it keeps because the others rest.*)
LEMMA ClientMoves ==
  ASSUME IInv, NEW c \in Client, UNCHANGED serverVars,
         cpc[c] \notin {"done", "failed"}, cpc'[c] # "connect",
         \A d \in Client \ {c} : /\ cpc'[d] = cpc[d] /\ left'[d] = left[d]
                                /\ pos'[d] = pos[d] /\ net'[d] = net[d],
         FileTransferTypeOK', Stage(c)', OnWay(c)'
  PROVE  IInv'
<1>1. ASSUME NEW d \in Client \ {c} PROVE Stage(d)' /\ OnWay(d)'
  <2>1. Stage(d) /\ OnWay(d) /\ received' = received
    BY DEF IInv, serverVars
  <2>2. /\ cpc'[d] = cpc[d] /\ left'[d] = left[d] /\ pos'[d] = pos[d]
        /\ net'[d] = net[d]
    OBVIOUS
  <2>3. Stage(d)'
    BY <2>1, <2>2 DEF Stage
  <2>4. Way(d)' = Way(d) /\ Told(d)' = Told(d)
    BY <2>2, ServerRests DEF Way, Told
  <2>5. OnWay(d)'
    BY <2>1, <2>2, <2>4, ServerRests DEF OnWay
  <2> QED
    BY <2>3, <2>5
<1>2. /\ conn \in Client /\ Turn /\ LineRead /\ Written /\ NameIsWhole
      /\ UNCHANGED <<spc, conn, buff, target, foff, disk, before, received>>
  BY DEF IInv, FileTransferTypeOK, serverVars
<1>3. Turn'
  BY <1>2 DEF Turn
<1>4. Closed(conn) => conn # c
  BY DEF Closed
<1>5. LineRead'
  <2>1. spc = "chop" /\ net[conn] = <<>> /\ Closed(conn)
          => net'[conn] = <<>> /\ Closed(conn)'
    BY <1>2, <1>4 DEF Closed
  <2> QED
    BY <1>2, <2>1 DEF LineRead
<1>6. Written'
  BY <1>2 DEF Written, Serving
<1>7. NameIsWhole'
  BY <1>2 DEF NameIsWhole, Serving, Fits
<1> QED
  BY <1>1, <1>3, <1>5, <1>6, <1>7 DEF IInv

(* A step that leaves c what it had on its way.                            *)
LEMMA WayStays ==
  ASSUME NEW c \in Client, OnWay(c), Tracked(c)' => Tracked(c),
         Way(c)' = Way(c), Done(c)' = Done(c), Told(c)' = Told(c),
         cpc'[c] # "failed" => cpc[c] # "failed"
  PROVE  OnWay(c)'
  BY DEF OnWay

LEMMA ConnectKeeps == ASSUME IInv, NEW c \in Client, Connect(c) PROVE IInv'
<1>1. /\ cpc[c] = "connect" /\ spc # "exited" /\ cpc' = [cpc EXCEPT ![c] = "name"]
      /\ left' = [left EXCEPT ![c] = Line(c)]
      /\ UNCHANGED <<pos, net, serverVars>>
  BY DEF Connect, Goto, Line
<1>2. FileTransferTypeOK /\ Stage(c) /\ OnWay(c) /\ Turn
  BY DEF IInv
<1>3. Line(c) \in Seq(Byte) /\ pos[c] = 0 /\ left[c] = <<>> /\ net[c] = <<>>
  BY <1>1, <1>2, LineThenFile DEF Stage
<1>4. FileTransferTypeOK'
  BY <1>1, <1>2, <1>3 DEF FileTransferTypeOK, serverVars
<1>5. cpc'[c] = "name" /\ left'[c] = Line(c) /\ net'[c] = <<>> /\ pos'[c] = 0
  BY <1>1, <1>2, <1>3 DEF FileTransferTypeOK
<1>6. Stage(c)'
  BY <1>1, <1>2, <1>5 DEF Stage, serverVars
<1>7. OnWay(c)'
  <2>1. Hold(c) = <<>> /\ Done(c) = 0
    BY <1>1, <1>2 DEF Turn, Hold, Done, Serving
  <2>2. Hold(c)' = <<>> /\ Done(c)' = 0
    BY <1>1, <2>1, ServerRests
  <2>3. Way(c)' = Line(c)
    BY <1>3, <1>5, <2>2, ByteLaws DEF Way
  <2>4. Told(c)' = Len(Line(c)) /\ Len(Line(c)) \in Nat
    BY <1>3, <1>5, LineThenFile, LenProperties DEF Told
  <2>5. \A i \in 1 .. Len(Line(c)) : Line(c)[i] = All(c)[0 + i]
    BY LineThenFile
  <2> QED
    BY <2>2, <2>3, <2>4, <2>5 DEF OnWay, Continues
<1> QED
  BY <1>1, <1>4, <1>5, <1>6, <1>7, ClientMoves

LEMMA WriteKeeps == ASSUME IInv, NEW c \in Client, Write(c) PROVE IInv'
<1>0. cpc[c] \in {"name", "block"}
  BY DEF Write
<1>1. /\ UNCHANGED <<pos, serverVars>>
      /\ cpc' = [cpc EXCEPT ![c] = IF left'[c] # <<>> THEN cpc[c]
                                  ELSE IF cpc[c] = "name" THEN "open" ELSE "read"]
  BY DEF Write, Goto
<1>2. FileTransferTypeOK /\ Stage(c) /\ OnWay(c)
  BY DEF IInv
<1>3. PICK n \in 0 .. Len(left[c]) :
        /\ net' = [net EXCEPT ![c] = Join(net[c], Front(left[c], n))]
        /\ left' = [left EXCEPT ![c] = Drop(left[c], n)]
        /\ Len(net[c]) + n <= Window
  <2>1. PICK n \in 1 .. Least(Len(left[c]), Window - Len(net[c])) :
          /\ net' = [net EXCEPT ![c] = Join(net[c], Front(left[c], n))]
          /\ left' = [left EXCEPT ![c] = Drop(left[c], n)]
    BY <1>2 DEF Write, Join, Front, FileTransferTypeOK
  <2>2. Len(left[c]) \in Nat /\ Len(net[c]) \in Nat /\ Window \in Nat
    BY <1>2, StateTypes, LenProperties, Constants
  <2>3. n \in 0 .. Len(left[c]) /\ Len(net[c]) + n <= Window
    BY <2>2 DEF Least
  <2> QED
    BY <2>1, <2>3
<1> DEFINE a == Front(left[c], n)
           b == Drop(left[c], n)
<1>4. /\ left[c] \in Seq(Byte) /\ net[c] \in Seq(Byte) /\ Hold(c) \in Seq(Byte)
      /\ a \in Seq(Byte) /\ Len(a) = n /\ b \in Seq(Byte) /\ Join(a, b) = left[c]
  BY <1>2, StateTypes, CutInTwo
<1> HIDE DEF a, b
<1>5. Join(net[c], a) \in Seq(Byte) /\ Len(Join(net[c], a)) = Len(net[c]) + n
  <2>1. Join(net[c], a) \in Seq(Byte)
    BY <1>4, ByteLaws
  <2>2. Len(Join(net[c], a)) = Len(net[c]) + Len(a)
    BY <1>4, ByteLaws
  <2> QED
    BY <1>4, <2>1, <2>2
<1>6. net'[c] = Join(net[c], a) /\ left'[c] = b /\ pos'[c] = pos[c]
  BY <1>1, <1>2, <1>3 DEF FileTransferTypeOK, a, b
<1>7. /\ cpc'[c] = (IF b # <<>> THEN cpc[c]
                    ELSE IF cpc[c] = "name" THEN "open" ELSE "read")
      /\ cpc'[c] \in {"name", "block", "open", "read"}
  <2>1. cpc'[c] = IF left'[c] # <<>> THEN cpc[c]
                  ELSE IF cpc[c] = "name" THEN "open" ELSE "read"
    BY <1>1, <1>2 DEF FileTransferTypeOK
  <2> QED
    BY <1>0, <1>6, <2>1
<1>8. FileTransferTypeOK'
  <2>1. /\ cpc' \in [Client -> {"connect", "name", "open", "read", "block",
                                "done", "failed"}]
        /\ left' \in [Client -> Seq(Byte)] /\ net' \in [Client -> Seq(Byte)]
    BY <1>1, <1>2, <1>3, <1>4, <1>5, <1>7 DEF FileTransferTypeOK, a, b
  <2>2. \A d \in Client : Len(net'[d]) <= Window
    BY <1>2, <1>3, <1>5, <1>6 DEF FileTransferTypeOK
  <2> QED
    BY <1>1, <1>2, <2>1, <2>2 DEF FileTransferTypeOK, serverVars
<1>9. Stage(c)'
  <2>1. received' = received /\ pos' = pos
    BY <1>1 DEF serverVars
  <2> QED
    BY <1>0, <1>2, <1>6, <1>7, <2>1 DEF Stage
<1>10. OnWay(c)'
  <2>1. Way(c)' = Way(c)
    <3>1. Join(Join(net[c], a), b) = Join(net[c], Join(a, b))
      BY <1>4, ByteLaws, Zenon
    <3> QED
      BY <1>1, <1>4, <1>6, <3>1, ServerRests, Zenon DEF Way
  <2>2. Told(c)' = Told(c)
    BY <1>0, <1>6, <1>7 DEF Told
  <2> QED
    BY <1>0, <1>1, <1>2, <2>1, <2>2, ServerRests, WayStays
<1>11. \A d \in Client \ {c} : /\ cpc'[d] = cpc[d] /\ left'[d] = left[d]
                              /\ pos'[d] = pos[d] /\ net'[d] = net[d]
  BY <1>1, <1>2, <1>3 DEF FileTransferTypeOK
<1> QED
  BY <1>0, <1>1, <1>7, <1>8, <1>9, <1>10, <1>11, ClientMoves

LEMMA ReadKeeps == ASSUME IInv, NEW c \in Client, Read(c) PROVE IInv'
<1> DEFINE t == Text(c)
           n == Least(Len(t) - pos[c], BUFFERSIZE)
           new == SubSeq(t, pos[c] + 1, pos[c] + n)
<1>1. FileTransferTypeOK /\ Stage(c) /\ OnWay(c)
  BY DEF IInv
<1>2. /\ cpc[c] = "read" /\ UNCHANGED <<net, serverVars>>
      /\ FileOf[c] = t /\ left[c] = <<>>
  BY <1>1 DEF Read, Stage, Text
<1>3. /\ left' = [left EXCEPT ![c] = new]
      /\ pos' = [pos EXCEPT ![c] = pos[c] + n]
      /\ cpc' = [cpc EXCEPT ![c] = IF n = 0 THEN "done" ELSE "block"]
  BY <1>1, <1>2 DEF Read, Goto, FileTransferTypeOK
<1>4. /\ t \in Seq(Byte) /\ Len(t) \in Nat /\ pos[c] \in 0 .. Len(t)
      /\ n \in 0 .. Len(t) - pos[c]
      /\ n = 0 => pos[c] = Len(t)
  BY <1>1, Constants, StateTypes, LenProperties DEF Least
<1> HIDE DEF n
<1>5. /\ new \in Seq(Byte) /\ Len(new) = n
      /\ \A i \in 1 .. n : new[i] = t[pos[c] + i]
  <2>1. \A p \in 0 .. Len(t) : \A k \in 0 .. Len(t) - p :
          /\ SubSeq(t, p + 1, p + k) \in Seq(Byte)
          /\ Len(SubSeq(t, p + 1, p + k)) = k
          /\ \A i \in 1 .. k : SubSeq(t, p + 1, p + k)[i] = t[p + i]
    BY <1>4, Middle
  <2> HIDE DEF t
  <2> QED
    BY <1>4, <2>1
<1> HIDE DEF new, t
<1>6. /\ left'[c] = new /\ pos'[c] = pos[c] + n /\ net'[c] = net[c]
      /\ cpc'[c] = IF n = 0 THEN "done" ELSE "block"
  BY <1>1, <1>2, <1>3 DEF FileTransferTypeOK
<1>7. FileTransferTypeOK'
  <2>1. \A d \in Client : pos'[d] <= Len(Text(d))
    BY <1>1, <1>3, <1>4, <1>6 DEF FileTransferTypeOK, t
  <2>2. pos[c] + n \in Nat
    BY <1>4
  <2>3. cpc' \in [Client -> {"connect", "name", "open", "read", "block",
                             "done", "failed"}]
    BY <1>1, <1>3 DEF FileTransferTypeOK
  <2> QED
    BY <1>1, <1>2, <1>3, <1>5, <2>1, <2>2, <2>3 DEF FileTransferTypeOK, serverVars
<1>8. Stage(c)'
  <2>1. n = 0 => new = <<>>
    BY <1>5, EmptySeq
  <2>2. received' = received /\ FileOf[c] # NoFile
    BY <1>1, <1>2 DEF serverVars, Stage
  <2> QED
    BY <1>2, <1>4, <1>6, <2>1, <2>2 DEF Stage, t
<1>9. OnWay(c)'
  <2> DEFINE w == Way(c)
  <2>1. /\ w \in Seq(Byte) /\ Done(c) \in Nat /\ Told(c) \in Nat
        /\ Hold(c) \in Seq(Byte) /\ net[c] \in Seq(Byte)
    BY <1>1, StateTypes
  <2>2. w = Join(Hold(c), net[c]) /\ Way(c)' = Join(Hold(c), Join(net[c], new))
    BY <1>2, <1>6, <2>1, ServerRests, ByteLaws DEF Way
  <2>3. Way(c)' = Join(w, new)
    <3>1. Join(Join(Hold(c), net[c]), new) = Join(Hold(c), Join(net[c], new))
      <4>1. new \in Seq(Byte) /\ Hold(c) \in Seq(Byte) /\ net[c] \in Seq(Byte)
        BY <1>5, <2>1
      <4> QED
        BY <4>1, ByteLaws
    <3> QED
      BY <2>2, <3>1, Zenon
  <2>4. Told(c) = Len(Line(c)) + pos[c] /\ Told(c)' = Told(c) + n
    <3>1. Len(Line(c)) \in Nat
      BY LineThenFile, LenProperties
    <3> QED
      BY <1>2, <1>4, <1>6, <3>1 DEF Told
  <2>5. \A i \in 1 .. n : new[i] = All(c)[Told(c) + i]
    <3> TAKE i \in 1 .. n
    <3>1. pos[c] + i \in 1 .. Len(t) /\ Len(Line(c)) \in Nat
      BY <1>4, LineThenFile, LenProperties
    <3>2. All(c)[Len(Line(c)) + (pos[c] + i)] = t[pos[c] + i]
      BY <3>1, LineThenFile DEF t
    <3>3. Len(Line(c)) + (pos[c] + i) = Told(c) + i
      BY <1>4, <2>4, <3>1
    <3> QED
      BY <1>5, <3>2, <3>3
  <2>6. SUFFICES ASSUME Tracked(c)
                 PROVE  /\ Continues(Way(c)', Done(c), Told(c)', All(c))
                        /\ Done(c) + Len(Way(c)') = Told(c)'
    BY <1>2, ServerRests DEF OnWay
  <2>7. Continues(w, Done(c), Told(c), All(c)) /\ Done(c) + Len(w) = Told(c)
    BY <1>1, <1>2, <2>6 DEF OnWay
  <2> HIDE DEF w
  <2>8. Continues(Join(w, new), Done(c), Told(c) + Len(new), All(c))
    BY <1>5, <2>1, <2>5, <2>7, ContinuesWith
  <2>9. Len(Join(w, new)) = Len(w) + n /\ Len(w) \in Nat
    BY <1>5, <2>1, ByteLaws, LenProperties
  <2> QED
    BY <1>4, <1>5, <2>1, <2>3, <2>4, <2>7, <2>8, <2>9
<1>10. \A d \in Client \ {c} : /\ cpc'[d] = cpc[d] /\ left'[d] = left[d]
                              /\ pos'[d] = pos[d] /\ net'[d] = net[d]
  BY <1>1, <1>2, <1>3 DEF FileTransferTypeOK
<1> QED
  BY <1>2, <1>6, <1>7, <1>8, <1>9, <1>10, ClientMoves

LEMMA OpenKeeps == ASSUME IInv, NEW c \in Client, Open(c) PROVE IInv'
<1>1. FileTransferTypeOK /\ Stage(c) /\ OnWay(c)
  BY DEF IInv
<1>2. /\ cpc[c] = "open" /\ UNCHANGED <<left, pos, net, serverVars>>
      /\ cpc' = [cpc EXCEPT ![c] = IF FileOf[c] = NoFile THEN "failed" ELSE "read"]
  BY DEF Open, Goto
<1>3. /\ cpc'[c] = (IF FileOf[c] = NoFile THEN "failed" ELSE "read")
      /\ \A d \in Client \ {c} : cpc'[d] = cpc[d]
  BY <1>1, <1>2 DEF FileTransferTypeOK
<1>4. FileTransferTypeOK'
  BY <1>1, <1>2 DEF FileTransferTypeOK, serverVars
<1>5. Stage(c)'
  BY <1>1, <1>2, <1>3 DEF Stage, serverVars
<1>6. Way(c)' = Way(c) /\ Told(c)' = Told(c)
  BY <1>2, <1>3, ServerRests DEF Way, Told
<1>7. OnWay(c)'
  BY <1>1, <1>2, <1>6, ServerRests, WayStays
<1> QED
  BY <1>2, <1>3, <1>4, <1>5, <1>7, ClientMoves

(* What a client that dies had written is still on its way.                *)
LEMMA DieKeeps == ASSUME IInv, NEW c \in Client, Die(c) PROVE IInv'
<1>1. FileTransferTypeOK /\ Stage(c) /\ OnWay(c)
  BY DEF IInv
<1>2. /\ cpc[c] \in {"name", "open", "read", "block"}
      /\ UNCHANGED <<pos, net, serverVars>>
      /\ cpc' = [cpc EXCEPT ![c] = "failed"] /\ left' = [left EXCEPT ![c] = <<>>]
  BY DEF Die, Goto
<1>3. /\ cpc'[c] = "failed" /\ left'[c] = <<>>
      /\ \A d \in Client \ {c} : cpc'[d] = cpc[d] /\ left'[d] = left[d]
  BY <1>1, <1>2 DEF FileTransferTypeOK
<1>4. FileTransferTypeOK'
  <2>1. <<>> \in Seq(Byte)
    OBVIOUS
  <2> QED
    BY <1>1, <1>2, <2>1 DEF FileTransferTypeOK, serverVars
<1>5. Stage(c)'
  BY <1>1, <1>2, <1>3 DEF Stage, serverVars
<1>6. OnWay(c)'
  <2>1. /\ Hold(c) \in Seq(Byte) /\ net[c] \in Seq(Byte) /\ left[c] \in Seq(Byte)
        /\ Done(c) \in Nat /\ Told(c) \in Nat
    BY <1>1, StateTypes
  <2>2. /\ Way(c)' = Join(Hold(c), net[c])
        /\ Way(c) = Join(Join(Hold(c), net[c]), left[c])
        /\ Join(Hold(c), net[c]) \in Seq(Byte)
    <3>1. Join(net[c], <<>>) = net[c]
      BY <2>1, ByteLaws
    <3>2. Join(Join(Hold(c), net[c]), left[c]) = Join(Hold(c), Join(net[c], left[c]))
      BY <2>1, ByteLaws, Zenon
    <3>3. Join(Hold(c), net[c]) \in Seq(Byte)
      BY <2>1, ByteLaws
    <3> QED
      BY <1>2, <1>3, <3>1, <3>2, <3>3, ServerRests DEF Way
  <2>3. Told(c)' = Told(c)
    BY <1>2, <1>3 DEF Told
  <2>4. SUFFICES ASSUME Tracked(c)
                 PROVE  Continues(Way(c)', Done(c), Told(c), All(c))
    BY <1>2, <1>3, <2>3, ServerRests DEF OnWay
  <2>5. Continues(Way(c), Done(c), Told(c), All(c))
    BY <1>1, <2>4 DEF OnWay
  <2> QED
    BY <2>1, <2>2, <2>5, ContinuesShort
<1> QED
  BY <1>2, <1>3, <1>4, <1>5, <1>6, ClientMoves

LEMMA WriteFailsKeeps == ASSUME IInv, NEW c \in Client, WriteFails(c) PROVE IInv'
<1>1. FileTransferTypeOK /\ Stage(c)
  BY DEF IInv
<1>2. /\ cpc[c] \in {"name", "block"} /\ spc = "exited"
      /\ UNCHANGED <<pos, net, serverVars>>
      /\ \/ cpc' = [cpc EXCEPT ![c] = "failed"]
         \/ cpc' = [cpc EXCEPT ![c] = "open"]
      /\ left' = [left EXCEPT ![c] = <<>>]
  BY DEF WriteFails, Goto
<1>3. /\ cpc'[c] \in {"failed", "open"} /\ left'[c] = <<>>
      /\ \A d \in Client \ {c} : cpc'[d] = cpc[d] /\ left'[d] = left[d]
  BY <1>1, <1>2 DEF FileTransferTypeOK
<1>4. FileTransferTypeOK'
  <2>1. <<>> \in Seq(Byte)
    OBVIOUS
  <2> QED
    BY <1>1, <1>2, <2>1 DEF FileTransferTypeOK, serverVars
<1>5. Stage(c)'
  BY <1>1, <1>2, <1>3 DEF Stage, serverVars
<1>6. OnWay(c)'
  BY <1>2 DEF OnWay, Tracked, serverVars
<1> QED
  BY <1>2, <1>3, <1>4, <1>5, <1>6, ClientMoves
-----------------------------------------------------------------------------
(* The steps of the server.                                                *)
LEMMA OthersWait ==
  ASSUME IInv, NEW c \in Client, c # conn \/ spc = "accept",
         c # conn' \/ (spc' = "line" /\ buff' = <<>>),
         UNCHANGED clientVars, net'[c] = net[c], received \subseteq received',
         spc # "exited"
  PROVE  OnWay(c)'
<1>1. Hold(c) = <<>> /\ Hold(c)' = <<>>
  BY DEF Hold
<1>2. Done(c) = 0 /\ Done(c)' = 0 /\ (Tracked(c)' => Tracked(c))
  BY DEF Done, Tracked, Serving
<1>3. Way(c)' = Way(c) /\ Told(c)' = Told(c)
  BY <1>1 DEF Way, Told, clientVars
<1> QED
  BY <1>2, <1>3, WayStays DEF IInv, clientVars

LEMMA ServerMoves ==
  ASSUME IInv, spc \notin {"accept", "exited"}, UNCHANGED <<clientVars, conn>>,
         \A d \in Client \ {conn} : net'[d] = net[d],
         received' \in {received, received \cup {conn}},
         FileTransferTypeOK', Turn', LineRead', Written', NameIsWhole',
         OnWay(conn)'
  PROVE  IInv'
<1>1. ASSUME NEW c \in Client PROVE Stage(c)'
  <2>1. Stage(c) /\ cpc[conn] # "connect"
    BY DEF IInv, Turn
  <2>2. c # conn => net'[c] = net[c]
    OBVIOUS
  <2>3. cpc' = cpc /\ left' = left /\ pos' = pos
    BY DEF clientVars
  <2>4. c \in received' => c \in received \/ c = conn
    OBVIOUS
  <2> QED
    BY <2>1, <2>2, <2>3, <2>4 DEF Stage
<1>2. ASSUME NEW c \in Client PROVE OnWay(c)'
  <2>1. CASE c = conn
    BY <2>1
  <2>2. CASE c # conn
    <3>1. /\ net'[c] = net[c] /\ c # conn' /\ received \subseteq received'
          /\ spc # "exited" /\ UNCHANGED clientVars
      BY <2>2
    <3> QED
      BY <2>2, <3>1, OthersWait
  <2> QED
    BY <2>1, <2>2
<1> QED
  BY <1>1, <1>2 DEF IInv

LEMMA AcceptKeeps == IInv /\ Accept => IInv'
<1> SUFFICES ASSUME IInv, Accept PROVE IInv'
  OBVIOUS
<1>1. /\ spc = "accept" /\ spc' = "line" /\ buff' = <<>>
      /\ conn' \in Client /\ cpc[conn'] # "connect" /\ conn' \notin received
      /\ UNCHANGED <<clientVars, net, target, foff, disk, before, received>>
  BY DEF Accept
<1>2. FileTransferTypeOK'
  <2>1. <<>> \in Seq(Byte) /\ Len(<<>>) = 0
    OBVIOUS
  <2> QED
    BY <1>1, <2>1, Constants DEF IInv, FileTransferTypeOK, clientVars
<1>3. Turn' /\ LineRead' /\ Written' /\ NameIsWhole'
  BY <1>1, Constants DEF Turn, LineRead, Written, NameIsWhole, Serving, clientVars
<1>4. ASSUME NEW c \in Client PROVE Stage(c)' /\ OnWay(c)'
  <2>1. Stage(c)'
    BY <1>1 DEF IInv, Stage, clientVars
  <2>2. OnWay(c)'
    BY <1>1, OthersWait
  <2> QED
    BY <2>1, <2>2
<1> QED
  BY <1>2, <1>3, <1>4 DEF IInv

LEMMA GoneKeeps == IInv /\ (Exit \/ NoTarget) => IInv'
<1> SUFFICES ASSUME IInv, Exit \/ NoTarget PROVE IInv'
  OBVIOUS
<1>1. /\ spc \notin {"accept", "exited"} /\ spc' = "exited"
      /\ UNCHANGED <<clientVars, net, conn, buff, target, foff, disk, before,
                     received>>
  BY DEF Exit, NoTarget
<1>2. FileTransferTypeOK'
  BY <1>1 DEF IInv, FileTransferTypeOK, clientVars
<1>3. Turn' /\ LineRead' /\ Written' /\ NameIsWhole'
  BY <1>1 DEF Turn, LineRead, Written, NameIsWhole, Serving
<1>4. OnWay(conn)'
  BY <1>1 DEF OnWay, Tracked
<1> QED
  BY <1>1, <1>2, <1>3, <1>4, ServerMoves

LEMMA ReadlineKeeps == IInv /\ Readline => IInv'
<1> SUFFICES ASSUME IInv, Readline PROVE IInv'
  OBVIOUS
<1> DEFINE h == Head(net[conn])
<1>1. /\ spc = "line" /\ net[conn] # <<>>
      /\ net' = [net EXCEPT ![conn] = Drop(net[conn], 1)]
      /\ buff' = Append(buff, h)
      /\ spc' = (IF h = NL \/ Len(buff') = BUFFERSIZE - 1 THEN "chop" ELSE "line")
      /\ UNCHANGED <<clientVars, conn, target, foff, disk, before, received>>
  BY DEF Readline, Took, IInv, FileTransferTypeOK
<1>2. FileTransferTypeOK /\ Turn /\ LineRead /\ conn \in Client /\ OnWay(conn)
  BY DEF IInv, FileTransferTypeOK
<1>3. /\ net[conn] \in Seq(Byte) /\ left[conn] \in Seq(Byte) /\ buff \in Seq(Byte)
  BY <1>2, StateTypes
<1>4. Len(net[conn]) \in Nat /\ Len(net[conn]) > 0 /\ h \in Byte
  BY <1>1, <1>3, EmptySeq
<1>5. /\ Drop(net[conn], 1) \in Seq(Byte)
      /\ Len(Drop(net[conn], 1)) = Len(net[conn]) - 1
  <2>1. 1 \in 0 .. Len(net[conn])
    BY <1>4
  <2> QED
    BY <1>3, <2>1, CutInTwo
<1>6. /\ buff' \in Seq(Byte) /\ Len(buff') = Len(buff) + 1
      /\ \A i \in 1 .. Len(buff) : buff'[i] = buff[i]
      /\ buff'[Len(buff) + 1] = h /\ Len(buff) \in Nat
  BY <1>1, <1>3, <1>4, AppendProperties
<1>7. net'[conn] = Drop(net[conn], 1)
  BY <1>1, <1>2 DEF FileTransferTypeOK
<1> HIDE DEF h
<1>8. FileTransferTypeOK'
  <2>1. Len(buff') <= BUFFERSIZE
    BY <1>1, <1>2, <1>6, Constants DEF LineRead
  <2>2. \A c \in Client : Len(net'[c]) <= Window
    BY <1>1, <1>2, <1>4, <1>5, <1>7, Constants DEF FileTransferTypeOK
  <2>3. net' \in [Client -> Seq(Byte)]
    BY <1>1, <1>2, <1>5 DEF FileTransferTypeOK
  <2> QED
    BY <1>1, <1>2, <1>6, <2>1, <2>2, <2>3 DEF FileTransferTypeOK, clientVars
<1>9. LineRead'
  <2>1. Len(buff) < BUFFERSIZE - 1 /\ \A i \in 1 .. Len(buff) : buff[i] # NL
    BY <1>1, <1>2 DEF LineRead
  <2>2. \A i \in 1 .. Len(buff') - 1 : buff'[i] # NL
    BY <1>6, <2>1
  <2>3. Len(buff') < BUFFERSIZE
    BY <1>6, <2>1, Constants
  <2>4. CASE h = NL
    BY <1>1, <1>6, <2>2, <2>3, <2>4 DEF LineRead
  <2>5. CASE h # NL /\ Len(buff') = BUFFERSIZE - 1
    BY <1>1, <2>2, <2>3, <2>5 DEF LineRead
  <2>6. CASE h # NL /\ Len(buff') # BUFFERSIZE - 1
    <3>1. Len(buff') < BUFFERSIZE - 1
      BY <1>6, <2>3, <2>6, Constants
    <3>2. \A i \in 1 .. Len(buff') : buff'[i] # NL
      BY <1>6, <2>1, <2>6
    <3> QED
      BY <1>1, <2>6, <3>1, <3>2 DEF LineRead
  <2> QED
    BY <2>4, <2>5, <2>6
<1>10. OnWay(conn)'
  <2>1. Join(buff, Join(net[conn], left[conn]))
          = Join(buff', Join(Drop(net[conn], 1), left[conn]))
    BY <1>1, <1>3, MoveFirst DEF h
  <2>2. Way(conn)' = Way(conn)
    <3>1. Hold(conn) = buff /\ Hold(conn)' = buff'
      BY <1>1 DEF Hold
    <3> QED
      BY <1>1, <1>7, <2>1, <3>1 DEF Way, clientVars
  <2>3. Told(conn)' = Told(conn) /\ Done(conn)' = Done(conn)
    BY <1>1 DEF Told, Done, Serving, clientVars
  <2>4. Tracked(conn)' => Tracked(conn)
    BY <1>1 DEF Tracked, Serving
  <2> QED
    BY <1>1, <1>2, <2>2, <2>3, <2>4 DEF OnWay, clientVars
<1>11. Turn' /\ Written' /\ NameIsWhole'
  BY <1>1, <1>2 DEF Turn, Written, NameIsWhole, Serving, clientVars
<1>12. \A d \in Client \ {conn} : net'[d] = net[d]
  BY <1>1, <1>2 DEF FileTransferTypeOK
<1> QED
  BY <1>1, <1>8, <1>9, <1>10, <1>11, <1>12, ServerMoves

LEMMA ReadlineEofKeeps == IInv /\ ReadlineEof => IInv'
<1> SUFFICES ASSUME IInv, ReadlineEof PROVE IInv'
  OBVIOUS
<1>1. /\ spc = "line" /\ net[conn] = <<>> /\ Closed(conn) /\ spc' = "chop"
      /\ UNCHANGED <<clientVars, net, conn, buff, target, foff, disk, before,
                     received>>
  BY DEF ReadlineEof
<1>2. FileTransferTypeOK /\ Turn /\ LineRead /\ conn \in Client /\ OnWay(conn)
  BY DEF IInv, FileTransferTypeOK
<1>3. FileTransferTypeOK'
  BY <1>1, <1>2 DEF FileTransferTypeOK, clientVars
<1>4. LineRead'
  <2>1. Len(buff) \in Nat
    BY <1>2, StateTypes, LenProperties
  <2>2. Len(buff) < BUFFERSIZE - 1 /\ \A i \in 1 .. Len(buff) : buff[i] # NL
    BY <1>1, <1>2 DEF LineRead
  <2> QED
    BY <1>1, <2>1, <2>2, Constants DEF LineRead, Closed, clientVars
<1>5. OnWay(conn)'
  BY <1>1, <1>2 DEF OnWay, Tracked, Way, Hold, Done, Told, Serving, clientVars
<1>6. Turn' /\ Written' /\ NameIsWhole'
  BY <1>1, <1>2 DEF Turn, Written, NameIsWhole, Serving, clientVars
<1> QED
  BY <1>1, <1>3, <1>4, <1>5, <1>6, ServerMoves

(* Wherever readline stopped, what is left of the line without its last    *)
(* character is the name, unless the client has failed or named too much.  *)
LEMMA LineIsName ==
  ASSUME IInv, spc = "chop", cpc[conn] # "failed", Fits(conn)
  PROVE  Front(buff, Len(buff) - 1) = NameOf[conn]
<1> DEFINE m == Len(NameOf[conn])
<1>1. /\ FileTransferTypeOK /\ Turn /\ LineRead /\ conn \in Client
      /\ OnWay(conn) /\ Stage(conn)
  BY DEF IInv, FileTransferTypeOK
<1>2. /\ NameOf[conn] \in Seq(Byte) /\ m \in Nat /\ m < BUFFERSIZE - 1
      /\ BUFFERSIZE \in Nat /\ \A i \in 1 .. m : NameOf[conn][i] # NL
  BY <1>1, Constants, LenProperties DEF Fits
<1>3. /\ buff \in Seq(Byte) /\ Len(buff) \in Nat /\ Told(conn) \in Nat
      /\ Join(net[conn], left[conn]) \in Seq(Byte)
      /\ net[conn] \in Seq(Byte) /\ left[conn] \in Seq(Byte)
      /\ pos[conn] \in Nat
  BY <1>1, StateTypes, LenProperties
<1>4. Hold(conn) = buff /\ Done(conn) = 0 /\ Tracked(conn) /\ cpc[conn] # "connect"
  BY <1>1 DEF Hold, Done, Serving, Tracked, Turn
<1>5. /\ Continues(Join(buff, Join(net[conn], left[conn])), 0, Told(conn), All(conn))
      /\ Len(Way(conn)) = Told(conn) /\ Told(conn) = Len(Line(conn)) + pos[conn]
  <2>1. /\ Continues(Way(conn), 0, Told(conn), All(conn))
        /\ 0 + Len(Way(conn)) = Told(conn)
    BY <1>1, <1>4 DEF OnWay
  <2>2. Way(conn) \in Seq(Byte)
    BY <1>1, StateTypes
  <2>3. Len(Way(conn)) \in Nat
    BY <2>2, LenProperties
  <2> QED
    BY <1>4, <2>1, <2>3 DEF Way, Told
<1>6. /\ Len(Line(conn)) = m + 1 /\ All(conn)[m + 1] = NL
      /\ \A i \in 1 .. m : All(conn)[i] = NameOf[conn][i]
  BY <1>1, LineThenFile
<1>7. \A i \in 1 .. Len(buff) : buff[i] = All(conn)[i]
  <2>1. Continues(buff, 0, Told(conn), All(conn))
    <3>1. 0 \in Nat
      OBVIOUS
    <3> QED
      BY <1>3, <1>5, <3>1, ContinuesShort
  <2>2. \A i \in 1 .. Len(buff) : buff[i] = All(conn)[0 + i]
    BY <2>1 DEF Continues
  <2> QED
    BY <2>2
<1> HIDE DEF m
<1>8. /\ Len(buff) < BUFFERSIZE /\ \A i \in 1 .. Len(buff) - 1 : buff[i] # NL
      /\ \/ Len(buff) > 0 /\ buff[Len(buff)] = NL
         \/ Len(buff) = BUFFERSIZE - 1
         \/ net[conn] = <<>> /\ Closed(conn)
  BY <1>1 DEF LineRead
<1>9. Len(buff) <= m + 1
  <2>1. SUFFICES ASSUME Len(buff) > m + 1 PROVE FALSE
    BY <1>2, <1>3
  <2>2. m + 1 \in 1 .. Len(buff) - 1
    BY <1>2, <1>3, <2>1
  <2> QED
    BY <1>6, <1>7, <1>8, <2>2
<1>10. Len(buff) = m + 1
  <2>1. CASE Len(buff) > 0 /\ buff[Len(buff)] = NL
    <3>1. SUFFICES ASSUME Len(buff) <= m PROVE FALSE
      BY <1>2, <1>3, <1>9
    <3>2. Len(buff) \in 1 .. m /\ Len(buff) \in 1 .. Len(buff)
      BY <1>2, <1>3, <2>1, <3>1
    <3>3. buff[Len(buff)] = NameOf[conn][Len(buff)]
      BY <1>6, <1>7, <3>2
    <3> QED
      BY <1>2, <2>1, <3>2, <3>3
  <2>2. CASE Len(buff) = BUFFERSIZE - 1
    BY <1>2, <1>3, <1>9, <2>2
  <2>3. CASE net[conn] = <<>> /\ Closed(conn)
    <3>1. left[conn] = <<>>
      BY <1>1, <2>3 DEF Closed, Stage
    <3>2. Way(conn) = buff
      <4>1. Join(<<>>, <<>>) = <<>> /\ Join(buff, <<>>) = buff
        BY <1>3, EmptySeq, ByteLaws
      <4> QED
        BY <1>4, <2>3, <3>1, <4>1 DEF Way
    <3> QED
      BY <1>2, <1>3, <1>5, <1>6, <1>9, <3>2
  <2> QED
    BY <1>8, <2>1, <2>2, <2>3
<1>11. /\ Front(buff, m) \in Seq(Byte) /\ Len(Front(buff, m)) = m
       /\ \A i \in 1 .. m : Front(buff, m)[i] = buff[i]
  <2>1. m \in 0 .. Len(buff)
    BY <1>2, <1>10
  <2> QED
    BY <1>3, <2>1, CutInTwo
<1>12. \A i \in 1 .. m : Front(buff, m)[i] = NameOf[conn][i]
  <2>1. \A i \in 1 .. m : i \in 1 .. Len(buff)
    BY <1>2, <1>10
  <2> QED
    BY <1>6, <1>7, <1>11, <2>1
<1>13. Front(buff, m) = NameOf[conn]
  BY <1>2, <1>11, <1>12, SeqEqual DEF m
<1>14. Len(buff) - 1 = m
  BY <1>2, <1>10
<1> QED
  BY <1>13, <1>14

LEMMA DropJoin ==
  ASSUME NEW s \in Seq(Byte), NEW t \in Seq(Byte), NEW n \in 0 .. Len(s)
  PROVE  Drop(Join(s, t), n) = Join(Drop(s, n), t)
<1> DEFINE st == Join(s, t)
           d == Drop(s, n)
<1>0. Len(s) \in Nat /\ Len(t) \in Nat
  BY LenProperties
<1>1. /\ st \in Seq(Byte) /\ Len(st) = Len(s) + Len(t)
      /\ \A i \in 1 .. Len(s) + Len(t) :
           st[i] = IF i <= Len(s) THEN s[i] ELSE t[i - Len(s)]
  BY ConcatProperties DEF Join
<1>2. /\ d \in Seq(Byte) /\ Len(d) = Len(s) - n
      /\ \A i \in 1 .. Len(s) - n : d[i] = s[n + i]
  BY CutInTwo
<1> HIDE DEF st, d
<1>3. /\ Join(d, t) \in Seq(Byte) /\ Len(Join(d, t)) = Len(d) + Len(t)
      /\ \A i \in 1 .. Len(d) + Len(t) :
           Join(d, t)[i] = IF i <= Len(d) THEN d[i] ELSE t[i - Len(d)]
  BY <1>2, ConcatProperties DEF Join
<1>4. /\ Drop(st, n) \in Seq(Byte) /\ Len(Drop(st, n)) = Len(st) - n
      /\ \A i \in 1 .. Len(st) - n : Drop(st, n)[i] = st[n + i]
  <2>1. n \in 0 .. Len(st)
    BY <1>0, <1>1
  <2> QED
    BY <1>1, <2>1, CutInTwo
<1>5. Len(Drop(st, n)) = Len(Join(d, t))
  BY <1>0, <1>1, <1>2, <1>3, <1>4
<1>6. ASSUME NEW i \in 1 .. Len(st) - n
      PROVE  Drop(st, n)[i] = Join(d, t)[i]
  <2>1. /\ n + i \in 1 .. Len(s) + Len(t) /\ i \in 1 .. Len(d) + Len(t)
        /\ n + i <= Len(s) <=> i <= Len(d)
        /\ i <= Len(d) => i \in 1 .. Len(s) - n
        /\ n + i - Len(s) = i - Len(d)
    BY <1>0, <1>1, <1>2
  <2>2. Drop(st, n)[i] = IF n + i <= Len(s) THEN s[n + i] ELSE t[n + i - Len(s)]
    BY <1>1, <1>4, <2>1
  <2>3. Join(d, t)[i] = IF i <= Len(d) THEN d[i] ELSE t[i - Len(d)]
    BY <1>3, <2>1
  <2> QED
    BY <1>2, <2>1, <2>2, <2>3
<1> QED
  BY <1>3, <1>4, <1>5, <1>6, SeqEqual DEF st, d

LEMMA DropAll ==
  ASSUME NEW s \in Seq(Byte), NEW t \in Seq(Byte)
  PROVE  Drop(Join(s, t), Len(s)) = t
<1>1. Len(s) \in 0 .. Len(s)
  BY LenProperties
<1>2. Drop(s, Len(s)) = <<>>
  <2>1. Drop(s, Len(s)) \in Seq(Byte) /\ Len(Drop(s, Len(s))) = Len(s) - Len(s)
    BY <1>1, CutInTwo
  <2>2. Len(Drop(s, Len(s))) = 0
    BY <2>1, LenProperties
  <2> QED
    BY <2>1, <2>2, EmptySeq
<1> QED
  BY <1>1, <1>2, DropJoin, ByteLaws

LEMMA OverlayIs ==
  ASSUME NEW old \in Seq(Byte), NEW off \in 0 .. Len(old), NEW new \in Seq(Byte)
  PROVE  /\ Overlay(old, off, new) \in Seq(Byte)
         /\ Len(Overlay(old, off, new))
              = IF off + Len(new) > Len(old) THEN off + Len(new) ELSE Len(old)
         /\ \A i \in 1 .. Len(Overlay(old, off, new)) :
              Overlay(old, off, new)[i]
                = IF i \in off + 1 .. off + Len(new) THEN new[i - off] ELSE old[i]
<1> DEFINE m == IF off + Len(new) > Len(old) THEN off + Len(new) ELSE Len(old)
<1>1. Len(old) \in Nat /\ Len(new) \in Nat /\ off \in Nat /\ m \in Nat
  BY LenProperties
<1>2. ASSUME NEW i \in 1 .. m
      PROVE  (IF i \in off + 1 .. off + Len(new) THEN new[i - off] ELSE old[i]) \in Byte
  <2>1. CASE i \in off + 1 .. off + Len(new)
    <3>1. i - off \in 1 .. Len(new)
      BY <1>1, <2>1
    <3>2. new[i - off] \in Byte
      BY <3>1, ElementOfSeq
    <3> QED
      BY <2>1, <3>2
  <2>2. CASE i \notin off + 1 .. off + Len(new)
    <3>1. i \in 1 .. Len(old)
      BY <1>1, <2>2
    <3>2. old[i] \in Byte
      BY <3>1, ElementOfSeq
    <3> QED
      BY <2>2, <3>2
  <2> QED
    BY <2>1, <2>2
<1>3. Overlay(old, off, new) \in [1 .. m -> Byte]
  BY <1>2 DEF Overlay
<1>4. Overlay(old, off, new) \in Seq(Byte)
  <2> HIDE DEF m
  <2>1. [1 .. m -> Byte] \subseteq UNION {[1 .. k -> Byte] : k \in Nat}
    BY <1>1
  <2> QED
    BY <1>3, <2>1, SeqDef, Zenon
<1>5. Len(Overlay(old, off, new)) = m
  <2>1. /\ DOMAIN Overlay(old, off, new) = 1 .. m
        /\ DOMAIN Overlay(old, off, new) = 1 .. Len(Overlay(old, off, new))
        /\ Len(Overlay(old, off, new)) \in Nat
    BY <1>3, <1>4, LenProperties
  <2> QED
    BY <1>1, <2>1
<1>6. \A i \in 1 .. m : Overlay(old, off, new)[i]
        = IF i \in off + 1 .. off + Len(new) THEN new[i - off] ELSE old[i]
  BY DEF Overlay
<1> QED
  BY <1>4, <1>5, <1>6

(* Writing the beginning of t over old, and then what comes next.          *)
LEMMA OverlayMore ==
  ASSUME NEW old \in Seq(Byte), NEW t \in Seq(Byte), NEW f \in Nat,
         NEW b \in Seq(Byte), f + Len(b) <= Len(t),
         \A i \in 1 .. Len(b) : b[i] = t[f + i]
  PROVE  Overlay(Overlay(old, 0, Front(t, f)), f, b)
           = Overlay(old, 0, Front(t, f + Len(b)))
<1> DEFINE n == Len(b)
           a == Front(t, f)
           o == Overlay(old, 0, a)
           w == Front(t, f + n)
<1>1. Len(old) \in Nat /\ Len(t) \in Nat /\ n \in Nat
  BY LenProperties
<1>2. /\ a \in Seq(Byte) /\ Len(a) = f /\ \A i \in 1 .. f : a[i] = t[i]
  <2>1. f \in 0 .. Len(t)
    BY <1>1
  <2> QED
    BY <2>1, CutInTwo
<1>3. /\ w \in Seq(Byte) /\ Len(w) = f + n /\ \A i \in 1 .. f + n : w[i] = t[i]
  <2>1. f + n \in 0 .. Len(t)
    BY <1>1
  <2> QED
    BY <2>1, CutInTwo
<1> HIDE DEF a, w
<1>4. 0 \in 0 .. Len(old)
  BY <1>1
<1>5. /\ o \in Seq(Byte)
      /\ Len(o) = IF f > Len(old) THEN f ELSE Len(old)
      /\ \A i \in 1 .. Len(o) : o[i] = IF i \in 1 .. f THEN a[i] ELSE old[i]
  <2>1. /\ o \in Seq(Byte)
        /\ Len(o) = IF 0 + Len(a) > Len(old) THEN 0 + Len(a) ELSE Len(old)
        /\ \A i \in 1 .. Len(o) :
             o[i] = IF i \in 0 + 1 .. 0 + Len(a) THEN a[i - 0] ELSE old[i]
    BY <1>2, <1>4, OverlayIs
  <2>2. 0 + Len(a) = f /\ 0 + 1 = 1 /\ \A i \in 1 .. Len(o) : i - 0 = i
    BY <1>2
  <2> QED
    BY <2>1, <2>2
<1>6. LET x == Overlay(old, 0, w)
      IN  /\ x \in Seq(Byte)
          /\ Len(x) = IF f + n > Len(old) THEN f + n ELSE Len(old)
          /\ \A i \in 1 .. Len(x) : x[i] = IF i \in 1 .. f + n THEN w[i] ELSE old[i]
  <2> DEFINE x == Overlay(old, 0, w)
  <2>1. /\ x \in Seq(Byte)
        /\ Len(x) = IF 0 + Len(w) > Len(old) THEN 0 + Len(w) ELSE Len(old)
        /\ \A i \in 1 .. Len(x) :
             x[i] = IF i \in 0 + 1 .. 0 + Len(w) THEN w[i - 0] ELSE old[i]
    BY <1>3, <1>4, OverlayIs
  <2>2. /\ 0 + Len(w) = f + n /\ 0 + 1 = 1
        /\ \A i \in 1 .. Len(x) : i - 0 = i
    BY <1>1, <1>3
  <2> HIDE DEF x
  <2>3. /\ x \in Seq(Byte)
        /\ Len(x) = IF f + n > Len(old) THEN f + n ELSE Len(old)
        /\ \A i \in 1 .. Len(x) : x[i] = IF i \in 1 .. f + n THEN w[i] ELSE old[i]
    BY <2>1, <2>2
  <2> QED
    BY <2>3 DEF x
<1> HIDE DEF o
<1>7. LET y == Overlay(o, f, b)
      IN  /\ y \in Seq(Byte)
          /\ Len(y) = IF f + n > Len(o) THEN f + n ELSE Len(o)
          /\ \A i \in 1 .. Len(y) :
               y[i] = IF i \in f + 1 .. f + n THEN b[i - f] ELSE o[i]
  <2>1. f \in 0 .. Len(o)
    BY <1>1, <1>5
  <2> QED
    BY <1>5, <2>1, OverlayIs
<1> DEFINE x == Overlay(old, 0, w)
           y == Overlay(o, f, b)
<1> HIDE DEF n
<1>8. Len(x) = Len(y) /\ x \in Seq(Byte) /\ y \in Seq(Byte)
  BY <1>1, <1>5, <1>6, <1>7
<1>9. ASSUME NEW i \in 1 .. Len(x) PROVE y[i] = x[i]
  <2>0. /\ x[i] = (IF i \in 1 .. f + n THEN w[i] ELSE old[i])
        /\ y[i] = (IF i \in f + 1 .. f + n THEN b[i - f] ELSE o[i])
    BY <1>6, <1>7, <1>8
  <2>1. CASE i \in 1 .. f
    <3>1. i \in 1 .. f + n /\ i \notin f + 1 .. f + n /\ i \in 1 .. Len(o)
      BY <1>1, <1>5, <2>1
    <3> QED
      BY <1>2, <1>3, <1>5, <2>0, <2>1, <3>1
  <2>2. CASE i \in f + 1 .. f + n
    <3>1. i \in 1 .. f + n /\ i - f \in 1 .. n /\ f + (i - f) = i
      BY <1>1, <2>2
    <3>2. b[i - f] = t[i]
      BY <3>1 DEF n
    <3> QED
      BY <1>3, <2>0, <2>2, <3>1, <3>2
  <2>3. CASE i \notin 1 .. f /\ i \notin f + 1 .. f + n
    <3>1. i \notin 1 .. f + n /\ i \in 1 .. Len(o)
      BY <1>1, <1>5, <1>6, <2>3
    <3> QED
      BY <1>5, <2>0, <2>3, <3>1
  <2> QED
    BY <2>1, <2>2, <2>3
<1> QED
  BY <1>8, <1>9, SeqEqual DEF a, o, w, n

LEMMA OverlayNothing ==
  ASSUME NEW old \in Seq(Byte), NEW e \in Seq(Byte)
  PROVE  Len(e) = 0 => Overlay(old, 0, e) = old
<1> DEFINE o == Overlay(old, 0, e)
<1>1. Len(old) \in Nat /\ 0 \in 0 .. Len(old)
  BY LenProperties
<1>2. /\ o \in Seq(Byte)
      /\ Len(o) = IF 0 + Len(e) > Len(old) THEN 0 + Len(e) ELSE Len(old)
      /\ \A i \in 1 .. Len(o) :
           o[i] = IF i \in 0 + 1 .. 0 + Len(e) THEN e[i - 0] ELSE old[i]
  BY <1>1, OverlayIs
<1> HIDE DEF o
<1>3. SUFFICES ASSUME Len(e) = 0 PROVE o = old
  BY DEF o
<1>4. /\ Len(o) = Len(old)
      /\ \A i : i \notin 0 + 1 .. 0 + Len(e)
  BY <1>1, <1>2, <1>3
<1> QED
  BY <1>2, <1>4, SeqEqual

LEMMA OpenTargetKeeps == IInv /\ OpenTarget => IInv'
<1> SUFFICES ASSUME IInv, OpenTarget PROVE IInv'
  OBVIOUS
<1> DEFINE name == Front(buff, Len(buff) - 1)
           old == IF name \in DOMAIN disk THEN disk[name] ELSE <<>>
<1>1. /\ spc = "chop" /\ spc' = "read"
      /\ name # <<>> /\ target' = name /\ foff' = 0 /\ before' = old
      /\ disk' = [n \in DOMAIN disk \cup {name} |-> IF n = name THEN before' ELSE disk[n]]
      /\ UNCHANGED <<clientVars, net, conn, buff, received>>
  BY DEF OpenTarget, Front
<1>2. FileTransferTypeOK /\ Turn /\ conn \in Client /\ OnWay(conn)
  BY DEF IInv, FileTransferTypeOK
<1>3. /\ buff \in Seq(Byte) /\ Len(buff) \in Nat
      /\ Join(net[conn], left[conn]) \in Seq(Byte)
      /\ Told(conn) \in Nat
  BY <1>2, StateTypes, LenProperties
<1>4. /\ name \in Seq(Byte) /\ Len(name) = Len(buff) - 1
      /\ Len(buff) > 0
  <2>1. Len(buff) > 0
    <3>1. SUFFICES ASSUME Len(buff) = 0 PROVE FALSE
      BY <1>3
    <3>2. Front(buff, -1) = <<>>
      BY SubSeqEmpty DEF Front
    <3>3. Len(buff) - 1 = -1
      BY <3>1
    <3> QED
      BY <1>1, <3>2, <3>3
  <2>2. Len(buff) - 1 \in 0 .. Len(buff)
    BY <1>3, <2>1
  <2> QED
    BY <1>3, <2>1, <2>2, CutInTwo
<1>5. old \in Seq(Byte)
  BY <1>2, EmptySeq DEF FileTransferTypeOK
<1>6. /\ name \in DOMAIN disk' /\ disk'[name] = old
      /\ \A n \in DOMAIN disk' : disk'[n] \in Seq(Byte)
  <2>1. DOMAIN disk' = DOMAIN disk \cup {name}
    BY <1>1
  <2>2. \A n \in DOMAIN disk' : disk'[n] = IF n = name THEN old ELSE disk[n]
    BY <1>1, <2>1
  <2> HIDE DEF name, old
  <2> QED
    BY <1>2, <1>5, <2>1, <2>2 DEF FileTransferTypeOK
<1>7. cpc[conn] # "failed" /\ Fits(conn) => name = NameOf[conn]
  BY <1>1, LineIsName
<1> HIDE DEF name, old
<1>8. FileTransferTypeOK'
  BY <1>1, <1>2, <1>4, <1>5, <1>6 DEF FileTransferTypeOK, clientVars
<1>9. Turn' /\ LineRead' /\ NameIsWhole'
  BY <1>1, <1>2, <1>7 DEF Turn, LineRead, NameIsWhole, Serving, Fits, clientVars
<1>10. Written'
  <2>1. 0 <= Len(old)
    BY <1>5, LenProperties
  <2>2. Overlay(old, 0, SubSeq(Text(conn), 1, 0)) = old
    <3>1. SubSeq(Text(conn), 1, 0) = <<>>
      BY SubSeqEmpty
    <3>2. <<>> \in Seq(Byte) /\ Len(<<>>) = 0
      BY EmptySeq
    <3> QED
      BY <1>5, <3>1, <3>2, OverlayNothing
  <2>3. /\ target' \in DOMAIN disk' /\ foff' <= Len(disk'[target'])
        /\ disk'[target'] = Overlay(before', 0, SubSeq(Text(conn), 1, foff'))
    BY <1>1, <1>6, <2>1, <2>2
  <2> QED
    BY <1>1, <2>3 DEF Written
<1>11. OnWay(conn)'
  <2> DEFINE w == Join(buff, Join(net[conn], left[conn]))
  <2>1. /\ Hold(conn) = buff /\ Done(conn) = 0 /\ Way(conn) = w
        /\ Hold(conn)' = <<>> /\ Done(conn)' = Len(Line(conn)) + 0
        /\ Told(conn)' = Told(conn)
    BY <1>1 DEF Hold, Done, Serving, Way, Told, clientVars
  <2>2. SUFFICES ASSUME name = NameOf[conn], Tracked(conn)
                 PROVE  /\ Continues(Way(conn)', Len(Line(conn)), Told(conn), All(conn))
                        /\ cpc[conn] # "failed" =>
                             Len(Line(conn)) + Len(Way(conn)') = Told(conn)
    <3>1. Len(Line(conn)) + 0 = Len(Line(conn))
      BY <1>2, LineThenFile, LenProperties
    <3>2. Tracked(conn)' => Tracked(conn) /\ name = NameOf[conn]
      BY <1>1 DEF Tracked, Serving
    <3> QED
      BY <1>1, <2>1, <3>1, <3>2 DEF OnWay, clientVars
  <2>3. Len(buff) = Len(Line(conn))
    BY <1>2, <1>3, <1>4, <2>2, LineThenFile
  <2>4. Way(conn)' = Drop(w, Len(buff))
    <3>1. Drop(w, Len(buff)) = Join(net[conn], left[conn])
      BY <1>3, DropAll
    <3>2. Join(<<>>, Join(net[conn], left[conn])) = Join(net[conn], left[conn])
      BY <1>3, ByteLaws
    <3> QED
      BY <1>1, <2>1, <3>1, <3>2 DEF Way, clientVars
  <2>5. /\ w \in Seq(Byte) /\ Len(w) = Len(buff) + Len(Join(net[conn], left[conn]))
        /\ Len(Join(net[conn], left[conn])) \in Nat
    BY <1>3, ByteLaws, LenProperties
  <2>6. /\ Continues(w, 0, Told(conn), All(conn))
        /\ cpc[conn] # "failed" => 0 + Len(w) = Told(conn)
    BY <1>2, <2>1, <2>2 DEF OnWay
  <2> HIDE DEF w
  <2>7. Len(buff) \in 0 .. Len(w) /\ Len(w) \in Nat /\ 0 + Len(buff) = Len(buff)
    BY <1>3, <2>5
  <2>8. Len(Drop(w, Len(buff))) = Len(w) - Len(buff)
    BY <2>5, <2>7, CutInTwo
  <2>9. Continues(Drop(w, Len(buff)), 0 + Len(buff), Told(conn), All(conn))
    <3>1. 0 \in Nat
      OBVIOUS
    <3> QED
      BY <1>3, <2>5, <2>6, <2>7, <3>1, ContinuesWithout
  <2> QED
    BY <1>3, <2>3, <2>4, <2>6, <2>7, <2>8, <2>9
<1> QED
  BY <1>1, <1>8, <1>9, <1>10, <1>11, ServerMoves

LEMMA ReadBlockKeeps == IInv /\ ReadBlock => IInv'
<1> SUFFICES ASSUME IInv, ReadBlock PROVE IInv'
  OBVIOUS
<1>1. FileTransferTypeOK /\ Turn /\ conn \in Client /\ OnWay(conn) /\ Written
      /\ NameIsWhole
  BY DEF IInv, FileTransferTypeOK
<1>2. /\ spc = "read" /\ spc' = "write"
      /\ UNCHANGED <<clientVars, conn, target, foff, disk, before, received>>
  BY DEF ReadBlock
<1>3. /\ net[conn] \in Seq(Byte) /\ left[conn] \in Seq(Byte)
      /\ Len(net[conn]) \in Nat /\ Len(net[conn]) <= Window
  BY <1>1, StateTypes, LenProperties DEF FileTransferTypeOK
<1>4. PICK n \in 0 .. Len(net[conn]) :
        /\ net' = [net EXCEPT ![conn] = Drop(net[conn], n)]
        /\ buff' = Front(net[conn], n) /\ n <= BUFFERSIZE
  <2>1. PICK n \in 1 .. Least(Len(net[conn]), BUFFERSIZE) :
          /\ net' = [net EXCEPT ![conn] = Drop(net[conn], n)]
          /\ buff' = Front(net[conn], n)
    BY <1>1 DEF ReadBlock, Took, Front, FileTransferTypeOK
  <2>2. n \in 0 .. Len(net[conn]) /\ n <= BUFFERSIZE
    BY <1>3, Constants DEF Least
  <2> QED
    BY <2>1, <2>2
<1>5. /\ Front(net[conn], n) \in Seq(Byte) /\ Len(Front(net[conn], n)) = n
      /\ Drop(net[conn], n) \in Seq(Byte)
      /\ Len(Drop(net[conn], n)) = Len(net[conn]) - n
      /\ Join(Front(net[conn], n), Drop(net[conn], n)) = net[conn]
  BY <1>3, CutInTwo
<1>6. net'[conn] = Drop(net[conn], n)
  BY <1>1, <1>4 DEF FileTransferTypeOK
<1>7. FileTransferTypeOK'
  <2>1. \A c \in Client : Len(net'[c]) <= Window
    BY <1>1, <1>3, <1>4, <1>5, <1>6, Constants DEF FileTransferTypeOK
  <2>2. net' \in [Client -> Seq(Byte)]
    BY <1>1, <1>4, <1>5 DEF FileTransferTypeOK
  <2>3. buff' \in Seq(Byte) /\ Len(buff') <= BUFFERSIZE
    BY <1>4, <1>5
  <2> QED
    BY <1>1, <1>2, <2>1, <2>2, <2>3 DEF FileTransferTypeOK, clientVars
<1>8. OnWay(conn)'
  <2>1. Hold(conn) = <<>> /\ Hold(conn)' = Front(net[conn], n)
    BY <1>2, <1>4 DEF Hold
  <2>2. Join(<<>>, Join(net[conn], left[conn]))
          = Join(Front(net[conn], n), Join(Drop(net[conn], n), left[conn]))
    <3> DEFINE a == Front(net[conn], n)
               b == Drop(net[conn], n)
    <3>1. net[conn] = Join(a, b) /\ a \in Seq(Byte) /\ b \in Seq(Byte)
      BY <1>5
    <3> HIDE DEF a, b
    <3>2. Join(<<>>, Join(net[conn], left[conn])) = Join(net[conn], left[conn])
      <4>1. Join(net[conn], left[conn]) \in Seq(Byte)
        BY <1>3, ByteLaws
      <4> QED
        BY <4>1, ByteLaws
    <3>3. Join(Join(a, b), left[conn]) = Join(a, Join(b, left[conn]))
      BY <1>3, <3>1, ByteLaws, Zenon
    <3>4. Join(<<>>, Join(net[conn], left[conn])) = Join(a, Join(b, left[conn]))
      BY <3>1, <3>2, <3>3, Zenon
    <3> QED
      BY <3>4 DEF a, b
  <2>3. Way(conn)' = Way(conn)
    BY <1>2, <1>6, <2>1, <2>2 DEF Way, clientVars
  <2>4. Told(conn)' = Told(conn) /\ Done(conn)' = Done(conn)
    BY <1>2 DEF Told, Done, Serving, clientVars
  <2>5. Tracked(conn)' => Tracked(conn)
    BY <1>2 DEF Tracked, Serving
  <2> QED
    BY <1>1, <1>2, <2>3, <2>4, <2>5 DEF OnWay, clientVars
<1>9. Turn' /\ LineRead' /\ Written' /\ NameIsWhole'
  BY <1>1, <1>2 DEF Turn, LineRead, Written, NameIsWhole, Serving, clientVars
<1>10. \A d \in Client \ {conn} : net'[d] = net[d]
  BY <1>1, <1>4 DEF FileTransferTypeOK
<1> QED
  BY <1>2, <1>7, <1>8, <1>9, <1>10, ServerMoves

LEMMA ReceivedKeeps == IInv /\ Received => IInv'
<1> SUFFICES ASSUME IInv, Received PROVE IInv'
  OBVIOUS
<1>1. /\ spc = "read" /\ spc' = "accept" /\ received' = received \cup {conn}
      /\ UNCHANGED <<clientVars, net, conn, buff, target, foff, disk, before>>
  BY DEF Received
<1>2. FileTransferTypeOK /\ conn \in Client
  BY DEF IInv, FileTransferTypeOK
<1>3. FileTransferTypeOK'
  BY <1>1, <1>2 DEF FileTransferTypeOK, clientVars
<1>4. OnWay(conn)'
  BY <1>1 DEF OnWay, Tracked
<1>5. Turn' /\ LineRead' /\ Written' /\ NameIsWhole'
  BY <1>1 DEF Turn, LineRead, Written, NameIsWhole, Serving
<1> QED
  BY <1>1, <1>3, <1>4, <1>5, ServerMoves

LEMMA WriteBlockKeeps == IInv /\ WriteBlock => IInv'
<1> SUFFICES ASSUME IInv, WriteBlock PROVE IInv'
  OBVIOUS
<1> DEFINE rest == Join(net[conn], left[conn])
           w == Join(buff, rest)
           t == Text(conn)
           l == Len(Line(conn))
<1>1. /\ FileTransferTypeOK /\ Turn /\ conn \in Client /\ OnWay(conn) /\ Written
      /\ NameIsWhole
  BY DEF IInv, FileTransferTypeOK
<1>2. /\ spc = "write" /\ spc' = IF buff' = <<>> THEN "read" ELSE "write"
      /\ UNCHANGED <<clientVars, net, conn, target, before, received>>
  BY DEF WriteBlock
<1>3. /\ buff \in Seq(Byte) /\ Len(buff) \in Nat /\ rest \in Seq(Byte)
      /\ t \in Seq(Byte) /\ Len(t) \in Nat /\ before \in Seq(Byte)
      /\ foff \in Nat /\ pos[conn] \in Nat /\ pos[conn] <= Len(t)
      /\ Told(conn) \in Nat /\ l \in Nat
  <2>1. l \in Nat
    BY <1>1, LineThenFile, LenProperties
  <2> QED
    BY <1>1, <2>1, StateTypes, Constants, LenProperties DEF FileTransferTypeOK
<1>4. target \in DOMAIN disk /\ disk[target] \in Seq(Byte)
      /\ foff \in 0 .. Len(disk[target]) /\ Len(disk[target]) \in Nat
  <2>1. target \in DOMAIN disk /\ foff <= Len(disk[target])
    BY <1>1, <1>2 DEF Written, Serving
  <2>2. disk[target] \in Seq(Byte)
    BY <1>1, <2>1 DEF FileTransferTypeOK
  <2> QED
    BY <1>3, <2>1, <2>2, LenProperties
<1>5. PICK n \in 0 .. Len(buff) :
        /\ disk' = [disk EXCEPT ![target] =
                      Overlay(disk[target], foff, Front(buff, n))]
        /\ foff' = foff + n /\ buff' = Drop(buff, n)
  <2>1. PICK n \in 1 .. Len(buff) :
          /\ disk' = [disk EXCEPT ![target] =
                        Overlay(disk[target], foff, Front(buff, n))]
          /\ foff' = foff + n /\ buff' = Drop(buff, n)
    BY DEF WriteBlock, Front
  <2>2. n \in 0 .. Len(buff)
    BY <1>3
  <2> QED
    BY <2>1, <2>2
<1> DEFINE b == Front(buff, n)
           d == Drop(buff, n)
<1>6. /\ b \in Seq(Byte) /\ Len(b) = n /\ \A i \in 1 .. n : b[i] = buff[i]
      /\ d \in Seq(Byte) /\ Len(d) = Len(buff) - n
  BY <1>3, CutInTwo
<1> HIDE DEF b, d
<1>7. /\ Overlay(disk[target], foff, b) \in Seq(Byte)
      /\ foff + n <= Len(Overlay(disk[target], foff, b))
  BY <1>3, <1>4, <1>6, OverlayIs
<1>8. /\ DOMAIN disk' = DOMAIN disk
      /\ disk'[target] = Overlay(disk[target], foff, b)
      /\ \A x \in DOMAIN disk : disk'[x] \in Seq(Byte)
  <2>1. disk' = [disk EXCEPT ![target] = Overlay(disk[target], foff, b)]
    BY <1>5 DEF b
  <2>2. \A x \in DOMAIN disk : disk[x] \in Seq(Byte)
    BY <1>1 DEF FileTransferTypeOK
  <2>3. \A x \in DOMAIN disk :
          disk'[x] = IF x = target THEN Overlay(disk[target], foff, b) ELSE disk[x]
    BY <2>1
  <2> QED
    BY <1>4, <1>7, <2>1, <2>2, <2>3
<1>9. FileTransferTypeOK'
  <2>1. buff' \in Seq(Byte) /\ Len(buff') <= BUFFERSIZE
    BY <1>1, <1>3, <1>5, <1>6, Constants DEF FileTransferTypeOK, d
  <2>2. foff' \in Nat /\ spc' \in {"read", "write"}
    BY <1>2, <1>3, <1>5
  <2> QED
    BY <1>1, <1>2, <1>8, <2>1, <2>2 DEF FileTransferTypeOK, clientVars
<1>10. /\ Hold(conn) = buff /\ Done(conn) = l + foff /\ Way(conn) = w
       /\ Told(conn)' = Told(conn) /\ Told(conn) = l + pos[conn]
       /\ Done(conn)' = l + foff + n /\ (Tracked(conn)' <=> Tracked(conn))
       /\ Way(conn)' = Join(d, rest)
  <2>1. cpc[conn] # "connect"
    BY <1>1, <1>2 DEF Turn
  <2>2. spc' \in {"read", "write"} /\ l + (foff + n) = l + foff + n
    BY <1>2, <1>3
  <2>3. Hold(conn)' = d
    BY <1>2, <1>5 DEF Hold, d
  <2>4. Done(conn)' = l + (foff + n) /\ (Tracked(conn)' <=> Tracked(conn))
    BY <1>2, <1>5, <2>2 DEF Done, Tracked, Serving
  <2>5. Hold(conn) = buff /\ Done(conn) = l + foff
    BY <1>2 DEF Hold, Done, Serving
  <2>6. Told(conn)' = Told(conn) /\ Told(conn) = l + pos[conn]
    BY <1>2, <2>1 DEF Told, clientVars
  <2>7. Way(conn) = w /\ Way(conn)' = Join(d, rest)
    BY <1>2, <2>3, <2>5 DEF Way, clientVars
  <2> QED
    BY <2>2, <2>4, <2>5, <2>6, <2>7
<1>11. w \in Seq(Byte) /\ Len(w) = Len(buff) + Len(rest) /\ Len(rest) \in Nat
  BY <1>3, ByteLaws, LenProperties
<1>12. Join(d, rest) = Drop(w, n)
  BY <1>3, DropJoin DEF d
<1>13. Tracked(conn) => /\ Continues(w, l + foff, Told(conn), All(conn))
                        /\ cpc[conn] # "failed" => l + foff + Len(w) = Told(conn)
  BY <1>1, <1>10 DEF OnWay
<1>14. OnWay(conn)'
  <2>1. SUFFICES ASSUME Tracked(conn)
                 PROVE  /\ Continues(Join(d, rest), l + foff + n, Told(conn), All(conn))
                        /\ cpc[conn] # "failed" =>
                             l + foff + n + Len(Join(d, rest)) = Told(conn)
    BY <1>2, <1>10 DEF OnWay, clientVars
  <2> HIDE DEF w, rest, l
  <2>2. n \in 0 .. Len(w) /\ l + foff \in Nat /\ Len(w) \in Nat
    BY <1>3, <1>11
  <2>3. Continues(Drop(w, n), l + foff + n, Told(conn), All(conn))
    BY <1>3, <1>11, <1>13, <2>1, <2>2, ContinuesWithout
  <2>4. Len(Drop(w, n)) = Len(w) - n
    BY <1>11, <2>2, CutInTwo
  <2> QED
    BY <1>3, <1>12, <1>13, <2>1, <2>2, <2>3, <2>4
<1>15. Written'
  <2>1. ASSUME target = NameOf[conn]
        PROVE  Overlay(disk[target], foff, b) = Overlay(before, 0, Front(t, foff + n))
    <3>1. Tracked(conn)
      BY <1>1, <1>2, <2>1 DEF Tracked, Turn
    <3>2. Continues(buff, l + foff, Told(conn), All(conn))
      <4>1. l + foff \in Nat
        BY <1>3
      <4> HIDE DEF rest, l
      <4> QED
        BY <1>3, <1>13, <3>1, <4>1, ContinuesShort
    <3>3. foff + Len(buff) <= Len(t)
      BY <1>3, <1>10, <3>2 DEF Continues
    <3>4. \A i \in 1 .. Len(b) : b[i] = t[foff + i]
      <4> TAKE i \in 1 .. Len(b)
      <4>1. i \in 1 .. Len(buff) /\ foff + i \in 1 .. Len(t)
        BY <1>3, <1>6, <3>3
      <4>2. buff[i] = All(conn)[l + foff + i]
        BY <3>2, <4>1 DEF Continues
      <4>3. All(conn)[l + (foff + i)] = t[foff + i]
        BY <1>1, <4>1, LineThenFile
      <4>4. l + (foff + i) = l + foff + i
        BY <1>3, <4>1
      <4> QED
        BY <1>6, <4>2, <4>3, <4>4
    <3>5. foff + Len(b) <= Len(t)
      BY <1>3, <1>6, <3>3
    <3>6. Overlay(Overlay(before, 0, Front(t, foff)), foff, b)
            = Overlay(before, 0, Front(t, foff + Len(b)))
      <4>1. /\ t \in Seq(Byte) /\ before \in Seq(Byte) /\ foff \in Nat
            /\ b \in Seq(Byte)
        BY <1>3, <1>6
      <4> HIDE DEF t
      <4> QED
        BY <4>1, <3>4, <3>5, OverlayMore
    <3>7. disk[target] = Overlay(before, 0, Front(t, foff))
      BY <1>1, <1>2, <2>1 DEF Written, Serving, Front
    <3> QED
      BY <1>6, <3>6, <3>7
  <2>2. foff' <= Len(disk'[target])
    BY <1>5, <1>7, <1>8
  <2> QED
    BY <1>2, <1>4, <1>5, <1>8, <2>1, <2>2 DEF Written, Front
<1>16. Turn' /\ LineRead' /\ NameIsWhole'
  BY <1>1, <1>2 DEF Turn, LineRead, NameIsWhole, Serving, Fits, clientVars
<1> QED
  BY <1>2, <1>9, <1>14, <1>15, <1>16, ServerMoves
-----------------------------------------------------------------------------
LEMMA NextInvariant == IInv /\ [Next]_vars => IInv'
<1> SUFFICES ASSUME IInv, [Next]_vars PROVE IInv'
  OBVIOUS
<1>1. ASSUME Server PROVE IInv'
  BY <1>1, AcceptKeeps, ReadlineKeeps, ReadlineEofKeeps, OpenTargetKeeps,
     GoneKeeps, ReadBlockKeeps, WriteBlockKeeps, ReceivedKeeps DEF Server
<1>2. ASSUME NEW c \in Client, ClientStep(c) \/ Die(c) PROVE IInv'
  BY <1>2, ConnectKeeps, WriteKeeps, WriteFailsKeeps, OpenKeeps, ReadKeeps,
     DieKeeps DEF ClientStep
<1>3. ASSUME UNCHANGED vars PROVE IInv'
  <2>1. UNCHANGED <<cpc, left, pos, net, spc, conn, buff, target, foff, disk,
                    before, received>>
    BY <1>3 DEF vars, clientVars, serverVars
  <2> QED
    BY <2>1 DEF IInv, FileTransferTypeOK, Turn, LineRead, Written, NameIsWhole,
                Stage, OnWay, Tracked, Way, Hold, Done, Told, Serving, Closed
<1> QED
  BY <1>1, <1>2, <1>3, GoneKeeps DEF Next

THEOREM Invariance == Spec => []IInv
  BY InitInvariant, NextInvariant, PTL DEF Spec

(* NameIsWhole: the server writes the file its client named, wherever the  *)
(* connection cut the line (fileserver.c's readline and the last character *)
(* cut off), unless the client has failed or its name does not fit.        *)
THEOREM ServerTakesTheName == Spec => []NameIsWhole
<1>1. IInv => NameIsWhole
  BY DEF IInv
<1> QED
  BY <1>1, Invariance, PTL

(* NothingLostOnTheWay: the file on the server is the beginning of the     *)
(* client's over what was there, and the rest of what the client has read  *)
(* is in the server's buffer, on the connection and with writen, in order. *)
THEOREM NothingLost == Spec => []NothingLostOnTheWay
<1>1. ASSUME IInv PROVE NothingLostOnTheWay
  <2>1. /\ FileTransferTypeOK /\ Turn /\ conn \in Client /\ OnWay(conn) /\ Written
    BY <1>1 DEF IInv, FileTransferTypeOK
  <2>2. SUFFICES ASSUME Serving, target = NameOf[conn]
        PROVE  /\ foff <= pos[conn]
               /\ disk[target] = Overlay(before, 0, SubSeq(Text(conn), 1, foff))
               /\ cpc[conn] # "failed" =>
                    (IF spc = "write" THEN buff ELSE <<>>) \o net[conn] \o left[conn]
                      = SubSeq(Text(conn), foff + 1, pos[conn])
    BY <2>1 DEF NothingLostOnTheWay
  <2> DEFINE l == Len(Line(conn))
             w == Way(conn)
             t == Text(conn)
             h == Hold(conn)
  <2>3. /\ w \in Seq(Byte) /\ Len(w) \in Nat /\ l \in Nat /\ foff \in Nat
        /\ pos[conn] \in Nat /\ pos[conn] <= Len(t) /\ t \in Seq(Byte)
        /\ Len(t) \in Nat /\ h \in Seq(Byte)
        /\ net[conn] \in Seq(Byte) /\ left[conn] \in Seq(Byte)
    <3>1. l \in Nat
      BY <2>1, LineThenFile, LenProperties
    <3> QED
      BY <2>1, <3>1, StateTypes, Constants, LenProperties
  <2>4. /\ Continues(w, l + foff, l + pos[conn], All(conn))
        /\ cpc[conn] # "failed" => l + foff + Len(w) = l + pos[conn]
    <3>1. Tracked(conn) /\ Done(conn) = l + foff /\ Told(conn) = l + pos[conn]
      BY <2>1, <2>2 DEF Tracked, Turn, Serving, Done, Told
    <3> QED
      BY <2>1, <3>1 DEF OnWay
  <2>5. foff <= pos[conn]
    <3>1. l + foff + Len(w) <= l + pos[conn]
      BY <2>4 DEF Continues
    <3> HIDE DEF l, w
    <3> QED
      BY <2>3, <3>1
  <2>6. (IF spc = "write" THEN buff ELSE <<>>) \o net[conn] \o left[conn] = w
    <3>1. h = IF spc = "write" THEN buff ELSE <<>>
      BY <2>2 DEF Hold, Serving
    <3>2. Join(Join(h, net[conn]), left[conn]) = w
      <4>0. h \in Seq(Byte) /\ net[conn] \in Seq(Byte) /\ left[conn] \in Seq(Byte)
        BY <2>3
      <4> HIDE DEF h
      <4>1. Join(Join(h, net[conn]), left[conn]) = Join(h, Join(net[conn], left[conn]))
        BY <4>0, ByteLaws, Zenon
      <4> QED
        BY <4>1 DEF Way, h
    <3> QED
      BY <3>1, <3>2 DEF Join
  <2>7. ASSUME cpc[conn] # "failed"
        PROVE  w = SubSeq(t, foff + 1, pos[conn])
    <3> DEFINE n == pos[conn] - foff
    <3>1. /\ Len(w) = n /\ foff \in 0 .. Len(t) /\ n \in 0 .. Len(t) - foff
          /\ foff + n = pos[conn]
      <4> HIDE DEF l, w, t
      <4> QED
        BY <2>3, <2>4, <2>5, <2>7
    <3>2. /\ SubSeq(t, foff + 1, foff + n) \in Seq(Byte)
          /\ Len(SubSeq(t, foff + 1, foff + n)) = n
          /\ \A i \in 1 .. n : SubSeq(t, foff + 1, foff + n)[i] = t[foff + i]
      <4>1. \A p \in 0 .. Len(t) : \A k \in 0 .. Len(t) - p :
              /\ SubSeq(t, p + 1, p + k) \in Seq(Byte)
              /\ Len(SubSeq(t, p + 1, p + k)) = k
              /\ \A i \in 1 .. k : SubSeq(t, p + 1, p + k)[i] = t[p + i]
        BY <2>3, Middle
      <4> HIDE DEF n, t
      <4> QED
        BY <3>1, <4>1
    <3>3. ASSUME NEW i \in 1 .. n PROVE w[i] = t[foff + i]
      <4>1. w[i] = All(conn)[l + foff + i]
        BY <2>4, <3>1 DEF Continues
      <4>2. foff + i \in 1 .. Len(t) /\ l + (foff + i) = l + foff + i
        <5>1. foff + i \in 1 .. Len(t)
          <6> HIDE DEF t
          <6> QED
            BY <2>3, <3>1
        <5>2. l + (foff + i) = l + foff + i
          <6> HIDE DEF l
          <6> QED
            BY <2>3, <3>1
        <5> QED
          BY <5>1, <5>2
      <4>3. All(conn)[l + (foff + i)] = t[foff + i]
        BY <2>1, <4>2, LineThenFile
      <4> QED
        BY <4>1, <4>2, <4>3
    <3> DEFINE u == SubSeq(t, foff + 1, foff + n)
    <3>4. /\ u \in Seq(Byte) /\ w \in Seq(Byte) /\ Len(w) = Len(u)
          /\ \A i \in 1 .. Len(w) : w[i] = u[i]
      <4> HIDE DEF n, w, t
      <4> QED
        BY <2>3, <3>1, <3>2, <3>3
    <3> HIDE DEF n, w, t, u
    <3>5. w = u
      BY <3>4, SeqEqual
    <3> QED
      BY <3>1, <3>5 DEF u
  <2>8. disk[target] = Overlay(before, 0, SubSeq(Text(conn), 1, foff))
    BY <2>1, <2>2 DEF Written
  <2> QED
    BY <2>5, <2>6, <2>7, <2>8
<1> QED
  BY <1>1, Invariance, PTL

(* ReceivedIsSent: "file received!" after "file transferred!" means that   *)
(* the file under that name is the whole of what the client has sent, over *)
(* what was there.                                                         *)
THEOREM ReceivedWhole == Spec => ReceivedIsSent
<1> DEFINE A == \A c \in received' \ received :
                  cpc[c] = "done" /\ Fits(c) =>
                    disk[NameOf[c]] = Overlay(before, 0, FileOf[c])
<1>1. ASSUME IInv, Next PROVE A
  <2> SUFFICES ASSUME NEW c \in received' \ received, cpc[c] = "done", Fits(c)
               PROVE  disk[NameOf[c]] = Overlay(before, 0, FileOf[c])
    OBVIOUS
  <2>1. Received
    BY <1>1 DEF Next, Server, Exit, NoTarget, ClientStep, Die, Connect, Write,
                WriteFails, Open, Read, Accept, Readline, ReadlineEof,
                OpenTarget, ReadBlock, WriteBlock, serverVars
  <2>2. /\ spc = "read" /\ net[conn] = <<>> /\ c = conn
    BY <2>1 DEF Received
  <2>3. /\ FileTransferTypeOK /\ Turn /\ conn \in Client /\ OnWay(conn) /\ Written
        /\ Stage(conn) /\ NameIsWhole
    BY <1>1 DEF IInv, FileTransferTypeOK
  <2>4. target = NameOf[conn]
    BY <2>2, <2>3 DEF NameIsWhole, Serving
  <2>5. left[conn] = <<>> /\ FileOf[conn] # NoFile /\ pos[conn] = Len(Text(conn))
    BY <2>2, <2>3 DEF Stage
  <2>6. Way(conn) = <<>>
    <3>1. Join(<<>>, <<>>) = <<>>
      BY EmptySeq, ByteLaws
    <3> QED
      BY <2>2, <2>5, <3>1 DEF Way, Hold
  <2>7. foff = Len(Text(conn))
    <3>1. Tracked(conn) /\ Done(conn) = Len(Line(conn)) + foff
          /\ Told(conn) = Len(Line(conn)) + pos[conn]
      BY <2>2, <2>3, <2>4 DEF Tracked, Turn, Serving, Done, Told
    <3>2. Len(Line(conn)) + foff + Len(<<>>) = Len(Line(conn)) + pos[conn]
      BY <2>2, <2>3, <2>6, <3>1 DEF OnWay
    <3>3. Len(Line(conn)) \in Nat /\ foff \in Nat /\ pos[conn] \in Nat
      BY <2>3, LineThenFile, StateTypes, LenProperties
    <3> QED
      BY <2>5, <3>2, <3>3
  <2>8. SubSeq(Text(conn), 1, foff) = FileOf[conn]
    <3>1. Text(conn) \in Seq(Byte) /\ Text(conn) = FileOf[conn]
      BY <2>3, <2>5, Constants DEF Text
    <3> QED
      BY <2>7, <3>1, SubSeqFull
  <2>9. disk[target] = Overlay(before, 0, SubSeq(Text(conn), 1, foff))
    BY <2>2, <2>3, <2>4 DEF Written, Serving
  <2> QED
    BY <2>2, <2>4, <2>8, <2>9
<1>2. IInv /\ [Next]_vars => [A]_vars
  BY <1>1
<1> QED
  BY <1>2, Invariance, PTL DEF Spec, ReceivedIsSent
-----------------------------------------------------------------------------
(* The sending client of the receiving servers, client.c: it gives the     *)
(* socket the beginning of its file, each byte once, for every file, every *)
(* choice of the pieces and every sequence of short and failed sends.  Its *)
(* state and that of the transfer above have nothing to do with each other.*)

(* The bytes the socket took are numbered from 1 on, those left of the     *)
(* piece go on where it stopped, and the file's offset is behind them all. *)
(* Only a client that gave up (pc = "failed") may be somewhere else.       *)
SInv ==
  /\ FileClientTypeOK
  /\ \A i \in 1 .. Len(taken) : taken[i] = i
  /\ \A i \in 1 .. Len(buffer) : buffer[i] = Len(taken) + i
  /\ Len(taken) + Len(buffer) <= FileSize
  /\ pc # "failed" => offset = Len(taken) + Len(buffer)
  /\ pc # "sendn" => buffer = <<>>
  /\ pc = "end" => offset = FileSize

LEMMA SenderConstants ==
  /\ FileSize \in Nat /\ Reads \subseteq Nat \ {0}
  /\ Room \in Nat \ {0} /\ ClientFaults \in BOOLEAN
  BY FileClientAssumption

LEMMA SenderInit == ClientInit => SInv
<1> SUFFICES ASSUME ClientInit PROVE SInv
  OBVIOUS
<1>1. <<>> \in Seq(1 .. FileSize) /\ Len(<<>>) = 0
  OBVIOUS
<1> QED
  BY <1>1, SenderConstants DEF ClientInit, SInv, FileClientTypeOK

LEMMA SenderReadFile == SInv /\ ReadFile => SInv'
<1> SUFFICES ASSUME SInv, pc = "read", NEW want \in Reads,
                    buffer' = Piece(MinOf(want, FileSize - offset)),
                    size' = MinOf(want, FileSize - offset),
                    offset' = offset + MinOf(want, FileSize - offset),
                    pc' = (IF MinOf(want, FileSize - offset) = 0 THEN "end"
                                                                 ELSE "sendn"),
                    UNCHANGED <<taken, read, up>>
             PROVE  SInv'
  BY DEF ReadFile
<1> DEFINE n == MinOf(want, FileSize - offset)
<1>1. /\ offset = Len(taken) /\ offset \in 0 .. FileSize
      /\ n \in 0 .. FileSize - offset
      /\ n = 0 => offset = FileSize
  BY SenderConstants DEF SInv, FileClientTypeOK, MinOf
<1>2. /\ buffer' \in Seq(1 .. FileSize) /\ Len(buffer') = n
      /\ \A i \in 1 .. n : buffer'[i] = offset + i
  <2> HIDE DEF n
  <2>1. Piece(n) \in [1 .. n -> 1 .. FileSize] /\ n \in Nat
    BY <1>1, SenderConstants DEF Piece
  <2> QED
    <3>1. buffer' = Piece(n)
      BY DEF n
    <3>2. \A i \in 1 .. n : Piece(n)[i] = offset + i
      BY DEF Piece
    <3>3. Piece(n) \in Seq(1 .. FileSize) /\ Len(Piece(n)) = n
      BY <2>1 DEF Piece
    <3> QED
      BY <3>1, <3>2, <3>3
<1>3. n = 0 => buffer' = <<>>
  BY <1>2
<1> HIDE DEF n
<1>4. /\ size' = n /\ offset' = offset + n
      /\ pc' = (IF n = 0 THEN "end" ELSE "sendn")
  BY DEF n
<1>5. /\ FileClientTypeOK /\ UNCHANGED <<taken, read, up>>
      /\ Len(taken) \in Nat /\ taken \in Seq(1 .. FileSize)
      /\ \A i \in 1 .. Len(taken) : taken[i] = i
  BY DEF SInv, FileClientTypeOK
<1>6. FileClientTypeOK'
  <2>1. FileSize \in Nat
    BY SenderConstants
  <2>2. offset' \in 0 .. FileSize /\ size' \in 0 .. FileSize
    <3>1. offset \in 0 .. FileSize /\ n \in 0 .. FileSize - offset
      BY <1>1
    <3>2. offset + n \in 0 .. FileSize /\ n \in 0 .. FileSize
      BY <2>1, <3>1
    <3> QED
      BY <1>4, <3>2
  <2> QED
    BY <1>1, <1>2, <1>4, <1>5, <2>2 DEF FileClientTypeOK
<1>7. \A i \in 1 .. Len(buffer') : buffer'[i] = Len(taken') + i
  BY <1>1, <1>2, <1>5
<1>8. /\ Len(taken') + Len(buffer') <= FileSize
      /\ offset' = Len(taken') + Len(buffer')
  <2>1. Len(taken') = Len(taken) /\ Len(buffer') = n
    BY <1>2, <1>5
  <2> QED
    BY <1>1, <1>4, <2>1, SenderConstants
<1>9. (pc' # "sendn" => buffer' = <<>>) /\ (pc' = "end" => offset' = FileSize)
  BY <1>1, <1>3, <1>4
<1> QED
  BY <1>5, <1>6, <1>7, <1>8, <1>9 DEF SInv

LEMMA SenderSend == SInv /\ Send => SInv'
<1> SUFFICES ASSUME SInv, Send PROVE SInv'
  OBVIOUS
<1>1. PICK n \in 1 .. Len(buffer) :
        /\ taken' = taken \o SubSeq(buffer, 1, n)
        /\ buffer' = SubSeq(buffer, n + 1, Len(buffer))
  <2>1. /\ Len(buffer) \in Nat /\ Len(taken) \in Nat /\ read \in Nat
        /\ Room \in Nat
    BY SenderConstants DEF SInv, FileClientTypeOK
  <2>2. PICK n \in 1 .. MinOf(Len(buffer), Room - (Len(taken) - read)) :
          /\ taken' = taken \o SubSeq(buffer, 1, n)
          /\ buffer' = SubSeq(buffer, n + 1, Len(buffer))
    BY DEF Send
  <2>3. n \in 1 .. Len(buffer)
    BY <2>1 DEF MinOf
  <2> QED
    BY <2>2, <2>3
<1>2. /\ pc = "sendn" /\ UNCHANGED <<pc, offset, size, read, up>>
      /\ taken \in Seq(1 .. FileSize) /\ buffer \in Seq(1 .. FileSize)
  BY DEF Send, SInv, FileClientTypeOK
<1>3. /\ taken' \in Seq(1 .. FileSize) /\ Len(taken') = Len(taken) + n
      /\ \A i \in 1 .. Len(taken) : taken'[i] = taken[i]
      /\ \A i \in Len(taken) + 1 .. Len(taken) + n :
           taken'[i] = buffer[i - Len(taken)]
      /\ buffer' \in Seq(1 .. FileSize) /\ Len(buffer') = Len(buffer) - n
      /\ \A i \in 1 .. Len(buffer) - n : buffer'[i] = buffer[n + i]
  <2> DEFINE p == SubSeq(buffer, 1, n)
             q == SubSeq(buffer, n + 1, Len(buffer))
             t == taken \o p
  <2>0. n \in 0 .. Len(buffer) /\ Len(buffer) \in Nat /\ Len(taken) \in Nat
    BY <1>2
  <2>1. /\ p \in Seq(1 .. FileSize) /\ Len(p) = n
        /\ \A i \in 1 .. n : p[i] = buffer[i]
    BY <1>2, <2>0, CutInTwo DEF Front, Drop
  <2>2. /\ q \in Seq(1 .. FileSize) /\ Len(q) = Len(buffer) - n
        /\ \A i \in 1 .. Len(buffer) - n : q[i] = buffer[n + i]
    BY <1>2, <2>0, CutInTwo DEF Front, Drop
  <2>3. /\ t \in Seq(1 .. FileSize) /\ Len(t) = Len(taken) + n
        /\ \A i \in 1 .. Len(taken) : t[i] = taken[i]
        /\ \A i \in Len(taken) + 1 .. Len(taken) + n : t[i] = p[i - Len(taken)]
    BY <1>2, <2>1, ConcatProperties
  <2>4. \A i \in Len(taken) + 1 .. Len(taken) + n : t[i] = buffer[i - Len(taken)]
    BY <2>0, <2>1, <2>3
  <2>5. taken' = t /\ buffer' = q
    BY <1>1
  <2> HIDE DEF t, q
  <2> QED
    BY <2>2, <2>3, <2>4, <2>5
<1>4. Len(taken) \in Nat /\ Len(buffer) \in Nat
  BY <1>2
<1>5. \A i \in 1 .. Len(taken') : taken'[i] = i
  <2> SUFFICES ASSUME NEW i \in 1 .. Len(taken') PROVE taken'[i] = i
    OBVIOUS
  <2>1. CASE i \in 1 .. Len(taken)
    BY <1>3, <2>1 DEF SInv
  <2>2. CASE i \in Len(taken) + 1 .. Len(taken) + n
    <3>1. i - Len(taken) \in 1 .. Len(buffer)
      BY <1>4, <2>2
    <3>2. buffer[i - Len(taken)] = Len(taken) + (i - Len(taken))
      BY <3>1 DEF SInv
    <3> QED
      BY <1>3, <1>4, <2>2, <3>2
  <2> QED
    BY <1>3, <1>4, <2>1, <2>2
<1>6. \A i \in 1 .. Len(buffer') : buffer'[i] = Len(taken') + i
  BY <1>3, <1>4 DEF SInv
<1>7. FileClientTypeOK'
  <2>1. /\ FileClientTypeOK /\ Len(taken) + Len(buffer) <= FileSize
        /\ UNCHANGED <<pc, offset, size, read, up>>
    BY <1>2 DEF SInv
  <2>2. /\ n \in 1 .. Len(buffer) /\ size \in Nat /\ Len(buffer) <= size
        /\ read \in 0 .. Len(taken)
    BY <2>1, SenderConstants DEF FileClientTypeOK
  <2>3. /\ Len(buffer') <= size /\ Len(taken') <= FileSize
        /\ read \in 0 .. Len(taken')
    BY <1>3, <1>4, <2>1, <2>2, SenderConstants
  <2> QED
    BY <1>3, <2>1, <2>2, <2>3 DEF FileClientTypeOK
<1> QED
  BY <1>2, <1>3, <1>4, <1>5, <1>6, <1>7 DEF SInv

LEMMA SenderSendFails == SInv /\ SendFails => SInv'
<1> SUFFICES ASSUME SInv, SendFails PROVE SInv'
  OBVIOUS
<1>1. /\ pc = "sendn" /\ buffer' = <<>> /\ UNCHANGED <<size, taken, read, up>>
      /\ \/ pc' \in {"failed", "read"} /\ offset' = offset - Len(buffer)
         \/ pc' = "failed" /\ offset' = offset
  BY DEF SendFails, nleft
<1>2. /\ Len(taken) \in Nat /\ Len(buffer) \in Nat
      /\ offset = Len(taken) + Len(buffer) /\ offset \in 0 .. FileSize
  BY <1>1 DEF SInv, FileClientTypeOK
<1>3. buffer' \in Seq(1 .. FileSize) /\ Len(buffer') = 0
  BY <1>1
<1> QED
  BY <1>1, <1>2, <1>3, SenderConstants DEF SInv, FileClientTypeOK

LEMMA SenderNext == SInv /\ [ClientNext]_senderVars => SInv'
<1> SUFFICES ASSUME SInv, [ClientNext]_senderVars PROVE SInv'
  OBVIOUS
<1>1. CASE Welcome \/ ReadFails
  BY <1>1 DEF Welcome, ReadFails, SInv, FileClientTypeOK
<1>2. CASE Sent
  BY <1>2 DEF Sent, SInv, FileClientTypeOK
<1>3. CASE PeerReads
  BY <1>3 DEF PeerReads, SInv, FileClientTypeOK
<1>4. CASE PeerLeaves
  BY <1>4 DEF PeerLeaves, SInv, FileClientTypeOK
<1>5. CASE UNCHANGED senderVars
  BY <1>5 DEF senderVars, SInv, FileClientTypeOK
<1> QED
  BY <1>1, <1>2, <1>3, <1>4, <1>5, SenderReadFile, SenderSend, SenderSendFails
  DEF ClientNext, Main

(* client.c:26, 92: whatever the sends did, the socket has taken the       *)
(* beginning of the file once, and the client that ends well all of it.    *)
THEOREM ClientSendsPrefix == ClientSpec => []SocketHasPrefix
<1>1. SInv => SocketHasPrefix
  <2> SUFFICES ASSUME SInv PROVE SocketHasPrefix
    OBVIOUS
  <2>1. /\ taken \in Seq(1 .. FileSize) /\ Len(taken) \in Nat
        /\ buffer \in Seq(1 .. FileSize) /\ Len(buffer) \in Nat
    BY DEF SInv, FileClientTypeOK
  <2>2. taken = [i \in 1 .. Len(taken) |-> i]
    BY <2>1 DEF SInv
  <2>3. ASSUME pc # "failed"
        PROVE  taken \o buffer = [i \in 1 .. offset |-> i]
    <3> DEFINE s == taken \o buffer
    <3>1. /\ s \in Seq(1 .. FileSize) /\ Len(s) = Len(taken) + Len(buffer)
          /\ \A i \in 1 .. Len(taken) : s[i] = taken[i]
          /\ \A i \in Len(taken) + 1 .. Len(taken) + Len(buffer) :
               s[i] = buffer[i - Len(taken)]
      BY <2>1, ConcatProperties
    <3>2. Len(s) = offset
      BY <2>3, <3>1 DEF SInv
    <3> HIDE DEF s
    <3>3. \A i \in 1 .. offset : s[i] = i
      <4>1. /\ \A i \in 1 .. Len(taken) : taken[i] = i
            /\ \A i \in 1 .. Len(buffer) : buffer[i] = Len(taken) + i
            /\ offset = Len(taken) + Len(buffer)
        BY <2>3 DEF SInv
      <4> SUFFICES ASSUME NEW i \in 1 .. offset PROVE s[i] = i
        OBVIOUS
      <4>2. CASE i \in 1 .. Len(taken)
        BY <3>1, <4>1, <4>2
      <4>3. CASE i \in Len(taken) + 1 .. Len(taken) + Len(buffer)
        <5>1. i - Len(taken) \in 1 .. Len(buffer)
          BY <2>1, <4>3
        <5>2. buffer[i - Len(taken)] = Len(taken) + (i - Len(taken))
          BY <4>1, <5>1
        <5> QED
          BY <2>1, <3>1, <4>3, <5>2
      <4> QED
        BY <2>1, <4>1, <4>2, <4>3
    <3>4. s = [i \in 1 .. offset |-> i]
      BY <3>1, <3>2, <3>3
    <3> QED
      BY <3>4 DEF s
  <2>4. Len(taken) <= FileSize /\ (pc = "end" => Len(taken) = FileSize)
    BY <2>1, SenderConstants DEF SInv
  <2> QED
    BY <2>2, <2>3, <2>4 DEF SInv, SocketHasPrefix
<1> QED
  BY <1>1, SenderInit, SenderNext, PTL DEF ClientSpec
=============================================================================
