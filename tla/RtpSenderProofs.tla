--------------------------- MODULE RtpSenderProofs ---------------------------
(***************************************************************************)
(* For every file, block size and packet size the packets rtp_h264.c       *)
(* sends are the units of the file: no start code is missed where a block  *)
(* is cut, no byte is sent twice or left out between two packets, and the  *)
(* bits, timestamps and sequence numbers tell the units apart.             *)
(***************************************************************************)
EXTENDS RtpSender, SequenceTheorems, TLAPS

LEMMA Constants ==
    /\ \A f \in Files : f \in Seq(0 .. 255) /\ Len(f) \in Nat
    /\ READ_LEN \in Nat /\ READ_LEN > 8
    /\ SINGLE_NALU_DATA_MAX \in Nat /\ SINGLE_NALU_DATA_MAX > 2
    /\ SLICE_NALU_DATA_MAX = SINGLE_NALU_DATA_MAX - 2
    /\ NALU_INDIC_SIZE = 4
    /\ SEQS \in Nat \ {0}
    BY RtpSenderAssumption DEF NALU_INDIC_SIZE, SLICE_NALU_DATA_MAX
-----------------------------------------------------------------------------
\* No unit begins between a and b.
Clear(a, b) == \A k \in a .. b : ~Begins(k)

InUnit == {"single", "fragment", "next"}

\* Where the thread is in the file: what is sent ends where a unit begins,
\* no start code lies between the head of the unit and where the scan looks,
\* and the unit that is sent ends where one ends.
Place ==
    /\ pc = "open" => bytes_consumed = 0
    /\ pc \notin {"open", "end"} => Len(file) > 4
    /\ bytes_consumed < Len(file) => Begins(bytes_consumed + 1)
    /\ pc = "loop" /\ is_runing => bytes_consumed < Len(file)
    /\ pc \in {"read", "scan", "cut"} \cup InUnit => bytes_consumed < Len(file)
    /\ pc \in {"scan", "cut"} \cup InUnit => frame_size \in 4 .. bytes_left
    /\ pc = "scan" => Clear(bytes_consumed + 5, bytes_consumed + frame_size)
    /\ pc \in {"cut"} \cup InUnit =>
         IF be_found
         THEN /\ frame_size + 4 < bytes_left
              /\ Begins(bytes_consumed + frame_size + 1)
         ELSE frame_size = bytes_left
    /\ pc = "cut" /\ (be_found \/ reach_last_nalu) =>
         Clear(bytes_consumed + 5, bytes_consumed + frame_size)
    /\ pc \in InUnit =>
         /\ Clear(bytes_consumed + 5, bytes_consumed + frame_size)
         /\ Ends(bytes_consumed + frame_size)

\* What is left of the unit.
Rest ==
    /\ pc = "single" => data_left = frame_size - 4
    /\ pc = "fragment" => /\ data_left \in 0 .. frame_size - 5
                          /\ fu_start <=> data_left = frame_size - 5
                          /\ fu_start => data_left >= SINGLE_NALU_DATA_MAX

\* A packet by itself, and a packet after another.
Good(p) ==
    /\ p.to - p.from < IF p.whole THEN SINGLE_NALU_DATA_MAX
                                  ELSE SLICE_NALU_DATA_MAX
    /\ p.start => Begins(UnitStart(p))
    /\ p.end <=> Ends(p.to)
    /\ Clear(p.from, p.to)
    /\ p.start /\ p.end => p.whole
Follows(q, p) ==
    /\ p.start <=> q.end
    /\ IF p.start THEN UnitStart(p) = q.to + 1 ELSE p.from = q.to + 1
    /\ p.start <=> p.timestamp # q.timestamp
    /\ p.seq = (q.seq + 1) % SEQS

Chain ==
    \A n \in 1 .. Len(sent) :
        /\ Good(sent[n])
        /\ n = 1 => sent[n].start /\ UnitStart(sent[n]) = 1
        /\ n > 1 => Follows(sent[n - 1], sent[n])

\* The last packet and the thread: between units it ends where the next one
\* begins; within a unit it ends before what is left.
FirstOfUnit == pc \notin {"fragment", "next"} \/ (pc = "fragment" /\ fu_start)
Last == sent[Len(sent)]
Seam ==
    /\ sent = << >> => bytes_consumed = 0 /\ FirstOfUnit
    /\ sent # << >> =>
         /\ seq = (Last.seq + 1) % SEQS
         /\ timestamp = Last.timestamp
              + (IF pc = "fragment" /\ fu_start THEN 1 ELSE 0)
         /\ IF FirstOfUnit
            THEN Last.end /\ Last.to = bytes_consumed
            ELSE /\ Last.to = UnitEnd - (IF pc = "next" THEN 0 ELSE data_left)
                 /\ Last.end <=> Last.to = UnitEnd

IInv == RtpSenderTypeOK /\ Place /\ Rest /\ Chain /\ Seam
-----------------------------------------------------------------------------
LEMMA FileLength == RtpSenderTypeOK => Len(file) \in Nat
    BY Constants DEF RtpSenderTypeOK

\* Numbers are numbers.
LEMMA Numbers ==
    ASSUME RtpSenderTypeOK
    PROVE  /\ Len(file) \in Nat /\ bytes_consumed \in Nat /\ bytes_left \in Nat
           /\ frame_size \in Nat /\ data_left \in Nat /\ seq \in Nat
           /\ timestamp \in Nat /\ Len(sent) \in Nat /\ UnitEnd \in Nat
           /\ bytes_consumed + bytes_left <= Len(file)
    BY FileLength, Constants DEF RtpSenderTypeOK, UnitEnd

\* Behind a start code there is at least one byte.
LEMMA RoomForUnit ==
    ASSUME RtpSenderTypeOK, Len(file) > 4, NEW k \in Nat, Begins(k)
    PROVE  k + 4 <= Len(file)
    BY Numbers, Constants DEF Begins

LEMMA SameFile ==
    ASSUME file' = file
    PROVE  /\ \A k : Begins(k)' <=> Begins(k)
           /\ \A k : Ends(k)' <=> Ends(k)
           /\ \A a, b : Clear(a, b)' <=> Clear(a, b)
    BY DEF Begins, Ends, Clear

LEMMA SamePackets ==
    ASSUME file' = file, sent' = sent, Chain
    PROVE  Chain'
    BY SameFile DEF Chain, Good, Follows, UnitStart

LEMMA InitInvariant == Init => IInv
<1> SUFFICES ASSUME Init PROVE IInv
    OBVIOUS
<1>1. Len(file) \in Nat /\ << >> \in Seq(Packet) /\ Len(<< >>) = 0
    BY Constants DEF Init
<1>2. RtpSenderTypeOK
    <2>1. 0 \in 0 .. READ_LEN /\ 0 \in 0 .. Len(file) /\ 0 + 0 <= Len(file)
        BY <1>1, Constants
    <2> QED
        BY <1>1, <2>1 DEF Init, RtpSenderTypeOK
<1>3. Place
    BY DEF Init, Place, InUnit, Begins
<1>4. Rest /\ Chain /\ Seam
    BY <1>1 DEF Init, Rest, Chain, Seam, FirstOfUnit
<1> QED
    BY <1>2, <1>3, <1>4 DEF IInv
-----------------------------------------------------------------------------
\* One lemma per action.

LEMMA StopKeeps == IInv /\ Stop => IInv'
<1> SUFFICES ASSUME IInv, Stop PROVE IInv'
    OBVIOUS
<1>1. /\ UNCHANGED <<file, pc, bytes_consumed, bytes_left, frame_size,
                     be_found, data_left, fu_start, seq, timestamp, sent>>
      /\ is_runing' = FALSE /\ stopped' = TRUE
    BY DEF Stop, unitVars, sendVars
<1>2. RtpSenderTypeOK'
    BY <1>1 DEF IInv, RtpSenderTypeOK
<1>3. Place'
    BY <1>1, SameFile DEF IInv, Place, reach_last_nalu
<1>4. Rest' /\ Seam'
    BY <1>1 DEF IInv, Rest, Seam, FirstOfUnit, Last, UnitEnd
<1> QED
    BY <1>1, <1>2, <1>3, <1>4, SamePackets DEF IInv

LEMMA OpenKeeps == IInv /\ Open => IInv'
<1> SUFFICES ASSUME IInv, Open PROVE IInv'
    OBVIOUS
<1>1. /\ pc = "open" /\ UNCHANGED <<file, is_runing, stopped, bytes_consumed,
             bytes_left, frame_size, be_found, data_left, fu_start, seq,
             timestamp, sent>>
      /\ pc' = "end" \/ (pc' = "loop" /\ Len(file) > 4)
    BY Constants DEF Open, unitVars, sendVars
<1>2. RtpSenderTypeOK'
    BY <1>1 DEF IInv, RtpSenderTypeOK
<1>3. Len(file) \in Nat
    BY Numbers DEF IInv
<1>4. Place'
    BY <1>1, <1>3, SameFile DEF IInv, Place, InUnit
<1>5. Rest' /\ Seam'
    BY <1>1 DEF IInv, Rest, Seam, FirstOfUnit, Last, UnitEnd
<1> QED
    BY <1>1, <1>2, <1>4, <1>5, SamePackets DEF IInv

LEMMA LoopKeeps == IInv /\ Loop => IInv'
<1> SUFFICES ASSUME IInv, Loop PROVE IInv'
    OBVIOUS
<1>1. /\ pc = "loop" /\ UNCHANGED <<file, is_runing, stopped, bytes_consumed,
             bytes_left, frame_size, be_found, data_left, fu_start, seq,
             timestamp, sent>>
      /\ pc' = IF is_runing THEN "read" ELSE "end"
    BY DEF Loop, unitVars, sendVars
<1>2. RtpSenderTypeOK'
    BY <1>1 DEF IInv, RtpSenderTypeOK
<1>3. Place'
    BY <1>1, SameFile DEF IInv, Place, InUnit
<1>4. Rest' /\ Seam'
    BY <1>1 DEF IInv, Rest, Seam, FirstOfUnit, Last, UnitEnd
<1> QED
    BY <1>1, <1>2, <1>3, <1>4, SamePackets DEF IInv

LEMMA ReadKeeps == IInv /\ Read => IInv'
<1> SUFFICES ASSUME IInv, Read PROVE IInv'
    OBVIOUS
<1> DEFINE rest == Len(file) - bytes_consumed
<1>1. /\ pc = "read"
      /\ UNCHANGED <<file, is_runing, stopped, bytes_consumed, data_left,
                     fu_start, seq, timestamp, sent>>
      /\ bytes_left' = IF rest < READ_LEN THEN rest ELSE READ_LEN
      /\ frame_size' = 4 /\ be_found' = FALSE
      /\ pc' = IF bytes_left' > 0 THEN "scan" ELSE "loop"
    BY Constants DEF Read, sendVars
<1>2. RtpSenderTypeOK /\ Len(file) > 4 /\ Begins(bytes_consumed + 1)
    BY <1>1 DEF IInv, Place
<1>3. bytes_consumed + 1 + 4 <= Len(file)
    BY <1>2, Numbers, RoomForUnit
<1>4. /\ bytes_left' \in 5 .. READ_LEN
      /\ bytes_consumed + bytes_left' <= Len(file) /\ pc' = "scan"
    <2>1. rest \in Nat /\ rest >= 5 /\ bytes_consumed + rest = Len(file)
        BY <1>2, <1>3, Numbers
    <2>2. bytes_consumed \in Nat /\ Len(file) \in Nat
        BY <1>2, Numbers
    <2> HIDE DEF rest
    <2>3. CASE rest < READ_LEN
        BY <1>1, <2>1, <2>2, <2>3, Constants
    <2>4. CASE ~(rest < READ_LEN)
        BY <1>1, <2>1, <2>2, <2>4, Constants
    <2> QED
        BY <2>3, <2>4
<1>5. RtpSenderTypeOK'
    <2>1. bytes_left' \in 0 .. READ_LEN /\ 4 \in 0 .. READ_LEN
        BY <1>4, Constants
    <2> QED
        BY <1>1, <1>2, <1>4, <2>1 DEF RtpSenderTypeOK
<1>6. Place'
    <2>1. Clear(bytes_consumed + 5, bytes_consumed + 4)
        BY <1>2, Numbers DEF Clear
    <2>2. 4 \in 4 .. bytes_left'
        BY <1>4, Constants
    <2> QED
        BY <1>1, <1>2, <1>4, <2>1, <2>2, SameFile DEF IInv, Place, InUnit
<1>7. Rest' /\ Seam'
    BY <1>1, <1>4 DEF IInv, Rest, Seam, FirstOfUnit, Last, UnitEnd
<1> QED
    BY <1>1, <1>5, <1>6, <1>7, SamePackets DEF IInv

\* The scan passes over no start code: the bytes it looked at rule out one
\* at each of the places it skips.
LEMMA OffsetSkipsNothing ==
    ASSUME RtpSenderTypeOK, MoreToLook, frame_size >= 4,
           ~(Byte(0) = 0 /\ Byte(1) = 0 /\ Byte(2) = 0 /\ Byte(3) = 1)
    PROVE  /\ Offset \in 1 .. 4
           /\ \A k \in bytes_consumed + frame_size + 1 ..
                         bytes_consumed + frame_size + Offset : ~Begins(k)
<1> DEFINE o == bytes_consumed + frame_size
           b1 == file[o + 1]
           b2 == file[o + 2]
           b3 == file[o + 3]
           b4 == file[o + 4]
<1>1. o \in Nat /\ o >= 4
    BY Numbers
<1>2. Byte(0) = b1 /\ Byte(1) = b2 /\ Byte(2) = b3 /\ Byte(3) = b4
    <2>1. /\ o + 0 + 1 = o + 1 /\ o + 1 + 1 = o + 2
          /\ o + 2 + 1 = o + 3 /\ o + 3 + 1 = o + 4
        BY <1>1
    <2>2. \A j : Byte(j) = file[o + j + 1]
        BY DEF Byte
    <2> HIDE DEF o
    <2> QED
        BY <2>1, <2>2
<1>3. /\ o + 1 > 4
      /\ Begins(o + 1) => b1 = 0 /\ b2 = 0 /\ b3 = 0 /\ b4 = 1
      /\ Begins(o + 2) => b2 = 0 /\ b3 = 0 /\ b4 = 0
      /\ Begins(o + 3) => b3 = 0 /\ b4 = 0
      /\ Begins(o + 4) => b4 = 0
    <2>1. /\ o + 1 + 1 = o + 2 /\ o + 1 + 2 = o + 3 /\ o + 1 + 3 = o + 4
          /\ o + 2 + 1 = o + 3 /\ o + 2 + 2 = o + 4 /\ o + 3 + 1 = o + 4
          /\ o + 1 # 1 /\ o + 2 # 1 /\ o + 3 # 1 /\ o + 4 # 1
        BY <1>1
    <2> HIDE DEF o
    <2> QED
        BY <1>1, <2>1 DEF Begins
<1> HIDE DEF o, b1, b2, b3, b4
<1>4. CASE b3 # 0
    <2>1. Offset = 3 /\ ~Begins(o + 1) /\ ~Begins(o + 2) /\ ~Begins(o + 3)
        BY <1>2, <1>3, <1>4 DEF Offset
    <2> QED
        BY <1>1, <2>1 DEF o
<1>5. CASE b3 = 0 /\ b2 # 0
    <2>1. Offset = 2 /\ ~Begins(o + 1) /\ ~Begins(o + 2)
        BY <1>2, <1>3, <1>5 DEF Offset
    <2> QED
        BY <1>1, <2>1 DEF o
<1>6. CASE b3 = 0 /\ b2 = 0 /\ b1 # 0
    <2>1. Offset = 1 /\ ~Begins(o + 1)
        BY <1>2, <1>3, <1>6 DEF Offset
    <2> QED
        BY <1>1, <2>1 DEF o
<1>7. CASE b3 = 0 /\ b2 = 0 /\ b1 = 0 /\ b4 # 0
    <2>1. b4 # 1
        BY <1>2, <1>7
    <2>2. /\ Offset = 4 /\ ~Begins(o + 1) /\ ~Begins(o + 2)
          /\ ~Begins(o + 3) /\ ~Begins(o + 4)
        BY <1>2, <1>3, <1>7, <2>1 DEF Offset
    <2> QED
        BY <1>1, <2>2 DEF o
<1>8. CASE b3 = 0 /\ b2 = 0 /\ b1 = 0 /\ b4 = 0
    <2>1. Offset = 1 /\ ~Begins(o + 1)
        BY <1>2, <1>3, <1>8 DEF Offset
    <2> QED
        BY <1>1, <2>1 DEF o
<1> QED
    BY <1>4, <1>5, <1>6, <1>7, <1>8

LEMMA ScanKeeps == IInv /\ Scan => IInv'
<1> SUFFICES ASSUME IInv, Scan PROVE IInv'
    OBVIOUS
<1>1. /\ pc = "scan" /\ UNCHANGED <<file, is_runing, stopped, bytes_consumed,
             bytes_left, data_left, fu_start, seq, timestamp, sent>>
      /\ MoreToLook <=> frame_size < bytes_left - 4
    BY Constants DEF Scan, sendVars, MoreToLook
<1>2. /\ RtpSenderTypeOK /\ Len(file) > 4 /\ bytes_consumed < Len(file)
      /\ frame_size \in 4 .. bytes_left
      /\ Clear(bytes_consumed + 5, bytes_consumed + frame_size)
      /\ bytes_consumed < Len(file) => Begins(bytes_consumed + 1)
    BY <1>1 DEF IInv, Place, InUnit
<1>3. /\ bytes_consumed \in Nat /\ bytes_left \in Nat /\ frame_size \in Nat
      /\ Len(file) \in Nat /\ bytes_consumed + bytes_left <= Len(file)
      /\ bytes_left <= READ_LEN /\ READ_LEN \in Nat
    BY <1>2, Numbers, Constants DEF RtpSenderTypeOK
<1>4. /\ pc' \in {"scan", "cut"} /\ be_found' \in BOOLEAN
      /\ frame_size' \in 4 .. bytes_left
      /\ pc' = "scan" =>
           Clear(bytes_consumed + 5, bytes_consumed + frame_size')
      /\ pc' = "cut" =>
           /\ IF be_found'
              THEN /\ frame_size' + 4 < bytes_left
                   /\ Begins(bytes_consumed + frame_size' + 1)
              ELSE frame_size' = bytes_left
           /\ be_found' \/ bytes_consumed + frame_size' >= Len(file) =>
                Clear(bytes_consumed + 5, bytes_consumed + frame_size')
    <2>1. CASE ~MoreToLook
        <3>1. frame_size' = bytes_left /\ be_found' = FALSE /\ pc' = "cut"
            BY <2>1 DEF Scan
        <3>2. ASSUME bytes_consumed + bytes_left >= Len(file)
              PROVE  Clear(bytes_consumed + 5, bytes_consumed + bytes_left)
            <4> SUFFICES ASSUME NEW k \in bytes_consumed + 5
                                            .. bytes_consumed + bytes_left,
                                Begins(k)
                         PROVE  FALSE
                BY DEF Clear
            <4>1. k \in Nat /\ k + 4 <= Len(file)
                BY <1>2, <1>3, RoomForUnit
            <4>2. frame_size >= bytes_left - 4
                BY <1>1, <1>3, <2>1
            <4>3. k \in bytes_consumed + 5 .. bytes_consumed + frame_size
                BY <1>3, <3>2, <4>1, <4>2
            <4> QED
                BY <1>2, <4>3 DEF Clear
        <3>3. bytes_left \in 4 .. bytes_left
            BY <1>2, <1>3
        <3> QED
            BY <3>1, <3>2, <3>3
    <2>2. CASE MoreToLook /\ Byte(0) = 0 /\ Byte(1) = 0 /\ Byte(2) = 0
                          /\ Byte(3) = 1
        <3>1. be_found' = TRUE /\ pc' = "cut" /\ frame_size' = frame_size
            BY <2>2 DEF Scan
        <3>2. frame_size + 4 < bytes_left
            BY <1>1, <1>3, <2>2
        <3> DEFINE o == bytes_consumed + frame_size
        <3>3. o \in Nat /\ o + 1 > 4 /\ o + 1 + 4 <= Len(file)
            BY <1>2, <1>3, <3>2
        <3>4. /\ o + 0 + 1 = o + 1 /\ o + 1 + 1 = o + 2 /\ o + 1 + 2 = o + 3
              /\ o + 2 + 1 = o + 3 /\ o + 3 + 1 = o + 4 /\ o + 1 + 3 = o + 4
            BY <3>3
        <3>5. \A j : Byte(j) = file[o + j + 1]
            BY DEF Byte
        <3> HIDE DEF o
        <3>6. Begins(o + 1)
            BY <2>2, <3>3, <3>4, <3>5, Constants DEF Begins
        <3> QED
            BY <1>2, <3>1, <3>2, <3>6 DEF o
    <2>3. CASE MoreToLook /\ ~(Byte(0) = 0 /\ Byte(1) = 0 /\ Byte(2) = 0
                               /\ Byte(3) = 1)
        <3>1. frame_size' = frame_size + Offset /\ be_found' = be_found
              /\ pc' = "scan"
            BY <1>1, <2>3 DEF Scan
        <3>2. /\ Offset \in 1 .. 4
              /\ \A k \in bytes_consumed + frame_size + 1 ..
                            bytes_consumed + frame_size + Offset : ~Begins(k)
            BY <1>2, <1>3, <2>3, OffsetSkipsNothing
        <3>3. frame_size + Offset \in 4 .. bytes_left
            BY <1>1, <1>2, <1>3, <2>3, <3>2
        <3>4. Clear(bytes_consumed + 5, bytes_consumed + (frame_size + Offset))
            <4> SUFFICES ASSUME NEW k \in bytes_consumed + 5 ..
                                     bytes_consumed + (frame_size + Offset)
                         PROVE  ~Begins(k)
                BY DEF Clear
            <4>1. CASE k <= bytes_consumed + frame_size
                <5>1. k \in bytes_consumed + 5 .. bytes_consumed + frame_size
                    BY <1>3, <3>2, <4>1
                <5> QED
                    BY <1>2, <5>1 DEF Clear
            <4>2. CASE ~(k <= bytes_consumed + frame_size)
                <5>1. k \in bytes_consumed + frame_size + 1 ..
                              bytes_consumed + frame_size + Offset
                    BY <1>3, <3>2, <4>2
                <5> QED
                    BY <3>2, <5>1
            <4> QED
                BY <4>1, <4>2
        <3>5. be_found \in BOOLEAN
            BY <1>2 DEF RtpSenderTypeOK
        <3> QED
            BY <3>1, <3>3, <3>4, <3>5
    <2> QED
        BY <2>1, <2>2, <2>3
<1>5. RtpSenderTypeOK'
    <2>1. frame_size' \in 0 .. READ_LEN
        BY <1>3, <1>4
    <2> QED
        BY <1>1, <1>2, <1>4, <2>1 DEF RtpSenderTypeOK
<1>6. Place'
    <2>1. reach_last_nalu' =
            (bytes_consumed + frame_size' >= Len(file))
        BY <1>1 DEF reach_last_nalu
    <2> QED
        BY <1>1, <1>2, <1>4, <2>1, SameFile DEF Place, InUnit
<1>7. Rest' /\ Seam'
    BY <1>1, <1>4 DEF IInv, Rest, Seam, FirstOfUnit, Last, UnitEnd
<1> QED
    BY <1>1, <1>5, <1>6, <1>7, SamePackets DEF IInv

LEMMA CutKeeps == IInv /\ Cut => IInv'
<1> SUFFICES ASSUME IInv, Cut PROVE IInv'
    OBVIOUS
<1>1. /\ pc = "cut"
      /\ UNCHANGED <<file, is_runing, stopped, bytes_consumed, frame_size,
                     be_found, fu_start, seq, timestamp, sent>>
    BY DEF Cut
<1>2. /\ RtpSenderTypeOK /\ Len(file) > 4 /\ bytes_consumed < Len(file)
      /\ frame_size \in 4 .. bytes_left
      /\ Begins(bytes_consumed + 1)
      /\ IF be_found
         THEN /\ frame_size + 4 < bytes_left
              /\ Begins(bytes_consumed + frame_size + 1)
         ELSE frame_size = bytes_left
      /\ be_found \/ reach_last_nalu =>
           Clear(bytes_consumed + 5, bytes_consumed + frame_size)
    BY <1>1 DEF IInv, Place, InUnit
<1>3. /\ bytes_consumed \in Nat /\ bytes_left \in Nat /\ frame_size \in Nat
      /\ Len(file) \in Nat /\ bytes_consumed + bytes_left <= Len(file)
      /\ bytes_left <= READ_LEN /\ READ_LEN \in Nat
    BY <1>2, Numbers, Constants DEF RtpSenderTypeOK
<1>4. CASE be_found \/ reach_last_nalu
    <2>1. pc' = "single" /\ data_left' = frame_size - 4 /\ bytes_left' = bytes_left
        BY <1>4, Constants DEF Cut
    <2>2. Ends(bytes_consumed + frame_size)
        <3>1. CASE be_found
            <4>1. /\ bytes_consumed + frame_size < Len(file)
                  /\ Begins(bytes_consumed + frame_size + 1)
                BY <1>2, <1>3, <3>1
            <4> QED
                BY <4>1 DEF Ends
        <3>2. CASE ~be_found
            <4>1. bytes_consumed + frame_size = Len(file)
                BY <1>2, <1>3, <1>4, <3>2 DEF reach_last_nalu
            <4> QED
                BY <4>1 DEF Ends
        <3> QED
            BY <3>1, <3>2
    <2>3. data_left' \in 0 .. READ_LEN
        BY <1>2, <1>3, <2>1
    <2>4. RtpSenderTypeOK'
        BY <1>1, <1>2, <2>1, <2>3 DEF RtpSenderTypeOK
    <2>5. Place'
        BY <1>1, <1>2, <1>4, <2>1, <2>2, SameFile DEF Place, InUnit
    <2>6. Rest' /\ Seam'
        BY <1>1, <2>1 DEF IInv, Rest, Seam, FirstOfUnit, Last, UnitEnd
    <2> QED
        BY <1>1, <2>4, <2>5, <2>6, SamePackets DEF IInv
<1>5. CASE ~(be_found \/ reach_last_nalu)
    <2>1. /\ pc' = "loop" /\ data_left' = data_left
          /\ bytes_left' = bytes_left - frame_size
        BY <1>5 DEF Cut
    <2>2. /\ bytes_left' \in 0 .. READ_LEN
          /\ bytes_consumed + bytes_left' <= Len(file)
        BY <1>2, <1>3, <2>1
    <2>3. RtpSenderTypeOK'
        BY <1>1, <1>2, <2>1, <2>2 DEF RtpSenderTypeOK
    <2>4. Place'
        BY <1>1, <1>2, <2>1, SameFile DEF Place, InUnit
    <2>5. Rest' /\ Seam'
        BY <1>1, <2>1 DEF IInv, Rest, Seam, FirstOfUnit, Last, UnitEnd
    <2> QED
        BY <1>1, <2>3, <2>4, <2>5, SamePackets DEF IInv
<1> QED
    BY <1>4, <1>5

LEMMA NextUnitKeeps == IInv /\ NextUnit => IInv'
<1> SUFFICES ASSUME IInv, NextUnit PROVE IInv'
    OBVIOUS
<1>1. /\ pc = "next" /\ UNCHANGED <<file, stopped, data_left, fu_start, seq,
                                    timestamp, sent>>
      /\ bytes_consumed' = bytes_consumed + frame_size
      /\ bytes_left' = bytes_left - frame_size
      /\ is_runing' = (is_runing /\ ~reach_last_nalu)
      /\ frame_size' = 4 /\ be_found' = FALSE
      /\ pc' = IF bytes_left' > 0 THEN "scan" ELSE "loop"
    BY Constants DEF NextUnit, sendVars
<1>2. /\ RtpSenderTypeOK /\ Len(file) > 4
      /\ frame_size \in 4 .. bytes_left
      /\ IF be_found THEN frame_size + 4 < bytes_left
                     ELSE frame_size = bytes_left
      /\ Ends(bytes_consumed + frame_size)
    BY <1>1 DEF IInv, Place, InUnit
<1>3. /\ bytes_consumed \in Nat /\ bytes_left \in Nat /\ frame_size \in Nat
      /\ Len(file) \in Nat /\ bytes_consumed + bytes_left <= Len(file)
      /\ bytes_left <= READ_LEN /\ READ_LEN \in Nat
    BY <1>2, Numbers, Constants DEF RtpSenderTypeOK
<1>4. /\ bytes_consumed' \in 0 .. Len(file)
      /\ bytes_left' \in 0 .. READ_LEN
      /\ bytes_consumed' + bytes_left' <= Len(file)
      /\ pc' = "scan" => bytes_left' >= 5
    BY <1>1, <1>2, <1>3
<1>5. /\ bytes_consumed' < Len(file) => Begins(bytes_consumed' + 1)
      /\ is_runing' => bytes_consumed' < Len(file)
    <2> DEFINE c == bytes_consumed + frame_size
    <2>1. c \in Nat /\ c <= Len(file) /\ bytes_consumed' = c
        BY <1>1, <1>2, <1>3
    <2>2. c < Len(file) => Begins(c + 1)
        BY <1>2, <1>3, <2>1 DEF Ends
    <2>3. is_runing' => c < Len(file)
        <3>1. is_runing' => ~reach_last_nalu
            BY <1>1, Zenon
        <3>2. ~reach_last_nalu => c < Len(file)
            BY <1>3, <2>1 DEF reach_last_nalu
        <3> QED
            BY <3>1, <3>2
    <2> HIDE DEF c
    <2> QED
        BY <2>1, <2>2, <2>3
<1>6. RtpSenderTypeOK'
    <2>1. 4 \in 0 .. READ_LEN /\ is_runing' \in BOOLEAN
        BY <1>1, <1>2, Constants DEF RtpSenderTypeOK
    <2> QED
        BY <1>1, <1>2, <1>4, <2>1 DEF RtpSenderTypeOK
<1>7. Place'
    <2>1. Clear(bytes_consumed' + 5, bytes_consumed' + 4)
        <3>1. \A c \in Nat : Clear(c + 5, c + 4)
            BY DEF Clear
        <3>2. bytes_consumed' \in Nat
            BY <1>3, <1>4
        <3> QED
            BY <3>1, <3>2
    <2>2. pc' = "scan" => 4 \in 4 .. bytes_left' /\ bytes_consumed' < Len(file)
        BY <1>3, <1>4
    <2>3. /\ \A k : Begins(k)' <=> Begins(k)
          /\ \A a, b : Clear(a, b)' <=> Clear(a, b)
        BY <1>1, SameFile
    <2>4. pc' \in {"scan", "loop"}
        BY <1>1
    <2> QED
        BY <1>1, <1>2, <1>5, <2>1, <2>2, <2>3, <2>4 DEF Place, InUnit
<1>8. Rest' /\ Seam'
    <2>1. pc' \in {"scan", "loop"}
        BY <1>1
    <2> QED
        BY <1>1, <1>3, <2>1 DEF IInv, Rest, Seam, FirstOfUnit, Last, UnitEnd
<1> QED
    BY <1>1, <1>6, <1>7, <1>8, SamePackets DEF IInv

LEMMA FragmentedKeeps == IInv /\ Fragmented => IInv'
<1> SUFFICES ASSUME IInv, Fragmented PROVE IInv'
    OBVIOUS
<1>1. /\ pc = "fragment" /\ data_left = 0 /\ pc' = "next"
      /\ UNCHANGED <<file, is_runing, stopped, bytes_consumed, bytes_left,
             frame_size, be_found, data_left, fu_start, seq, timestamp, sent>>
    BY DEF Fragmented, unitVars, sendVars
<1>2. ~fu_start
    BY <1>1, Constants DEF IInv, Rest
<1>3. RtpSenderTypeOK'
    BY <1>1 DEF IInv, RtpSenderTypeOK
<1>4. Place'
    BY <1>1, SameFile DEF IInv, Place, InUnit
<1>5. Rest' /\ Seam'
    BY <1>1, <1>2 DEF IInv, Rest, Seam, FirstOfUnit, Last, UnitEnd
<1> QED
    BY <1>1, <1>3, <1>4, <1>5, SamePackets DEF IInv

\* One more packet: good by itself, and well joined to the last one.
LEMMA ChainGrows ==
    ASSUME RtpSenderTypeOK, Chain, file' = file, NEW p \in Packet, Good(p),
           sent' = Append(sent, p),
           sent = << >> => p.start /\ UnitStart(p) = 1,
           sent # << >> => Follows(Last, p)
    PROVE  Chain' /\ sent' # << >> /\ Last' = p /\ sent' \in Seq(Packet)
<1> DEFINE n == Len(sent)
<1>1. sent \in Seq(Packet) /\ n \in Nat
    BY DEF RtpSenderTypeOK
<1>2. /\ sent' \in Seq(Packet) /\ Len(sent') = n + 1 /\ sent'[n + 1] = p
      /\ \A i \in 1 .. n : sent'[i] = sent[i]
    BY <1>1, AppendProperties
<1>3. n = 0 <=> sent = << >>
    BY <1>1, EmptySeq
<1>4. sent' # << >> /\ Last' = p
    BY <1>1, <1>2, EmptySeq DEF Last
<1> HIDE DEF n
<1>5. \A i \in 1 .. n + 1 :
         /\ Good(sent'[i])
         /\ i = 1 => sent'[i].start /\ UnitStart(sent'[i]) = 1
         /\ i > 1 => Follows(sent'[i - 1], sent'[i])
    <2> SUFFICES ASSUME NEW i \in 1 .. n + 1
                 PROVE  /\ Good(sent'[i])
                        /\ i = 1 => sent'[i].start /\ UnitStart(sent'[i]) = 1
                        /\ i > 1 => Follows(sent'[i - 1], sent'[i])
        OBVIOUS
    <2>1. CASE i \in 1 .. n
        <3>1. i > 1 => i - 1 \in 1 .. n
            BY <1>1, <2>1
        <3>2. /\ Good(sent[i])
              /\ i = 1 => sent[i].start /\ UnitStart(sent[i]) = 1
              /\ i > 1 => Follows(sent[i - 1], sent[i])
            BY <2>1 DEF Chain, n
        <3>3. sent'[i] = sent[i] /\ (i > 1 => sent'[i - 1] = sent[i - 1])
            BY <1>2, <2>1, <3>1
        <3> QED
            BY <3>2, <3>3
    <2>2. CASE i = n + 1
        <3>1. sent'[i] = p
            BY <1>2, <2>2
        <3>2. ASSUME i = 1 PROVE sent'[i].start /\ UnitStart(sent'[i]) = 1
            <4>1. n = 0
                BY <1>1, <2>2, <3>2
            <4> QED
                BY <1>3, <3>1, <4>1
        <3>3. ASSUME i > 1 PROVE Follows(sent'[i - 1], sent'[i])
            <4>1. n # 0 /\ i - 1 \in 1 .. n /\ i - 1 = n
                BY <1>1, <2>2, <3>3
            <4>2. sent'[i - 1] = Last
                BY <1>2, <4>1 DEF Last, n
            <4> QED
                BY <1>3, <3>1, <4>1, <4>2
        <3> QED
            BY <3>1, <3>2, <3>3
    <2>3. i \in 1 .. n \/ i = n + 1
        BY <1>1
    <2> QED
        BY <2>1, <2>2, <2>3, Zenon
<1>6. Chain'
    <2> SUFFICES ASSUME NEW i \in 1 .. n + 1
                 PROVE  /\ Good(sent[i])'
                        /\ i = 1 => (sent[i].start /\ UnitStart(sent[i]) = 1)'
                        /\ i > 1 => Follows(sent[i - 1], sent[i])'
        BY <1>2 DEF Chain
    <2>1. Good(sent[i])' <=> Good(sent'[i])
        BY SameFile DEF Good, UnitStart
    <2>2. /\ UnitStart(sent[i])' = UnitStart(sent'[i])
          /\ Follows(sent[i - 1], sent[i])' <=> Follows(sent'[i - 1], sent'[i])
        BY DEF UnitStart, Follows
    <2> QED
        BY <1>5, <2>1, <2>2
<1> QED
    BY <1>2, <1>4, <1>6

\* No unit ends inside the one that is sent.
LEMMA EndsInside ==
    ASSUME NEW a \in Nat, NEW b \in Nat, b <= Len(file), Len(file) \in Nat,
           Clear(a, b), NEW t \in a .. b - 1
    PROVE  ~Ends(t)
<1>1. t + 1 \in a .. b /\ t < Len(file) /\ t # Len(file)
    OBVIOUS
<1>2. ~Begins(t + 1)
    BY <1>1 DEF Clear
<1> QED
    BY <1>1, <1>2 DEF Ends

LEMMA SingleKeeps == IInv /\ Single => IInv'
<1> SUFFICES ASSUME IInv, Single PROVE IInv'
    OBVIOUS
<1>1. /\ pc = "single" /\ timestamp' = timestamp + 1
      /\ UNCHANGED <<file, is_runing, stopped, bytes_consumed, bytes_left,
                     frame_size, be_found>>
    BY DEF Single, unitVars
<1>2. /\ RtpSenderTypeOK /\ Chain /\ Len(file) > 4
      /\ frame_size \in 4 .. bytes_left /\ data_left = frame_size - 4
      /\ Begins(bytes_consumed + 1)
      /\ Clear(bytes_consumed + 5, bytes_consumed + frame_size)
      /\ Ends(bytes_consumed + frame_size)
    BY <1>1 DEF IInv, Place, Rest, InUnit
<1>3. /\ bytes_consumed \in Nat /\ bytes_left \in Nat /\ frame_size \in Nat
      /\ Len(file) \in Nat /\ bytes_consumed + bytes_left <= Len(file)
      /\ bytes_left <= READ_LEN /\ timestamp \in Nat /\ data_left \in Nat
      /\ data_left <= READ_LEN
    BY <1>2, Numbers, Constants DEF RtpSenderTypeOK
<1>4. /\ sent = << >> => bytes_consumed = 0
      /\ sent # << >> =>
           /\ Last.end /\ Last.to = bytes_consumed
           /\ Last.timestamp = timestamp /\ seq = (Last.seq + 1) % SEQS
    <2>1. FirstOfUnit /\ ~(pc = "fragment" /\ fu_start)
        BY <1>1 DEF FirstOfUnit
    <2>2. /\ sent = << >> => bytes_consumed = 0
          /\ sent # << >> =>
               /\ Last.end /\ Last.to = bytes_consumed
               /\ timestamp = Last.timestamp + 0
               /\ seq = (Last.seq + 1) % SEQS
        BY <2>1 DEF IInv, Seam
    <2>3. sent # << >> => Last.timestamp \in Nat
        <3>1. ASSUME sent # << >> PROVE Last \in Packet
            <4>1. Len(sent) \in 1 .. Len(sent)
                BY <1>2, <3>1, EmptySeq DEF RtpSenderTypeOK
            <4> QED
                BY <1>2, <4>1, ElementOfSeq DEF RtpSenderTypeOK, Last
        <3> QED
            BY <3>1 DEF Packet
    <2> QED
        BY <2>2, <2>3
<1>5. Place' /\ be_found \in BOOLEAN
    BY <1>1, SameFile DEF IInv, Place, InUnit, Single, RtpSenderTypeOK
<1>6. CASE data_left <= SINGLE_NALU_DATA_MAX
    <2> DEFINE p == [whole |-> TRUE, start |-> TRUE, end |-> TRUE,
                     from |-> UnitEnd - data_left + 1, to |-> UnitEnd,
                     seq |-> seq, timestamp |-> timestamp']
    <2>1. /\ sent' = Append(sent, p) /\ seq' = (seq + 1) % SEQS
          /\ pc' = "next" /\ UNCHANGED <<data_left, fu_start>>
        BY <1>6 DEF Single, Write
    <2>2. /\ p.from = bytes_consumed + 5 /\ p.to = bytes_consumed + frame_size
          /\ p.seq = seq /\ p.timestamp = timestamp + 1
          /\ p.whole = TRUE /\ p.start = TRUE /\ p.end = TRUE
        BY <1>1, <1>2, <1>3 DEF UnitEnd
    <2>3. p \in Packet /\ seq' \in 0 .. SEQS - 1
        <3>1. UnitEnd - data_left + 1 \in Nat /\ UnitEnd \in Nat
              /\ timestamp' \in Nat
            BY <1>1, <1>2, <1>3 DEF UnitEnd
        <3>2. seq \in 0 .. SEQS - 1
            BY <1>2 DEF RtpSenderTypeOK
        <3>3. (seq + 1) % SEQS \in 0 .. SEQS - 1
            BY <3>2, Constants
        <3> QED
            BY <2>1, <3>1, <3>2, <3>3 DEF Packet
    <2> HIDE DEF p
    <2>4. UnitStart(p) = bytes_consumed + 1
        BY <1>3, <2>2, Constants DEF UnitStart
    <2>5. Good(p)
        BY <1>2, <1>3, <1>6, <2>2, <2>4, Constants DEF Good
    <2>6. sent = << >> => p.start /\ UnitStart(p) = 1
        BY <1>4, <2>2, <2>4
    <2>7. sent # << >> => Follows(Last, p)
        BY <1>3, <1>4, <2>2, <2>4 DEF Follows
    <2>8. /\ Chain' /\ sent' # << >> /\ Last' = p /\ sent' \in Seq(Packet)
        BY <1>1, <1>2, <2>1, <2>3, <2>5, <2>6, <2>7, ChainGrows
    <2>9. RtpSenderTypeOK'
        BY <1>1, <1>2, <1>3, <2>1, <2>3, <2>8 DEF RtpSenderTypeOK
    <2>10. Rest' /\ Seam'
        <3>1. ~FirstOfUnit'
            BY <2>1 DEF FirstOfUnit
        <3> QED
            BY <1>1, <1>3, <2>1, <2>2, <2>8, <3>1 DEF Rest, Seam, UnitEnd
    <2> QED
        BY <1>5, <2>8, <2>9, <2>10 DEF IInv
<1>7. CASE ~(data_left <= SINGLE_NALU_DATA_MAX)
    <2>1. /\ data_left' = data_left - 1 /\ fu_start' = TRUE
          /\ pc' = "fragment" /\ sent' = sent /\ seq' = seq
        BY <1>7 DEF Single
    <2>2. data_left > SINGLE_NALU_DATA_MAX
        BY <1>3, <1>7, Constants
    <2>3. /\ data_left' \in 0 .. READ_LEN /\ data_left' = frame_size - 5
          /\ data_left' >= SINGLE_NALU_DATA_MAX /\ timestamp' \in Nat
        BY <1>1, <1>2, <1>3, <2>1, <2>2, Constants
    <2>4. RtpSenderTypeOK'
        BY <1>1, <1>2, <2>1, <2>3 DEF RtpSenderTypeOK
    <2>5. Rest'
        BY <1>1, <1>3, <2>1, <2>3 DEF Rest
    <2>6. Seam'
        BY <1>1, <1>4, <2>1 DEF Seam, FirstOfUnit, Last
    <2> QED
        BY <1>1, <1>2, <1>5, <2>1, <2>4, <2>5, <2>6, SamePackets DEF IInv
<1> QED
    BY <1>6, <1>7

LEMMA FragmentKeeps == IInv /\ Fragment => IInv'
<1> SUFFICES ASSUME IInv, Fragment PROVE IInv'
    OBVIOUS
<1> DEFINE proc_size == IF data_left < SLICE_NALU_DATA_MAX
                        THEN data_left ELSE SLICE_NALU_DATA_MAX
           p == [whole |-> FALSE, start |-> fu_start,
                 end |-> ~fu_start /\ proc_size = data_left,
                 from |-> UnitEnd - data_left + 1,
                 to |-> UnitEnd - data_left + 1 + proc_size - 1,
                 seq |-> seq, timestamp |-> timestamp]
<1>1. /\ pc = "fragment" /\ data_left > 0
      /\ sent' = Append(sent, p) /\ seq' = (seq + 1) % SEQS
      /\ data_left' = data_left - proc_size /\ fu_start' = FALSE
      /\ UNCHANGED <<file, pc, is_runing, stopped, bytes_consumed, bytes_left,
                     frame_size, be_found, timestamp>>
    BY DEF Fragment, Write, unitVars
<1>2. /\ RtpSenderTypeOK /\ Chain
      /\ frame_size \in 4 .. bytes_left
      /\ Begins(bytes_consumed + 1)
      /\ Clear(bytes_consumed + 5, bytes_consumed + frame_size)
      /\ Ends(bytes_consumed + frame_size)
      /\ data_left \in 0 .. frame_size - 5
      /\ fu_start <=> data_left = frame_size - 5
      /\ fu_start => data_left >= SINGLE_NALU_DATA_MAX
    BY <1>1 DEF IInv, Place, Rest, InUnit
<1>3. /\ bytes_consumed \in Nat /\ bytes_left \in Nat /\ frame_size \in Nat
      /\ Len(file) \in Nat /\ bytes_consumed + bytes_left <= Len(file)
      /\ bytes_left <= READ_LEN /\ timestamp \in Nat /\ data_left \in Nat
      /\ data_left <= READ_LEN /\ fu_start \in BOOLEAN
    BY <1>2, Numbers, Constants DEF RtpSenderTypeOK
<1>4. /\ proc_size \in 1 .. data_left /\ proc_size <= SLICE_NALU_DATA_MAX
      /\ fu_start => proc_size < data_left
    BY <1>1, <1>2, <1>3, Constants
<1> DEFINE from == UnitEnd - data_left + 1
           to   == UnitEnd - data_left + proc_size
           end  == ~fu_start /\ proc_size = data_left
<1>5. /\ p.from = from /\ p.to = to /\ p.start = fu_start /\ p.end = end
      /\ p.whole = FALSE /\ p.seq = seq /\ p.timestamp = timestamp
    BY <1>3, <1>4 DEF UnitEnd
<1>6. p \in Packet /\ seq' \in 0 .. SEQS - 1
    <2>1. from \in Nat /\ UnitEnd - data_left + 1 + proc_size - 1 \in Nat
        BY <1>2, <1>3, <1>4 DEF UnitEnd
    <2>2. seq \in 0 .. SEQS - 1
        BY <1>2 DEF RtpSenderTypeOK
    <2>3. (seq + 1) % SEQS \in 0 .. SEQS - 1
        BY <2>2, Constants
    <2> HIDE DEF proc_size
    <2> QED
        BY <1>1, <1>3, <2>1, <2>2, <2>3 DEF Packet
<1>7. data_left' = data_left - proc_size
    BY <1>1
<1> HIDE DEF p, proc_size
<1>8. /\ from \in Nat /\ to \in Nat /\ from <= to /\ from >= bytes_consumed + 6
      /\ to <= bytes_consumed + frame_size
      /\ to - from < SLICE_NALU_DATA_MAX
      /\ end <=> to = bytes_consumed + frame_size
    BY <1>2, <1>3, <1>4, Constants DEF UnitEnd
<1>9. fu_start => UnitStart(p) = bytes_consumed + 1
    BY <1>2, <1>3, <1>5, Constants DEF UnitStart, UnitEnd
<1>10. end <=> Ends(to)
    <2>1. ASSUME ~end PROVE ~Ends(to)
        <3>1. to \in bytes_consumed + 5 .. bytes_consumed + frame_size - 1
            BY <1>3, <1>8, <2>1
        <3>2. bytes_consumed + frame_size <= Len(file)
            BY <1>2, <1>3
        <3> QED
            BY <1>2, <1>3, <3>1, <3>2, EndsInside
    <2> QED
        BY <1>2, <1>8, <2>1
<1>11. Clear(from, to)
    BY <1>2, <1>3, <1>8 DEF Clear
<1>12. Good(p)
    BY <1>2, <1>5, <1>8, <1>9, <1>10, <1>11 DEF Good
<1>13. sent = << >> => p.start /\ UnitStart(p) = 1
    <2>1. sent = << >> => bytes_consumed = 0 /\ fu_start
        BY <1>1 DEF IInv, Seam, FirstOfUnit
    <2> QED
        BY <1>5, <1>9, <2>1
<1>14. sent # << >> => Follows(Last, p)
    <2> SUFFICES ASSUME sent # << >> PROVE Follows(Last, p)
        OBVIOUS
    <2>1. Last \in Packet
        <3>1. Len(sent) \in 1 .. Len(sent)
            BY <1>2, EmptySeq DEF RtpSenderTypeOK
        <3> QED
            BY <1>2, <3>1, ElementOfSeq DEF RtpSenderTypeOK, Last
    <2>2. Last.timestamp \in Nat /\ Last.end \in BOOLEAN /\ Last.to \in Nat
        BY <2>1 DEF Packet
    <2>3. CASE fu_start
        <3>1. /\ Last.end /\ Last.to = bytes_consumed
              /\ timestamp = Last.timestamp + 1 /\ seq = (Last.seq + 1) % SEQS
            BY <1>1, <2>3 DEF IInv, Seam, FirstOfUnit
        <3> QED
            BY <1>5, <1>9, <2>2, <2>3, <3>1 DEF Follows
    <2>4. CASE ~fu_start
        <3>1. /\ Last.to = UnitEnd - data_left
              /\ Last.end <=> Last.to = UnitEnd
              /\ timestamp = Last.timestamp + 0 /\ seq = (Last.seq + 1) % SEQS
            BY <1>1, <2>4 DEF IInv, Seam, FirstOfUnit
        <3>2. ~Last.end /\ timestamp = Last.timestamp /\ from = Last.to + 1
            BY <1>1, <1>3, <2>2, <3>1 DEF UnitEnd
        <3> QED
            BY <1>5, <2>4, <3>1, <3>2 DEF Follows
    <2> QED
        BY <2>3, <2>4
<1>15. /\ Chain' /\ sent' # << >> /\ Last' = p /\ sent' \in Seq(Packet)
    BY <1>1, <1>2, <1>6, <1>12, <1>13, <1>14, ChainGrows
<1>16. data_left' \in 0 .. frame_size - 6 /\ data_left' \in 0 .. READ_LEN
    <2>1. /\ data_left \in Nat /\ frame_size \in Nat /\ READ_LEN \in Nat
          /\ data_left <= frame_size - 5 /\ data_left <= READ_LEN
          /\ proc_size \in Nat /\ proc_size >= 1 /\ proc_size <= data_left
        BY <1>2, <1>3, <1>4, Constants
    <2> QED
        BY <1>7, <2>1
<1>17. RtpSenderTypeOK'
    BY <1>1, <1>2, <1>6, <1>15, <1>16 DEF RtpSenderTypeOK
<1>18. Place'
    BY <1>1, SameFile DEF IInv, Place, InUnit
<1>19. Rest'
    BY <1>1, <1>3, <1>16 DEF Rest
<1>20. Seam'
    <2>1. ~FirstOfUnit' /\ pc' = "fragment"
        BY <1>1 DEF FirstOfUnit
    <2>2. /\ p.to = UnitEnd - data_left' /\ UnitEnd' = UnitEnd
          /\ p.end <=> p.to = UnitEnd
        <3>1. UnitEnd' = UnitEnd /\ UnitEnd = bytes_consumed + frame_size
            BY <1>1 DEF UnitEnd
        <3>2. proc_size \in Nat /\ UnitEnd \in Nat /\ p.to = to /\ p.end = end
            BY <1>3, <1>4, <1>5, <3>1
        <3>3. to = UnitEnd - data_left'
            BY <1>3, <1>7, <3>2
        <3> HIDE DEF to, end
        <3> QED
            BY <1>8, <3>1, <3>2, <3>3
    <2> QED
        BY <1>1, <1>3, <1>5, <1>15, <2>1, <2>2 DEF Seam
<1> QED
    BY <1>15, <1>17, <1>18, <1>19, <1>20 DEF IInv
-----------------------------------------------------------------------------
LEMMA NextInvariant == IInv /\ [Next]_vars => IInv'
<1> SUFFICES ASSUME IInv, [Next]_vars PROVE IInv'
    OBVIOUS
<1>1. CASE UNCHANGED vars
    <2>1. Rest' /\ Place' /\ Seam' /\ RtpSenderTypeOK'
        BY <1>1, SameFile DEF vars, IInv, Rest, Place, Seam, RtpSenderTypeOK,
             reach_last_nalu, FirstOfUnit, Last, UnitEnd
    <2> QED
        BY <1>1, <2>1, SamePackets DEF vars, IInv
<1> QED
    BY <1>1, StopKeeps, OpenKeeps, LoopKeeps, ReadKeeps, ScanKeeps, CutKeeps,
       SingleKeeps, FragmentKeeps, FragmentedKeeps, NextUnitKeeps
    DEF Next, Thread

LEMMA Invariant == Spec => []IInv
    BY InitInvariant, NextInvariant, PTL DEF Spec

\* rtp_h264.c:193-233, 341-381: what a receiver puts together from the
\* packets are the units of the file, for every file, block and packet size.
THEOREM SendsUnits == Spec => []PacketsAreUnits
<1>1. IInv => PacketsAreUnits
    <2> SUFFICES ASSUME IInv, NEW n \in 1 .. Len(sent)
                 PROVE  LET p == sent[n]
                            room == IF p.whole THEN SINGLE_NALU_DATA_MAX
                                               ELSE SLICE_NALU_DATA_MAX
                        IN  /\ p.to - p.from < room
                            /\ p.start =>
                                 /\ Begins(UnitStart(p))
                                 /\ IF n = 1 THEN UnitStart(p) = 1
                                    ELSE UnitStart(p) = sent[n - 1].to + 1
                            /\ ~p.start => n > 1 /\ p.from = sent[n - 1].to + 1
                            /\ p.end <=> Ends(p.to)
                            /\ \A k \in p.from .. p.to : ~Begins(k)
        BY DEF IInv, PacketsAreUnits
    <2>1. /\ Good(sent[n])
          /\ n = 1 => sent[n].start /\ UnitStart(sent[n]) = 1
          /\ n > 1 => Follows(sent[n - 1], sent[n])
        BY DEF IInv, Chain
    <2>2. n \in Nat /\ (n = 1 \/ n > 1)
        BY DEF IInv, RtpSenderTypeOK
    <2> QED
        BY <2>1, <2>2 DEF Good, Follows, Clear
<1> QED
    BY <1>1, Invariant, PTL

\* rtp_h264.c:303-326: the start and end bits, the timestamps and the
\* sequence numbers say where each unit begins and ends.
THEOREM BitsTell == Spec => []BitsTellUnits
<1>1. IInv => BitsTellUnits
    BY DEF IInv, Chain, Good, Follows, BitsTellUnits
<1> QED
    BY <1>1, Invariant, PTL
=============================================================================
