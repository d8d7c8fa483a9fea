----------------------------- MODULE RtpSender -----------------------------
(***************************************************************************)
(* The streaming thread of the RTSP server (rtsp/src/rtp_h264.c): it reads *)
(* a file of NAL units a block at a time, cuts the block at the start      *)
(* codes, and sends every unit as one RTP packet or, when it is too long,  *)
(* as fragments (FU-A).  A unit that does not end in the block is read     *)
(* again with the next one.                                                *)
(*                                                                         *)
(* A packet carries an interval of the file.  The session may clear the    *)
(* flag is_runing at any time; RtspServer has what happens when a later    *)
(* session sets it again.  Whether a packet arrives is up to UDP: write    *)
(* is called once for each, and its failure is only noted.                 *)
(***************************************************************************)
EXTENDS Integers, Sequences

CONSTANTS
    Files,                 \* the files that may be asked for
    READ_LEN,
    SINGLE_NALU_DATA_MAX,  \* what fits in a packet after its header
    SEQS                   \* how many sequence numbers there are

NALU_INDIC_SIZE == 4
SLICE_NALU_DATA_MAX == SINGLE_NALU_DATA_MAX - 2

ASSUME RtpSenderAssumption ==
    /\ \A f \in Files : f \in Seq(0 .. 255)
    /\ READ_LEN \in Nat /\ READ_LEN > 2 * NALU_INDIC_SIZE
    /\ SINGLE_NALU_DATA_MAX \in Nat /\ SINGLE_NALU_DATA_MAX > 2
    /\ SEQS \in Nat \ {0}

VARIABLES
    file,            \* the file
    pc,              \* where the thread is
    is_runing,       \* the session's flag
    stopped,         \* history: whether the session cleared it
    bytes_consumed,  \* how much of the file is sent; p_tmp points there
    bytes_left,      \* what inbufs holds from there on
    frame_size,      \* how far abstr_nalu_indic has looked
    be_found,        \* whether it met a start code
    data_left,       \* what is left of the unit in build_rtp_nalu
    fu_start,        \* whether the next fragment is its first
    seq,             \* cmd_port.seq
    timestamp,       \* cmd_port.timestamp, in steps
    sent             \* the packets, in the order of the writes

vars == <<file, pc, is_runing, stopped, bytes_consumed, bytes_left,
          frame_size, be_found, data_left, fu_start, seq, timestamp, sent>>

\* A packet: of a whole unit (neither bit is there; TRUE for both), or a
\* fragment with its start and end bit.  from and to are the bytes it
\* carries; of a fragmented unit the first byte travels in the FU headers.
Packet == [whole : BOOLEAN, start : BOOLEAN, end : BOOLEAN,
           from : Nat, to : Nat, seq : 0 .. SEQS - 1, timestamp : Nat]

Init ==
    /\ file \in Files
    /\ pc = "open" /\ is_runing = TRUE /\ stopped = FALSE
    /\ bytes_consumed = 0 /\ bytes_left = 0
    /\ frame_size = 0 /\ be_found = FALSE
    /\ data_left = 0 /\ fu_start = FALSE
    /\ seq \in 0 .. SEQS - 1 /\ timestamp = 0 /\ sent = << >>

unitVars == <<bytes_consumed, bytes_left, frame_size, be_found>>
sendVars == <<data_left, fu_start, seq, timestamp, sent>>

\* The session ends, or a command fails.
Stop ==
    /\ pc # "end" /\ is_runing
    /\ is_runing' = FALSE /\ stopped' = TRUE
    /\ UNCHANGED <<file, pc, unitVars, sendVars>>

\* No thread without a file, and none for a file with no unit in it
Open ==
    /\ pc = "open"
    /\ pc' \in {"end"} \cup (IF Len(file) > NALU_INDIC_SIZE THEN {"loop"}
                                                            ELSE {})
    /\ UNCHANGED <<file, is_runing, stopped, unitVars, sendVars>>

Loop ==
    /\ pc = "loop"
    /\ pc' = IF is_runing THEN "read" ELSE "end"
    /\ UNCHANGED <<file, is_runing, stopped, unitVars, sendVars>>

\* fseek to what is not sent yet, and fread
Read ==
    /\ pc = "read"
    /\ LET rest == Len(file) - bytes_consumed
       IN  bytes_left' = IF rest < READ_LEN THEN rest ELSE READ_LEN
    /\ frame_size' = NALU_INDIC_SIZE /\ be_found' = FALSE
    /\ pc' = IF bytes_left' > 0 THEN "scan" ELSE "loop"
    /\ UNCHANGED <<file, is_runing, stopped, bytes_consumed, sendVars>>

\* The byte j places after where abstr_nalu_indic looks
Byte(j) == file[bytes_consumed + frame_size + j + 1]

\* How far the start code can be, by the bytes that rule it out
Offset ==
    CASE Byte(2) # 0 -> 3
      [] Byte(2) = 0 /\ Byte(1) # 0 -> 2
      [] Byte(2) = 0 /\ Byte(1) = 0 /\ Byte(0) # 0 -> 1
      [] OTHER -> IF Byte(3) # 0 THEN 4 ELSE 1

MoreToLook == frame_size < bytes_left - NALU_INDIC_SIZE

\* One turn of the loop of abstr_nalu_indic, or its end
Scan ==
    /\ pc = "scan"
    /\ IF ~MoreToLook
       THEN frame_size' = bytes_left /\ be_found' = FALSE /\ pc' = "cut"
       ELSE IF Byte(0) = 0 /\ Byte(1) = 0 /\ Byte(2) = 0 /\ Byte(3) = 1
       THEN be_found' = TRUE /\ pc' = "cut" /\ UNCHANGED frame_size
       ELSE frame_size' = frame_size + Offset /\ UNCHANGED <<be_found, pc>>
    /\ UNCHANGED <<file, is_runing, stopped, bytes_consumed, bytes_left,
                   sendVars>>

reach_last_nalu == bytes_consumed + frame_size >= Len(file)

(* Mutant: the rest of a block is taken for a unit. *)
CutAnyway ==
    /\ pc = "cut"
    /\ pc' = "single" /\ data_left' = frame_size - NALU_INDIC_SIZE
    /\ UNCHANGED <<file, is_runing, stopped, bytes_consumed, bytes_left,
                   frame_size, be_found, fu_start, seq, timestamp, sent>>

\* A unit that ends in the block, or the last one of the file, is sent; the
\* rest of a block is dropped.
Cut ==
    /\ pc = "cut"
    /\ IF be_found \/ reach_last_nalu
       THEN /\ pc' = "single" /\ data_left' = frame_size - NALU_INDIC_SIZE
            /\ UNCHANGED bytes_left
       ELSE /\ pc' = "loop" /\ bytes_left' = bytes_left - frame_size
            /\ UNCHANGED data_left
    /\ UNCHANGED <<file, is_runing, stopped, bytes_consumed, frame_size,
                   be_found, fu_start, seq, timestamp, sent>>

\* The end of what is left of the unit
UnitEnd == bytes_consumed + frame_size

Write(p) == sent' = Append(sent, p) /\ seq' = (seq + 1) % SEQS

\* build_rtp_nalu up to the loop: one packet, or the byte that goes into the
\* FU headers
Single ==
    /\ pc = "single"
    /\ timestamp' = timestamp + 1
    /\ IF data_left <= SINGLE_NALU_DATA_MAX
       THEN /\ Write([whole |-> TRUE, start |-> TRUE, end |-> TRUE,
                      from |-> UnitEnd - data_left + 1, to |-> UnitEnd,
                      seq |-> seq, timestamp |-> timestamp'])
            /\ pc' = "next" /\ UNCHANGED <<data_left, fu_start>>
       ELSE /\ data_left' = data_left - 1 /\ fu_start' = TRUE
            /\ pc' = "fragment" /\ UNCHANGED <<sent, seq>>
    /\ UNCHANGED <<file, is_runing, stopped, unitVars>>

(* Mutant: a last fragment that is full is not marked as the last. *)
FragmentFull ==
    /\ pc = "fragment" /\ data_left > 0
    /\ LET proc_size == IF data_left < SLICE_NALU_DATA_MAX
                        THEN data_left ELSE SLICE_NALU_DATA_MAX
           fu_end == proc_size < SLICE_NALU_DATA_MAX
           from   == UnitEnd - data_left + 1
       IN  /\ Write([whole |-> FALSE, start |-> fu_start,
                     end |-> ~fu_start /\ fu_end,
                     from |-> from, to |-> from + proc_size - 1,
                     seq |-> seq, timestamp |-> timestamp])
           /\ data_left' = data_left - proc_size
    /\ fu_start' = FALSE
    /\ UNCHANGED <<file, pc, is_runing, stopped, unitVars, timestamp>>

\* Of a fragment that were the first and the last the code sets one bit only.
Fragment ==
    /\ pc = "fragment" /\ data_left > 0
    /\ LET proc_size == IF data_left < SLICE_NALU_DATA_MAX
                        THEN data_left ELSE SLICE_NALU_DATA_MAX
           fu_end == proc_size = data_left
           from   == UnitEnd - data_left + 1
       IN  /\ Write([whole |-> FALSE, start |-> fu_start,
                     end |-> ~fu_start /\ fu_end,
                     from |-> from, to |-> from + proc_size - 1,
                     seq |-> seq, timestamp |-> timestamp])
           /\ data_left' = data_left - proc_size
    /\ fu_start' = FALSE
    /\ UNCHANGED <<file, pc, is_runing, stopped, unitVars, timestamp>>

Fragmented ==
    /\ pc = "fragment" /\ data_left = 0 /\ pc' = "next"
    /\ UNCHANGED <<file, is_runing, stopped, unitVars, sendVars>>

(* Mutant: the end of the file does not stop the thread. *)
NextUnitOn ==
    /\ pc = "next"
    /\ bytes_consumed' = bytes_consumed + frame_size
    /\ bytes_left' = bytes_left - frame_size
    /\ frame_size' = NALU_INDIC_SIZE /\ be_found' = FALSE
    /\ pc' = IF bytes_left' > 0 THEN "scan" ELSE "loop"
    /\ UNCHANGED <<file, is_runing, stopped, sendVars>>

\* On to the next unit of the block; the last of the file stops the thread.
NextUnit ==
    /\ pc = "next"
    /\ bytes_consumed' = bytes_consumed + frame_size
    /\ bytes_left' = bytes_left - frame_size
    /\ is_runing' = (is_runing /\ ~reach_last_nalu)
    /\ frame_size' = NALU_INDIC_SIZE /\ be_found' = FALSE
    /\ pc' = IF bytes_left' > 0 THEN "scan" ELSE "loop"
    /\ UNCHANGED <<file, stopped, sendVars>>

Thread == \/ Open \/ Loop \/ Read \/ Scan \/ Cut
          \/ Single \/ Fragment \/ Fragmented \/ NextUnit

Next == Thread \/ Stop

Spec == Init /\ [][Next]_vars

\* The thread runs.
FairSpec == Spec /\ WF_vars(Thread)
-----------------------------------------------------------------------------
\* Where the units of a file begin: at its first byte, and at every start
\* code that has a byte after it
Begins(k) ==
    \/ k = 1
    \/ /\ k > NALU_INDIC_SIZE /\ k + NALU_INDIC_SIZE <= Len(file)
       /\ file[k] = 0 /\ file[k + 1] = 0 /\ file[k + 2] = 0 /\ file[k + 3] = 1
\* ... and where they end
Ends(k) == k = Len(file) \/ (k < Len(file) /\ Begins(k + 1))

RtpSenderTypeOK ==
    /\ file \in Files
    /\ pc \in {"open", "loop", "read", "scan", "cut", "single", "fragment",
               "next", "end"}
    /\ is_runing \in BOOLEAN /\ stopped \in BOOLEAN
    /\ bytes_consumed \in 0 .. Len(file)
    /\ bytes_left \in 0 .. READ_LEN
    /\ bytes_consumed + bytes_left <= Len(file)
    /\ frame_size \in 0 .. READ_LEN /\ be_found \in BOOLEAN
    /\ data_left \in 0 .. READ_LEN /\ fu_start \in BOOLEAN
    /\ seq \in 0 .. SEQS - 1 /\ timestamp \in Nat
    /\ sent \in Seq(Packet)

\* Where the unit a packet begins or ends starts and ends in the file: the
\* start code, and of a fragmented unit its first byte, are left out.
UnitStart(p) == p.from - NALU_INDIC_SIZE - (IF p.whole THEN 0 ELSE 1)

\* The packets are the units of the file: the first packet begins the first
\* unit, each next one goes on where the one before stopped or, after the
\* last of a unit, begins the next one; no packet reaches across a boundary.
\* So a receiver that puts the payloads together gets the file's units, each
\* whole and once, whatever the blocks were.  Nor is a packet longer than
\* RTP_SIZE_MAX.  (And all variables are typed.)
PacketsAreUnits ==
    RtpSenderTypeOK /\ \A n \in 1 .. Len(sent) :
        LET p == sent[n]
            room == IF p.whole THEN SINGLE_NALU_DATA_MAX ELSE SLICE_NALU_DATA_MAX
        IN  /\ p.to - p.from < room
            /\ p.start => /\ Begins(UnitStart(p))
                          /\ IF n = 1 THEN UnitStart(p) = 1
                             ELSE UnitStart(p) = sent[n - 1].to + 1
            /\ ~p.start => n > 1 /\ p.from = sent[n - 1].to + 1
            /\ p.end <=> Ends(p.to)
            /\ \A k \in p.from .. p.to : ~Begins(k)

\* The bits tell a receiver where units begin and end: after an end bit, and
\* only then, comes a start bit; no packet of a fragmented unit has both;
\* the packets of a unit share their timestamp, and no two units do.
BitsTellUnits ==
    \A n \in 1 .. Len(sent) :
        LET p == sent[n]
        IN  /\ p.start /\ p.end => p.whole
            /\ n = 1 => p.start
            /\ n > 1 => /\ p.start <=> sent[n - 1].end
                        /\ p.start <=> p.timestamp # sent[n - 1].timestamp
                        /\ p.seq = (sent[n - 1].seq + 1) % SEQS

\* Every unit that another follows ends, with the start code that follows,
\* before the end of a block; so does the last one without a start code.
FitsBlocks ==
    \A k \in 1 .. Len(file) : Begins(k) =>
        \/ k + READ_LEN - 1 >= Len(file)
        \/ \E l \in k + 1 .. k + READ_LEN - NALU_INDIC_SIZE - 1 : Begins(l)

\* A file whose units fit is sent to its end, and a stream that is stopped
\* ends; only a unit longer than a block is read for ever.
StreamEnds ==
    FitsBlocks \/ stopped ~>
        pc = "end" /\ (stopped \/ bytes_consumed \in {0, Len(file)})
=============================================================================
