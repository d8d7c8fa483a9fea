-------------------------- MODULE ListServerProofs --------------------------
(***************************************************************************)
(* The list build of server.c without a lock: main may lose an entry, but  *)
(* the worker never meets one that was freed, and what is written keeps    *)
(* the order of each client's bytes.  For every number of clients, every   *)
(* size of their streams, of a read and of a write.                        *)
(***************************************************************************)
EXTENDS ListServer, SequenceTheorems, FiniteSetTheorems, WellFoundedInduction,
        TLAPS

LEMMA Constants ==
  /\ Clients \in Nat \ {0} /\ Stream \in Nat \ {0}
  /\ BUFFER_SIZE \in Nat \ {0} /\ PIECE \in Nat \ {0} /\ Faults \in BOOLEAN
  /\ MaxEntry \in Nat \ {0} /\ Net!AllBytes = 1 .. MaxEntry
<1>1. /\ Clients \in Nat \ {0} /\ Stream \in Nat \ {0}
      /\ BUFFER_SIZE \in Nat \ {0} /\ PIECE \in Nat \ {0} /\ Faults \in BOOLEAN
  BY ListServerAssumption
<1>2. MaxEntry \in Nat \ {0}
  BY <1>1 DEF MaxEntry
<1> QED
  BY <1>1, <1>2 DEF MaxEntry, Net!AllBytes

LEMMA StoreNames ==
  /\ DOMAIN Stores = {"head_prev", "new_next", "new_prev", "tail_next"}
  /\ Stores["head_prev"] = "new_next" /\ Stores["new_next"] = "new_prev"
  /\ Stores["new_prev"] = "tail_next" /\ Stores["tail_next"] = "loop"
  BY DEF Stores
-----------------------------------------------------------------------------
(* The bytes of one client in what is read, held and written.              *)
Owner(b) == (b - 1) \div Stream

Ordered(x) ==
  \A i, j \in 1 .. Len(x) : i < j /\ Owner(x[i]) = Owner(x[j]) => x[i] < x[j]

(* Of one client, what is in x was sent before what is in y.               *)
Before(x, y) ==
  \A i \in 1 .. Len(x), j \in 1 .. Len(y) :
    Owner(x[i]) = Owner(y[j]) => x[i] < y[j]

(* No byte of x is still to be read, when t bytes have been.               *)
ReadBy(x, t) ==
  \A i \in 1 .. Len(x), c \in Net!Client :
    Owner(x[i]) = c - 1 => x[i] <= Net!Id(c, t[c])

(* The entries main is done with.  The one it is adding comes after them.  *)
linked == IF mpc = "loop" THEN added ELSE added - 1
Adding == mpc \in {"head_prev", "new_next", "new_prev", "tail_next"}
InHand == wpc \in {"read", "del", "unlink_prev", "unlink_next", "free"}

(* An entry leads to the one added after it, or back to the head.          *)
Chain ==
  \A n \in 1 .. linked : n \notin freed =>
    next[n] = 0 \/ (next[n] = n + 1 /\ n + 1 <= linked)

(* The head is empty, or the worker is about to make it so.                *)
Emptied == next[0] = 0 \/ (wpc = "unlink_next" /\ e_next = 0)

(* main: the tail is the last entry or the head, and the head only when it *)
(* is empty.                                                               *)
AddState ==
  /\ added \in Nat /\ (mpc # "loop" => added > 0)
  /\ prev[0] \in {0, IF mpc \in {"tail", "head_prev"} THEN added - 1 ELSE added}
  /\ prev[0] = 0 => Emptied
  /\ Adding => tail \in {0, added - 1} /\ (tail = 0 => Emptied)
  /\ mpc \in {"new_next", "new_prev", "tail_next"} /\ tail = 0 => prev[0] = added
  /\ mpc \in {"new_prev", "tail_next"} => next[added] = 0
  /\ mpc = "tail_next" => prev[added] = tail

(* The first entry leads back to the head, and what was freed was before.  *)
HeadState ==
  /\ next[0] \in 0 .. linked
  /\ freed \subseteq 1 .. linked
  /\ next[0] # 0 => prev[next[0]] = 0 /\ \A f \in freed : f < next[0]
  /\ wpc \in {"first", "read", "del", "unlink_prev", "unlink_next"} => next[0] # 0

(* The worker has the first entry in hand until it unlinks it.             *)
HandState ==
  /\ InHand => entry \in 1 .. linked /\ \A f \in freed : f < entry
  /\ wpc \in {"read", "del", "unlink_prev"} => next[0] = entry
  /\ wpc \in {"unlink_prev", "unlink_next"} =>
       e_prev = 0 /\ (e_next = 0 \/ (e_next = entry + 1 /\ e_next <= linked))
  /\ wpc = "unlink_next" => \/ e_next = 0 /\ next[0] >= entry
                            \/ next[0] = entry /\ prev[e_next] = 0
  /\ wpc = "free" => next[0] = 0 \/ next[0] > entry

(* Reads come in the order they were sent, and so do the entries.          *)
DataState ==
  /\ mpc # "loop" => chunk # <<>>
  /\ Ordered(chunk) /\ ReadBy(chunk, taken) /\ Len(chunk) <= BUFFER_SIZE
  /\ \A e \in 1 .. added : /\ data[e] # <<>> /\ Len(data[e]) <= BUFFER_SIZE
                           /\ Ordered(data[e]) /\ ReadBy(data[e], taken)
                           /\ mpc = "loop" => Before(data[e], chunk)
  /\ \A e, f \in 1 .. added : e < f => Before(data[e], data[f])

(* Nothing is written of an entry behind the first one.                    *)
Progress ==
  /\ \A e \in Entry : position[e] <= Len(data[e])
  /\ \A e \in Entry : position[e] > 0 =>
       e <= linked /\ (next[0] = 0 \/ e <= next[0])
  /\ \A e \in freed : position[e] = Len(data[e])
  /\ wpc \in {"del", "unlink_prev", "unlink_next", "free"} =>
       position[entry] = Len(data[entry])

(* The file has of every entry what its position says, and nothing else.   *)
FileState ==
  /\ Ordered(file)
  /\ \A i \in 1 .. Len(file) : \E e \in 1 .. linked : \E k \in 1 .. position[e] :
       file[i] = data[e][k]
  /\ \A e \in 1 .. linked : \A k \in 1 .. position[e] :
       \E i \in 1 .. Len(file) : file[i] = data[e][k]

Links == Chain /\ AddState /\ HeadState /\ HandState
IInv == TypeOK /\ Links /\ DataState /\ Progress /\ FileState
-----------------------------------------------------------------------------
(* What everything below starts from.                                      *)
LEMMA StateTypes ==
  ASSUME TypeOK
  PROVE  /\ next \in [Node -> Node \cup {NULL}] /\ prev \in [Node -> Node \cup {NULL}]
         /\ added \in 0 .. MaxEntry /\ MaxEntry \in Nat
         /\ Node = 0 .. MaxEntry /\ Entry = 1 .. MaxEntry
         /\ data \in [Entry -> Seq(Net!AllBytes)]
         /\ position \in [Entry -> 0 .. BUFFER_SIZE] /\ BUFFER_SIZE \in Nat
         /\ Net!NetTypeOK /\ file \in Seq(Net!AllBytes) /\ freed \subseteq Entry
         /\ chunk \in Seq(Net!AllBytes)
         /\ \A e \in Entry : data[e] \in Seq(Net!AllBytes) /\ position[e] \in Nat
         /\ \A x \in Seq(Net!AllBytes) : Len(x) \in Nat
<1>1. /\ next \in [Node -> Node \cup {NULL}] /\ prev \in [Node -> Node \cup {NULL}]
      /\ added \in 0 .. MaxEntry
      /\ data \in [Entry -> Seq(Net!AllBytes)]
      /\ position \in [Entry -> 0 .. BUFFER_SIZE]
      /\ Net!NetTypeOK /\ file \in Seq(Net!AllBytes) /\ freed \subseteq Entry
      /\ chunk \in Seq(Net!AllBytes)
  BY DEF TypeOK, Net!NetTypeOK
<1>2. MaxEntry \in Nat /\ BUFFER_SIZE \in Nat
  BY Constants
<1>3. Node = 0 .. MaxEntry /\ Entry = 1 .. MaxEntry
  BY <1>2 DEF Node, Entry
<1>4. \A e \in Entry : data[e] \in Seq(Net!AllBytes) /\ position[e] \in Nat
  BY <1>1, <1>2
<1>5. \A x \in Seq(Net!AllBytes) : Len(x) \in Nat
  BY LenProperties
<1> QED
  BY <1>1, <1>2, <1>3, <1>4, <1>5

LEMMA InitInvariant == Init => IInv
<1> SUFFICES ASSUME Init PROVE IInv
  OBVIOUS
<1>0. <<>> \in Seq(Net!AllBytes) /\ Len(<<>>) = 0
  BY EmptySeq
<1>1. Net!NetTypeOK
  BY <1>0, Constants DEF Init, Net!NetInit, Net!NetTypeOK
<1>2. TypeOK
  <2>1. /\ next \in [Node -> Node \cup {NULL}]
        /\ prev \in [Node -> Node \cup {NULL}]
    BY DEF Init, Node
  <2>2. position \in [Entry -> 0 .. BUFFER_SIZE] /\ added \in 0 .. MaxEntry
    BY Constants DEF Init
  <2>3. data \in [Entry -> Seq(Net!AllBytes)] /\ file \in Seq(Net!AllBytes)
    BY <1>0 DEF Init
  <2> QED
    BY <1>1, <2>1, <2>2, <2>3 DEF Init, TypeOK, Node
<1>3. next[0] = 0 /\ prev[0] = 0
  BY DEF Init, Node
<1>4. Links
  BY <1>3 DEF Init, Links, Chain, AddState, HeadState, HandState, linked, Adding,
              InHand, Emptied
<1>5. DataState
  BY <1>0, Constants DEF Init, Net!NetInit, DataState, Ordered, ReadBy
<1>6. Progress /\ FileState
  <2>1. \A e \in Entry : position[e] = 0 /\ data[e] = <<>>
    BY DEF Init
  <2>2. file = <<>> /\ added = 0 /\ freed = {} /\ wpc = "poll" /\ mpc = "loop"
    BY DEF Init
  <2> QED
    BY <1>0, <2>1, <2>2 DEF Progress, FileState, Ordered, linked
<1> QED
  BY <1>2, <1>4, <1>5, <1>6 DEF IInv
-----------------------------------------------------------------------------
(* Steps that leave some parts alone.                                      *)
LEMMA LinksRest ==
  ASSUME Links, UNCHANGED <<next, prev, freed, added, tail, entry, e_prev, e_next>>,
         mpc' = mpc, wpc' = wpc
  PROVE  Links'
  BY DEF Links, Chain, AddState, HeadState, HandState, linked, Adding, InHand, Emptied

LEMMA NothingInside ==
  /\ Ordered(<<>>)
  /\ \A x, t : Before(x, <<>>) /\ ReadBy(<<>>, t)
  BY DEF Ordered, Before, ReadBy

LEMMA DataRests ==
  ASSUME TypeOK, DataState, UNCHANGED <<data, added, taken>>,
         \/ chunk' = chunk /\ (mpc' = mpc \/ (mpc # "loop" /\ mpc' # "loop"))
         \/ chunk' = <<>> /\ mpc' = "loop"
  PROVE  DataState'
<1>1. CASE chunk' = chunk /\ (mpc' = mpc \/ (mpc # "loop" /\ mpc' # "loop"))
  BY <1>1 DEF DataState
<1>2. CASE chunk' = <<>> /\ mpc' = "loop"
  <2>1. Len(<<>>) = 0 /\ 0 <= BUFFER_SIZE
    BY Constants
  <2> QED
    BY <1>2, <2>1, NothingInside DEF DataState
<1> QED
  BY <1>1, <1>2

LEMMA FileRests ==
  ASSUME IInv, UNCHANGED <<data, position, file>>,
         linked' = linked \/ (linked' = linked + 1 /\ linked' <= MaxEntry)
  PROVE  FileState'
<1>1. linked \in Nat /\ FileState /\ Progress /\ linked <= MaxEntry /\ MaxEntry \in Nat
      /\ Entry = 1 .. MaxEntry /\ \A e \in Entry : position[e] \in Nat
  BY StateTypes DEF IInv, Links, AddState, linked
<1>2. ASSUME NEW e \in 1 .. linked' \ 1 .. linked
      PROVE  position[e] = 0
  <2>1. e \in Entry /\ ~(e <= linked)
    BY <1>1, <1>2
  <2> QED
    BY <1>1, <2>1 DEF Progress
<1>3. 1 .. linked \subseteq 1 .. linked'
  BY <1>1
<1>4. \A i \in 1 .. Len(file) : \E e \in 1 .. linked : \E k \in 1 .. position[e] :
        file[i] = data[e][k]
  BY <1>1 DEF FileState
<1>5. \A i \in 1 .. Len(file) : \E e \in 1 .. linked' : \E k \in 1 .. position[e] :
        file[i] = data[e][k]
  BY <1>3, <1>4
<1>6. \A e \in 1 .. linked' : \A k \in 1 .. position[e] :
        \E i \in 1 .. Len(file) : file[i] = data[e][k]
  <2> SUFFICES ASSUME NEW e \in 1 .. linked', NEW k \in 1 .. position[e]
               PROVE  \E i \in 1 .. Len(file) : file[i] = data[e][k]
    OBVIOUS
  <2>1. e \in 1 .. linked
    BY <1>2
  <2> QED
    BY <1>1, <2>1 DEF FileState
<1> QED
  BY <1>1, <1>5, <1>6 DEF FileState

(* Steps of the worker that write nothing.                                 *)
LEMMA WorkerSteps ==
  ASSUME IInv, UNCHANGED <<netVars, chunk, data, position, mainVars, file>>,
         TypeOK', Links', freed' = freed,
         next'[0] \in {0, next[0]} \/ (next[0] # 0 /\ next[0] < next'[0]),
         wpc' \in {"del", "unlink_prev", "unlink_next", "free"} =>
           wpc \in {"del", "unlink_prev", "unlink_next", "free"} /\ entry' = entry
  PROVE  IInv'
<1>1. linked' = linked /\ mpc' = mpc /\ added' = added /\ taken' = taken
  BY DEF linked, mainVars, netVars
<1>2. DataState'
  BY <1>1, DataRests DEF IInv
<1>3. FileState'
  BY <1>1, FileRests
<1>4. /\ TypeOK /\ Progress /\ next[0] \in Nat /\ next'[0] \in Nat
  BY DEF IInv, Links, HeadState, linked, AddState
<1>5. Progress'
  <2>1. \A e \in Entry : position[e] > 0 => next'[0] = 0 \/ e <= next'[0]
    <3> SUFFICES ASSUME NEW e \in Entry, position[e] > 0, next'[0] # 0
                 PROVE  e <= next'[0]
      OBVIOUS
    <3>1. next[0] = 0 \/ e <= next[0]
      BY <1>4 DEF Progress
    <3>2. e \in Nat
      BY <1>4, StateTypes
    <3> QED
      BY <1>4, <3>1, <3>2
  <2> QED
    BY <1>1, <1>4, <2>1 DEF Progress
<1> QED
  BY <1>2, <1>3, <1>5 DEF IInv
-----------------------------------------------------------------------------
(* The worker: the first entry, its links, and out of the list.            *)
LEMMA PollKeeps == IInv /\ Poll => IInv'
<1> SUFFICES ASSUME IInv, Poll PROVE IInv'
  OBVIOUS
<1>1. /\ wpc = "poll" /\ wpc' = "first" /\ next[0] # 0
      /\ UNCHANGED <<netVars, chunk, next, prev, data, position, freed, mainVars,
                     entry, e_prev, e_next, file>>
  BY DEF Poll, listVars
<1>2. TypeOK'
  BY <1>1 DEF IInv, TypeOK, Net!NetTypeOK, netVars, mainVars
<1>3. Links'
  BY <1>1 DEF IInv, Links, Chain, AddState, HeadState, HandState, linked, Adding,
              InHand, Emptied, mainVars
<1> QED
  BY <1>1, <1>2, <1>3, WorkerSteps DEF mainVars

LEMMA FirstKeeps == IInv /\ First => IInv'
<1> SUFFICES ASSUME IInv, First PROVE IInv'
  OBVIOUS
<1>1. /\ wpc = "first" /\ wpc' = "read" /\ entry' = next[0]
      /\ UNCHANGED <<netVars, chunk, next, prev, data, position, freed, mainVars,
                     e_prev, e_next, file>>
  BY DEF First, listVars
<1>2. next[0] \in Node \cup {NULL} /\ 0 \in Node
  BY StateTypes DEF IInv, Node
<1>3. TypeOK'
  BY <1>1, <1>2 DEF IInv, TypeOK, Net!NetTypeOK, netVars, mainVars
<1>4. /\ Chain /\ AddState /\ HeadState /\ HandState /\ linked' = linked
      /\ linked \in Nat /\ mpc' = mpc /\ added' = added /\ tail' = tail
  BY <1>1 DEF IInv, Links, linked, AddState, mainVars
<1>5. Chain' /\ AddState' /\ HeadState'
  BY <1>1, <1>4 DEF Chain, AddState, HeadState, Adding, Emptied
<1>6. HandState'
  BY <1>1, <1>4 DEF HandState, HeadState, InHand
<1> QED
  BY <1>1, <1>3, <1>5, <1>6, WorkerSteps DEF Links

LEMMA LoadLinksKeeps == IInv /\ LoadLinks => IInv'
<1> SUFFICES ASSUME IInv, LoadLinks PROVE IInv'
  OBVIOUS
<1>1. /\ wpc = "del" /\ wpc' = "unlink_prev"
      /\ e_prev' = prev[entry] /\ e_next' = next[entry]
      /\ UNCHANGED <<netVars, chunk, next, prev, data, position, freed, mainVars,
                     entry, file>>
  BY DEF LoadLinks, listVars
<1>2. /\ Chain /\ AddState /\ HeadState /\ HandState /\ linked' = linked
      /\ linked \in Nat /\ mpc' = mpc /\ added' = added /\ tail' = tail
  BY <1>1 DEF IInv, Links, linked, AddState, mainVars
<1>3. /\ entry \in 1 .. linked /\ entry \notin freed /\ next[0] = entry
  BY <1>1, <1>2 DEF HandState, InHand
<1>4. /\ e_prev' = 0 /\ (e_next' = 0 \/ (e_next' = entry + 1 /\ e_next' <= linked))
  BY <1>1, <1>2, <1>3 DEF HeadState, Chain
<1>5. TypeOK'
  <2>1. linked <= MaxEntry /\ Node = 0 .. MaxEntry /\ MaxEntry \in Nat
    BY StateTypes DEF IInv, linked
  <2>2. e_prev' \in Node /\ e_next' \in Node
    BY <1>2, <1>3, <1>4, <2>1
  <2> QED
    BY <1>1, <2>2 DEF IInv, TypeOK, Net!NetTypeOK, netVars, mainVars
<1>6. Chain' /\ AddState' /\ HeadState'
  BY <1>1, <1>2 DEF Chain, AddState, HeadState, Adding, Emptied
<1>7. HandState'
  BY <1>1, <1>2, <1>3, <1>4 DEF HandState, InHand
<1> QED
  BY <1>1, <1>5, <1>6, <1>7, WorkerSteps DEF Links

LEMMA UnlinkPrevKeeps == IInv /\ UnlinkPrev => IInv'
<1> SUFFICES ASSUME IInv, UnlinkPrev PROVE IInv'
  OBVIOUS
<1>1. /\ wpc = "unlink_prev" /\ wpc' = "unlink_next"
      /\ prev' = [prev EXCEPT ![e_next] = e_prev]
      /\ UNCHANGED <<netVars, chunk, next, data, position, freed, mainVars,
                     entry, e_prev, e_next, file>>
  BY DEF UnlinkPrev
<1>2. /\ Chain /\ AddState /\ HeadState /\ HandState /\ linked' = linked
      /\ linked \in Nat /\ mpc' = mpc /\ added' = added /\ tail' = tail
      /\ added \in Nat
  BY <1>1 DEF IInv, Links, linked, AddState, mainVars
<1>3. /\ entry \in 1 .. linked /\ next[0] = entry /\ e_prev = 0
      /\ e_next = 0 \/ (e_next = entry + 1 /\ e_next <= linked)
  BY <1>1, <1>2 DEF HandState, InHand
<1>4. /\ linked <= MaxEntry /\ Node = 0 .. MaxEntry /\ MaxEntry \in Nat
      /\ prev \in [Node -> Node \cup {NULL}] /\ next \in [Node -> Node \cup {NULL}]
  BY StateTypes DEF IInv, linked
<1>5. /\ prev' \in [Node -> Node \cup {NULL}]
      /\ \A n \in Node : prev'[n] = IF n = e_next THEN 0 ELSE prev[n]
  <2>1. e_prev \in Node /\ e_next \in Node
    BY <1>2, <1>3, <1>4
  <2> QED
    BY <1>1, <1>3, <1>4, <2>1
<1>6. TypeOK'
  BY <1>1, <1>5 DEF IInv, TypeOK, Net!NetTypeOK, netVars, mainVars
<1>7. Chain'
  BY <1>1, <1>2 DEF Chain
<1>8. prev[0] # 0 /\ (Adding => tail # 0)
  BY <1>1, <1>2, <1>3 DEF AddState, Emptied
<1>9. AddState'
  <2>1. 0 \in Node /\ prev'[0] = (IF e_next = 0 THEN 0 ELSE prev[0])
    BY <1>4, <1>5
  <2>2. prev'[0] = 0 => Emptied'
    BY <1>1, <1>8, <2>1 DEF Emptied
  <2>3. mpc = "tail_next" => prev'[added] = tail
    <3>1. mpc = "tail_next" => added = linked + 1 /\ added \in Node /\ added # e_next
      BY <1>2, <1>3, StateTypes DEF IInv, linked
    <3> QED
      BY <1>2, <1>5, <3>1 DEF AddState
  <2>4. mpc \in {"new_next", "new_prev", "tail_next"} => tail # 0
    BY <1>8 DEF Adding
  <2> QED
    BY <1>1, <1>2, <1>8, <2>1, <2>2, <2>3, <2>4 DEF AddState, Adding
<1>10. HeadState'
  <2>1. next[0] \in Node
    BY <1>2, <1>4 DEF HeadState
  <2> QED
    BY <1>1, <1>2, <1>5, <2>1 DEF HeadState
<1>11. HandState'
  <2>1. e_next \in Node /\ prev'[e_next] = 0
    BY <1>2, <1>3, <1>4, <1>5
  <2> QED
    BY <1>1, <1>2, <1>3, <2>1 DEF HandState, InHand
<1> QED
  BY <1>1, <1>6, <1>7, <1>9, <1>10, <1>11, WorkerSteps DEF Links

LEMMA UnlinkNextKeeps == IInv /\ UnlinkNext => IInv'
<1> SUFFICES ASSUME IInv, UnlinkNext PROVE IInv'
  OBVIOUS
<1>1. /\ wpc = "unlink_next" /\ wpc' = "free"
      /\ next' = [next EXCEPT ![e_prev] = e_next]
      /\ UNCHANGED <<netVars, chunk, prev, data, position, freed, mainVars,
                     entry, e_prev, e_next, file>>
  BY DEF UnlinkNext
<1>2. /\ Chain /\ AddState /\ HeadState /\ HandState /\ linked' = linked
      /\ linked \in Nat /\ mpc' = mpc /\ added' = added /\ tail' = tail
      /\ added \in Nat
  BY <1>1 DEF IInv, Links, linked, AddState, mainVars
<1>3. /\ entry \in 1 .. linked /\ e_prev = 0 /\ next[0] # 0
      /\ e_next = 0 \/ (e_next = entry + 1 /\ e_next <= linked)
      /\ \/ e_next = 0 /\ next[0] >= entry
         \/ next[0] = entry /\ prev[e_next] = 0
      /\ \A f \in freed : f < entry
  BY <1>1, <1>2 DEF HandState, InHand, HeadState
<1>4. /\ linked <= MaxEntry /\ Node = 0 .. MaxEntry /\ MaxEntry \in Nat
      /\ prev \in [Node -> Node \cup {NULL}] /\ next \in [Node -> Node \cup {NULL}]
  BY StateTypes DEF IInv, linked
<1>5. /\ next' \in [Node -> Node \cup {NULL}] /\ next'[0] = e_next
      /\ \A n \in Node : n # 0 => next'[n] = next[n]
  <2>1. 0 \in Node /\ e_next \in Node
    BY <1>2, <1>3, <1>4
  <2> QED
    BY <1>1, <1>3, <1>4, <2>1
<1>6. TypeOK'
  BY <1>1, <1>5 DEF IInv, TypeOK, Net!NetTypeOK, netVars, mainVars
<1>7. Chain'
  <2>1. \A n \in 1 .. linked : n \in Node /\ n # 0
    BY <1>2, <1>4
  <2> QED
    BY <1>1, <1>2, <1>5, <2>1 DEF Chain
<1>8. AddState'
  <2>1. e_next # 0 => ~Emptied
    BY <1>1, <1>3 DEF Emptied
  <2>2. prev[0] = 0 \/ (Adding /\ tail = 0) => Emptied'
    BY <1>2, <1>5, <2>1 DEF AddState, Emptied
  <2>3. mpc \in {"new_prev", "tail_next"} => next'[added] = next[added]
    BY <1>2, <1>4, <1>5, StateTypes DEF IInv, AddState
  <2> QED
    BY <1>1, <1>2, <2>2, <2>3 DEF AddState, Adding
<1>9. HeadState'
  <2>1. freed' = freed /\ \A f \in freed : f \in 1 .. linked /\ f < entry
    BY <1>1, <1>2, <1>3 DEF HeadState
  <2>2. e_next # 0 => prev[e_next] = 0 /\ \A f \in freed : f < e_next
    <3>1. \A f \in 1 .. linked : f < entry => f < entry + 1
      BY <1>3
    <3> QED
      BY <1>3, <2>1, <3>1
  <2>3. e_next \in 0 .. linked
    BY <1>2, <1>3
  <2> QED
    BY <1>1, <1>2, <1>5, <2>1, <2>2, <2>3 DEF HeadState
<1>10. HandState'
  BY <1>1, <1>2, <1>3, <1>5 DEF HandState, InHand
<1>11. next'[0] \in {0, next[0]} \/ (next[0] # 0 /\ next[0] < next'[0])
  BY <1>2, <1>3, <1>5
<1> QED
  BY <1>1, <1>6, <1>7, <1>8, <1>9, <1>10, <1>11, WorkerSteps DEF Links

LEMMA FreeKeeps == IInv /\ Free => IInv'
<1> SUFFICES ASSUME IInv, Free PROVE IInv'
  OBVIOUS
<1>1. /\ wpc = "free" /\ wpc' = "poll" /\ freed' = freed \cup {entry}
      /\ next' = [next EXCEPT ![entry] = NULL]
      /\ prev' = [prev EXCEPT ![entry] = NULL]
      /\ UNCHANGED <<netVars, chunk, data, position, mainVars, entry, e_prev,
                     e_next, file>>
  BY DEF Free
<1>2. /\ Chain /\ AddState /\ HeadState /\ HandState /\ linked' = linked
      /\ linked \in Nat /\ mpc' = mpc /\ added' = added /\ tail' = tail
      /\ added \in Nat
  BY <1>1 DEF IInv, Links, linked, AddState, mainVars
<1>3. /\ entry \in 1 .. linked /\ (next[0] = 0 \/ next[0] > entry)
  BY <1>1, <1>2 DEF HandState, InHand
<1>4. /\ linked <= MaxEntry /\ Node = 0 .. MaxEntry /\ MaxEntry \in Nat
      /\ Entry = 1 .. MaxEntry
      /\ prev \in [Node -> Node \cup {NULL}] /\ next \in [Node -> Node \cup {NULL}]
  BY StateTypes DEF IInv, linked
<1>5. /\ next' \in [Node -> Node \cup {NULL}] /\ prev' \in [Node -> Node \cup {NULL}]
      /\ \A n \in Node : n # entry => next'[n] = next[n] /\ prev'[n] = prev[n]
  BY <1>1, <1>4
<1>6. TypeOK'
  <2>1. freed' \subseteq Entry
    BY <1>1, <1>2, <1>3, <1>4 DEF HeadState
  <2> QED
    BY <1>1, <1>5, <2>1 DEF IInv, TypeOK, Net!NetTypeOK, netVars, mainVars
<1>7. Chain'
  <2>1. \A n \in 1 .. linked : n \in Node /\ (n \notin freed' => n # entry /\ n \notin freed)
    BY <1>1, <1>2, <1>4
  <2> QED
    BY <1>1, <1>2, <1>5, <2>1 DEF Chain
<1>8. 0 \in Node /\ next'[0] = next[0] /\ prev'[0] = prev[0]
  BY <1>3, <1>4, <1>5
<1>9. AddState'
  <2>1. mpc \in {"new_prev", "tail_next"} =>
          next'[added] = next[added] /\ prev'[added] = prev[added]
    <3>1. mpc \in {"new_prev", "tail_next"} => added \in Node /\ added = linked + 1
      BY <1>2, StateTypes DEF IInv, linked
    <3> QED
      BY <1>2, <1>3, <1>5, <3>1
  <2>2. Emptied => Emptied'
    BY <1>1, <1>8 DEF Emptied
  <2> QED
    BY <1>1, <1>2, <1>8, <2>1, <2>2 DEF AddState, Adding
<1>10. HeadState'
  <2>1. next[0] # 0 => next[0] \in Node /\ next[0] # entry
    BY <1>2, <1>3, <1>4 DEF HeadState
  <2>2. next[0] # 0 => prev'[next[0]] = 0 /\ \A f \in freed' : f < next[0]
    BY <1>1, <1>2, <1>3, <1>5, <2>1 DEF HeadState
  <2>3. freed' \subseteq 1 .. linked
    BY <1>1, <1>2, <1>3 DEF HeadState
  <2> QED
    BY <1>1, <1>2, <1>8, <2>2, <2>3 DEF HeadState
<1>11. HandState'
  BY <1>1 DEF HandState, InHand
<1>12. /\ DataState' /\ FileState' /\ Progress /\ Links'
       /\ position[entry] = Len(data[entry])
  <2>1. DataState'
    BY <1>1, <1>2, DataRests DEF IInv, netVars
  <2>2. FileState'
    BY <1>1, <1>2, FileRests
  <2> QED
    BY <1>1, <1>7, <1>9, <1>10, <1>11, <2>1, <2>2 DEF IInv, Progress, Links
<1>13. Progress'
  BY <1>1, <1>2, <1>8, <1>12 DEF Progress
<1> QED
  BY <1>6, <1>12, <1>13 DEF IInv
-----------------------------------------------------------------------------
(* main appends: __list_add, one store at a time.                          *)
LEMMA MainSteps ==
  ASSUME IInv, UNCHANGED <<data, position, freed, added, taken, workerVars>>,
         TypeOK', Links',
         \/ chunk' = chunk /\ (mpc' = mpc \/ (mpc # "loop" /\ mpc' # "loop"))
         \/ chunk' = <<>> /\ mpc' = "loop",
         next'[0] = next[0] \/ next'[0] >= linked
  PROVE  IInv'
<1>1. /\ linked' \in {linked, linked + 1} /\ linked' <= MaxEntry /\ linked \in Nat
      /\ file' = file /\ wpc' = wpc /\ entry' = entry
  <2>1. added \in 0 .. MaxEntry /\ MaxEntry \in Nat
    BY StateTypes DEF IInv
  <2>2. mpc # "loop" => added > 0
    BY DEF IInv, Links, AddState
  <2> QED
    BY <2>1, <2>2 DEF linked, workerVars, IInv, Links, AddState
<1>2. DataState'
  BY DataRests DEF IInv
<1>3. FileState'
  BY <1>1, FileRests
<1>4. Progress'
  <2>1. \A e \in Entry : position[e] > 0 =>
          e <= linked' /\ (next'[0] = 0 \/ e <= next'[0])
    <3> SUFFICES ASSUME NEW e \in Entry, position[e] > 0
                 PROVE  e <= linked' /\ (next'[0] = 0 \/ e <= next'[0])
      OBVIOUS
    <3>1. e <= linked /\ (next[0] = 0 \/ e <= next[0])
      BY DEF IInv, Progress
    <3>2. e \in Nat /\ next'[0] \in Int
      <4>1. next' \in [Node -> Node \cup {NULL}] /\ 0 \in Node
        BY DEF TypeOK, Node
      <4>2. Node \cup {NULL} \subseteq Int
        BY Constants DEF Node, Entry, NULL
      <4>3. next'[0] \in Node \cup {NULL}
        BY <4>1
      <4>4. e \in Nat
        BY Constants DEF Entry
      <4> QED
        BY <4>2, <4>3, <4>4
    <3> QED
      BY <1>1, <3>1, <3>2
  <2> QED
    BY <1>1, <2>1 DEF IInv, Progress
<1> QED
  BY <1>2, <1>3, <1>4 DEF IInv

LEMMA LoadTailKeeps == IInv /\ LoadTail => IInv'
<1> SUFFICES ASSUME IInv, LoadTail PROVE IInv'
  OBVIOUS
<1>1. /\ mpc = "tail" /\ mpc' = "head_prev" /\ tail' = prev[0]
      /\ UNCHANGED <<netVars, chunk, next, prev, data, position, freed, added,
                     wpc, entry, e_prev, e_next, file>>
  BY DEF LoadTail, listVars, workerVars
<1>2. prev[0] \in Node
  BY <1>1, StateTypes DEF IInv, Links, AddState
<1>3. TypeOK'
  <2>1. mpc' \in DOMAIN Stores
    BY <1>1, StoreNames
  <2> QED
    BY <1>1, <1>2, <2>1 DEF IInv, TypeOK, Net!NetTypeOK, netVars
<1>4. /\ Chain /\ AddState /\ HeadState /\ HandState /\ linked' = linked
  BY <1>1 DEF IInv, Links, linked
<1>5. Chain' /\ HeadState' /\ HandState'
  BY <1>1, <1>4 DEF Chain, HeadState, HandState, InHand
<1>6. AddState'
  BY <1>1, <1>4 DEF AddState, Adding, Emptied
<1> QED
  BY <1>1, <1>3, <1>5, <1>6, MainSteps DEF Links, netVars, workerVars

(* What the stores start from, and leave alone.                            *)
LEMMA StoreStarts ==
  ASSUME IInv, LinkStore
  PROVE  /\ mpc' = Stores[mpc] /\ chunk' = (IF mpc' = "loop" THEN <<>> ELSE chunk)
         /\ UNCHANGED <<netVars, data, position, freed, added, tail, workerVars>>
         /\ UNCHANGED <<wpc, entry, e_prev, e_next, file>>
         /\ Chain /\ AddState /\ HeadState /\ HandState
         /\ linked = added - 1 /\ added \in 1 .. MaxEntry /\ MaxEntry \in Nat
         /\ Node = 0 .. MaxEntry /\ tail \in {0, added - 1}
         /\ next \in [Node -> Node \cup {NULL}] /\ prev \in [Node -> Node \cup {NULL}]
<1>1. /\ mpc \in DOMAIN Stores /\ mpc' = Stores[mpc]
      /\ chunk' = (IF mpc' = "loop" THEN <<>> ELSE chunk)
      /\ UNCHANGED <<netVars, data, position, freed, added, tail, workerVars>>
  BY DEF LinkStore
<1>2. Adding /\ mpc # "loop"
  BY <1>1, StoreNames DEF Adding
<1>3. /\ Chain /\ AddState /\ HeadState /\ HandState /\ linked = added - 1
      /\ added > 0 /\ tail \in {0, added - 1}
  BY <1>2 DEF IInv, Links, AddState, linked
<1>4. /\ added \in 1 .. MaxEntry /\ MaxEntry \in Nat /\ Node = 0 .. MaxEntry
      /\ next \in [Node -> Node \cup {NULL}] /\ prev \in [Node -> Node \cup {NULL}]
  BY <1>3, StateTypes DEF IInv
<1> QED
  BY <1>1, <1>3, <1>4 DEF workerVars

LEMMA HeadPrevKeeps == IInv /\ LinkStore /\ mpc = "head_prev" => IInv'
<1> SUFFICES ASSUME IInv, LinkStore, mpc = "head_prev" PROVE IInv'
  OBVIOUS
<1>1. prev' = [prev EXCEPT ![0] = added] /\ next' = next
  BY DEF LinkStore, SetLink
<1>2. mpc' = "new_next" /\ chunk' = chunk /\ linked' = linked
  BY StoreStarts, StoreNames DEF linked
<1>3. /\ prev' \in [Node -> Node \cup {NULL}] /\ prev'[0] = added
      /\ \A n \in Node : n # 0 => prev'[n] = prev[n]
  BY <1>1, StoreStarts
<1>4. TypeOK'
  BY <1>1, <1>2, <1>3, StoreStarts, StoreNames
     DEF IInv, TypeOK, Net!NetTypeOK, netVars
<1>5. Chain'
  BY <1>1, <1>2, StoreStarts DEF Chain
<1>6. AddState'
  BY <1>1, <1>2, <1>3, StoreStarts DEF AddState, Adding, Emptied
<1>7. HeadState'
  <2>1. next[0] \in Node
    BY StoreStarts DEF HeadState
  <2> QED
    BY <1>1, <1>2, <1>3, <2>1, StoreStarts DEF HeadState
<1>8. HandState'
  <2>1. e_next # 0 /\ wpc = "unlink_next" => e_next \in Node
    BY StoreStarts DEF HandState, InHand
  <2> QED
    BY <1>1, <1>2, <1>3, <2>1, StoreStarts DEF HandState, InHand
<1> QED
  BY <1>1, <1>2, <1>4, <1>5, <1>6, <1>7, <1>8, StoreStarts, MainSteps DEF Links, netVars

LEMMA NewNextKeeps == IInv /\ LinkStore /\ mpc = "new_next" => IInv'
<1> SUFFICES ASSUME IInv, LinkStore, mpc = "new_next" PROVE IInv'
  OBVIOUS
<1>1. next' = [next EXCEPT ![added] = 0] /\ prev' = prev
  BY DEF LinkStore, SetLink
<1>2. mpc' = "new_prev" /\ chunk' = chunk /\ linked' = linked
  BY StoreStarts, StoreNames DEF linked
<1>3. /\ next' \in [Node -> Node \cup {NULL}] /\ next'[added] = 0
      /\ \A n \in Node : n # added => next'[n] = next[n]
  BY <1>1, StoreStarts
<1>4. TypeOK'
  BY <1>1, <1>2, <1>3, StoreStarts, StoreNames
     DEF IInv, TypeOK, Net!NetTypeOK, netVars
<1>5. Chain'
  <2>1. \A n \in 1 .. linked : n \in Node /\ n # added
    BY StoreStarts
  <2> QED
    BY <1>2, <1>3, <2>1, StoreStarts DEF Chain
<1>6. next'[0] = next[0]
  BY <1>3, StoreStarts
<1>7. AddState'
  BY <1>1, <1>2, <1>3, <1>6, StoreStarts DEF AddState, Adding, Emptied
<1>8. HeadState' /\ HandState'
  BY <1>1, <1>2, <1>6, StoreStarts DEF HeadState, HandState, InHand
<1> QED
  BY <1>2, <1>4, <1>5, <1>6, <1>7, <1>8, StoreStarts, MainSteps DEF Links, netVars

LEMMA NewPrevKeeps == IInv /\ LinkStore /\ mpc = "new_prev" => IInv'
<1> SUFFICES ASSUME IInv, LinkStore, mpc = "new_prev" PROVE IInv'
  OBVIOUS
<1>1. prev' = [prev EXCEPT ![added] = tail] /\ next' = next
  BY DEF LinkStore, SetLink
<1>2. mpc' = "tail_next" /\ chunk' = chunk /\ linked' = linked
  BY StoreStarts, StoreNames DEF linked
<1>3. /\ prev' \in [Node -> Node \cup {NULL}] /\ prev'[added] = tail
      /\ \A n \in Node : n # added => prev'[n] = prev[n]
  <2>1. tail \in Node
    BY StoreStarts
  <2> QED
    BY <1>1, <2>1, StoreStarts
<1>4. TypeOK'
  BY <1>1, <1>2, <1>3, StoreStarts, StoreNames
     DEF IInv, TypeOK, Net!NetTypeOK, netVars
<1>5. Chain'
  BY <1>1, <1>2, StoreStarts DEF Chain
<1>6. prev'[0] = prev[0]
  BY <1>3, StoreStarts
<1>7. AddState'
  BY <1>1, <1>2, <1>3, <1>6, StoreStarts DEF AddState, Adding, Emptied
<1>8. HeadState'
  <2>1. next[0] \in Node /\ next[0] # added
    BY StoreStarts DEF HeadState
  <2> QED
    BY <1>1, <1>2, <1>3, <2>1, StoreStarts DEF HeadState
<1>9. HandState'
  <2>1. wpc = "unlink_next" => e_next \in Node /\ e_next # added
    BY StoreStarts DEF HandState, InHand
  <2> QED
    BY <1>1, <1>2, <1>3, <2>1, StoreStarts DEF HandState, InHand
<1> QED
  BY <1>1, <1>2, <1>4, <1>5, <1>7, <1>8, <1>9, StoreStarts, MainSteps DEF Links, netVars

(* The last store makes the entry reachable: from the last one, or from    *)
(* the head when that is empty.  When the tail was freed meanwhile, it is  *)
(* lost.                                                                   *)
LEMMA TailNextKeeps == IInv /\ LinkStore /\ mpc = "tail_next" => IInv'
<1> SUFFICES ASSUME IInv, LinkStore, mpc = "tail_next" PROVE IInv'
  OBVIOUS
<1>1. next' = [next EXCEPT ![tail] = added] /\ prev' = prev
  BY DEF LinkStore, SetLink
<1>2. mpc' = "loop" /\ chunk' = <<>> /\ linked' = linked + 1 /\ linked' = added
  BY StoreStarts, StoreNames DEF linked
<1>3. /\ next' \in [Node -> Node \cup {NULL}] /\ next'[tail] = added
      /\ \A n \in Node : n # tail => next'[n] = next[n]
      /\ tail \in Node /\ tail # added
  <2>1. tail \in Node /\ tail # added /\ added \in Node
    BY StoreStarts
  <2> QED
    BY <1>1, <2>1, StoreStarts
<1>4. TypeOK'
  <2>1. chunk' \in Seq(Net!AllBytes)
    BY <1>2, EmptySeq
  <2> QED
    BY <1>1, <1>2, <1>3, <2>1, StoreStarts
       DEF IInv, TypeOK, Net!NetTypeOK, netVars
<1>5. prev[added] = tail /\ next[added] = 0 /\ (tail = 0 => prev[0] = added)
  BY StoreStarts DEF AddState
<1>6. Chain'
  <2> SUFFICES ASSUME NEW n \in 1 .. linked', n \notin freed
               PROVE  next'[n] = 0 \/ (next'[n] = n + 1 /\ n + 1 <= linked')
    BY StoreStarts DEF Chain
  <2>1. n \in Node /\ (n = added \/ n \in 1 .. linked)
    BY <1>2, StoreStarts
  <2>2. CASE n = added
    BY <1>3, <1>5, <2>1, <2>2
  <2>3. CASE n # added /\ n = tail
    BY <1>2, <1>3, <2>1, <2>3, StoreStarts
  <2>4. CASE n # added /\ n # tail
    <3>1. next'[n] = next[n] /\ n \in 1 .. linked
      BY <1>3, <2>1, <2>4
    <3>2. next[n] = 0 \/ (next[n] = n + 1 /\ n + 1 <= linked)
      BY <3>1, StoreStarts DEF Chain
    <3> QED
      BY <1>2, <3>1, <3>2, StoreStarts
  <2> QED
    BY <2>2, <2>3, <2>4
<1>7. CASE tail # 0
  <2>1. next'[0] = next[0] /\ prev[0] \in {0, added}
    BY <1>3, <1>7, StoreStarts DEF AddState
  <2>2. AddState'
    BY <1>1, <1>2, <2>1, StoreStarts DEF AddState, Adding, Emptied
  <2>3. HeadState'
    BY <1>1, <1>2, <2>1, StoreStarts DEF HeadState
  <2>4. HandState'
    <3>1. wpc = "unlink_next" => e_next <= linked' \/ e_next = 0
      BY <1>2, StoreStarts DEF HandState, InHand
    <3> QED
      BY <1>1, <1>2, <2>1, <3>1, StoreStarts DEF HandState, InHand
  <2> QED
    BY <1>2, <1>4, <1>6, <2>1, <2>2, <2>3, <2>4, StoreStarts, MainSteps DEF Links, netVars
<1>8. CASE tail = 0
  <2>1. Emptied /\ next'[0] = added /\ prev[0] = added
    BY <1>3, <1>5, <1>8, StoreStarts DEF AddState, Adding
  <2>2. AddState'
    BY <1>1, <1>2, <2>1, StoreStarts DEF AddState, Adding, Emptied
  <2>3. HeadState'
    <3>1. \A f \in freed : f \in 1 .. linked /\ f < added
      BY StoreStarts DEF HeadState
    <3> QED
      BY <1>1, <1>2, <1>5, <1>8, <2>1, <3>1, StoreStarts DEF HeadState
  <2>4. HandState'
    <3>1. wpc \in {"poll", "first", "free"} \/ (wpc = "unlink_next" /\ e_next = 0)
      <4>1. next[0] = 0 => wpc \in {"poll", "free"}
        BY StoreStarts DEF HeadState, IInv, TypeOK
      <4> QED
        BY <2>1, <4>1 DEF Emptied
    <3>2. InHand => entry \in 1 .. linked
      BY StoreStarts DEF HandState
    <3> QED
      BY <1>1, <1>2, <2>1, <3>1, <3>2, StoreStarts DEF HandState, InHand
  <2> QED
    BY <1>2, <1>4, <1>6, <2>1, <2>2, <2>3, <2>4, StoreStarts, MainSteps DEF Links, netVars
<1> QED
  BY <1>7, <1>8

LEMMA LinkStoreKeeps == IInv /\ LinkStore => IInv'
<1>1. LinkStore => mpc \in {"head_prev", "new_next", "new_prev", "tail_next"}
  BY StoreNames DEF LinkStore
<1> QED
  BY <1>1, HeadPrevKeeps, NewNextKeeps, NewPrevKeeps, TailNextKeeps

LEMMA AllocateFailsKeeps == IInv /\ AllocateFails => IInv'
<1> SUFFICES ASSUME IInv, AllocateFails PROVE IInv'
  OBVIOUS
<1>1. /\ mpc = "loop" /\ chunk' = <<>> /\ mpc' = mpc
      /\ UNCHANGED <<netVars, next, prev, data, position, freed, added, mpc, tail,
                     wpc, entry, e_prev, e_next, file>>
  BY DEF AllocateFails, listVars, mainVars, workerVars
<1>2. TypeOK'
  <2>1. chunk' \in Seq(Net!AllBytes)
    BY <1>1, EmptySeq
  <2> QED
    BY <1>1, <2>1 DEF IInv, TypeOK, Net!NetTypeOK, netVars
<1>3. Links'
  BY <1>1, LinksRest DEF IInv
<1> QED
  BY <1>1, <1>2, <1>3, MainSteps DEF netVars, workerVars
-----------------------------------------------------------------------------
(* A new entry.  There is one for it: every entry begins with a byte that  *)
(* no other one begins with, and neither does what waits to be added.      *)
LEMMA FirstByte ==
  ASSUME NEW S, NEW x \in Seq(S), x # <<>>
  PROVE  1 \in 1 .. Len(x) /\ x[1] \in S
<1>1. Len(x) \in Nat /\ Len(x) # 0
  BY EmptySeq, LenProperties
<1>2. 1 \in 1 .. Len(x)
  BY <1>1
<1> QED
  BY <1>2, ElementOfSeq

LEMMA ApartByFirst ==
  ASSUME NEW x, NEW y, x[1] \in Int, y[1] \in Int,
         1 \in 1 .. Len(x), 1 \in 1 .. Len(y), Before(x, y)
  PROVE  x[1] # y[1]
<1>1. Owner(x[1]) = Owner(y[1]) => x[1] < y[1]
  BY DEF Before
<1> QED
  BY <1>1

LEMMA RoomForEntry ==
  ASSUME IInv, mpc = "loop", chunk # <<>>
  PROVE  added + 1 \in Entry
<1> DEFINE f == [e \in 1 .. added + 1 |->
                   IF e = added + 1 THEN chunk[1] ELSE data[e][1]]
<1>1. /\ added \in 0 .. MaxEntry /\ MaxEntry \in Nat /\ Entry = 1 .. MaxEntry
      /\ data \in [Entry -> Seq(Net!AllBytes)] /\ chunk \in Seq(Net!AllBytes)
      /\ Net!AllBytes = 1 .. MaxEntry /\ DataState
  BY StateTypes, Constants DEF IInv
<1>2. 1 \in 1 .. Len(chunk) /\ chunk[1] \in 1 .. MaxEntry
  BY <1>1, FirstByte
<1>3. ASSUME NEW e \in 1 .. added
      PROVE  1 \in 1 .. Len(data[e]) /\ data[e][1] \in 1 .. MaxEntry
  <2>1. data[e] # <<>> /\ data[e] \in Seq(Net!AllBytes)
    BY <1>1 DEF DataState
  <2> QED
    BY <1>1, <2>1, FirstByte
<1>4. \A e \in 1 .. added + 1 : e = added + 1 \/ e \in 1 .. added
  BY <1>1
<1>5. f \in [1 .. added + 1 -> 1 .. MaxEntry]
  BY <1>2, <1>3, <1>4
<1>6. \A e \in 1 .. added : f[e] = data[e][1] /\ e \in 1 .. added + 1 /\ e < added + 1
  BY <1>1
<1>7. f[added + 1] = chunk[1] /\ added + 1 \in 1 .. added + 1
  BY <1>1
<1> HIDE DEF f
<1>8. ASSUME NEW e \in 1 .. added
      PROVE  f[e] # chunk[1]
  <2>1. Before(data[e], chunk)
    BY <1>1 DEF DataState
  <2>2. 1 \in 1 .. Len(data[e]) /\ data[e][1] \in Int /\ chunk[1] \in Int
    BY <1>2, <1>3
  <2>3. data[e][1] # chunk[1]
    BY <1>2, <2>1, <2>2, ApartByFirst
  <2> QED
    BY <1>6, <2>3
<1>9. ASSUME NEW e \in 1 .. added, NEW g \in 1 .. added, e < g
      PROVE  f[e] # f[g]
  <2>1. Before(data[e], data[g])
    BY <1>1, <1>9 DEF DataState
  <2>2. /\ 1 \in 1 .. Len(data[e]) /\ data[e][1] \in Int
        /\ 1 \in 1 .. Len(data[g]) /\ data[g][1] \in Int
    BY <1>3
  <2>3. data[e][1] # data[g][1]
    BY <2>1, <2>2, ApartByFirst
  <2> QED
    BY <1>6, <2>3
<1>10. \A e, g \in 1 .. added + 1 : e # g => f[e] # f[g]
  <2> SUFFICES ASSUME NEW e \in 1 .. added + 1, NEW g \in 1 .. added + 1, e # g
               PROVE  f[e] # f[g]
    OBVIOUS
  <2>1. CASE e = added + 1
    BY <1>4, <1>7, <1>8, <2>1
  <2>2. CASE g = added + 1
    BY <1>4, <1>7, <1>8, <2>2
  <2>3. CASE e # added + 1 /\ g # added + 1
    <3>1. e \in 1 .. added /\ g \in 1 .. added /\ (e < g \/ g < e)
      BY <1>1, <1>4, <2>3
    <3> QED
      BY <1>9, <3>1
  <2> QED
    BY <2>1, <2>2, <2>3
<1>11. added < MaxEntry
  <2> SUFFICES ASSUME ~(added < MaxEntry) PROVE FALSE
    OBVIOUS
  <2>1. /\ IsFiniteSet(1 .. added + 1) /\ IsFiniteSet(1 .. MaxEntry)
        /\ Cardinality(1 .. added + 1) = added + 1
        /\ Cardinality(1 .. MaxEntry) = MaxEntry
    <3>1. 1 \in Int /\ added + 1 \in Int /\ MaxEntry \in Int
      BY <1>1
    <3>2. MaxEntry \in Nat \ {0}
      BY Constants
    <3> QED
      BY <1>1, <3>1, <3>2, FS_Interval
  <2>2. Cardinality(1 .. MaxEntry) < Cardinality(1 .. added + 1)
    BY <1>1, <2>1
  <2>3. \E e, g \in 1 .. added + 1 : e # g /\ f[e] = f[g]
    BY <1>5, <2>1, <2>2, FS_PigeonHole
  <2> QED
    BY <1>10, <2>3
<1> QED
  BY <1>1, <1>11

LEMMA AllocateKeeps == IInv /\ Allocate => IInv'
<1> SUFFICES ASSUME IInv, Allocate PROVE IInv'
  OBVIOUS
<1>1. /\ mpc = "loop" /\ chunk # <<>> /\ added' = added + 1
      /\ data' = [data EXCEPT ![added + 1] = chunk] /\ mpc' = "tail"
      /\ UNCHANGED <<netVars, chunk, next, prev, position, freed, tail,
                     wpc, entry, e_prev, e_next, file>>
  BY DEF Allocate, workerVars
<1>2. /\ added + 1 \in Entry /\ added \in Nat /\ linked = added /\ linked' = linked
      /\ Entry = 1 .. MaxEntry /\ MaxEntry \in Nat
      /\ data \in [Entry -> Seq(Net!AllBytes)] /\ chunk \in Seq(Net!AllBytes)
      /\ DataState /\ Links /\ Progress /\ FileState
  <2>1. added + 1 \in Entry
    BY <1>1, RoomForEntry
  <2>2. linked = added /\ added \in Nat /\ linked' = linked
    BY <1>1, StateTypes DEF linked, IInv
  <2> QED
    BY <2>1, <2>2, StateTypes DEF IInv
<1>3. /\ data'[added + 1] = chunk /\ data' \in [Entry -> Seq(Net!AllBytes)]
      /\ \A e \in Entry : e # added + 1 => data'[e] = data[e]
      /\ \A e \in 1 .. added : e \in Entry /\ data'[e] = data[e] /\ e # added + 1
      /\ \A e \in 1 .. added + 1 : e = added + 1 \/ e \in 1 .. added
  BY <1>1, <1>2
<1>4. TypeOK'
  <2>1. added' \in 0 .. MaxEntry /\ mpc' \in {"loop", "tail"} \cup DOMAIN Stores
    BY <1>1, <1>2
  <2> QED
    BY <1>1, <1>3, <2>1 DEF IInv, TypeOK, Net!NetTypeOK, netVars
<1>5. Links'
  <2>1. Chain' /\ HeadState' /\ HandState'
    BY <1>1, <1>2 DEF Links, Chain, HeadState, HandState, InHand
  <2>2. AddState'
    BY <1>1, <1>2 DEF Links, AddState, Adding, Emptied
  <2> QED
    BY <2>1, <2>2 DEF Links
<1>6. DataState'
  <2>1. taken' = taken /\ Ordered(chunk) /\ ReadBy(chunk, taken)
        /\ Len(chunk) <= BUFFER_SIZE
    BY <1>1, <1>2 DEF DataState, netVars
  <2>2. \A e \in 1 .. added : /\ data[e] # <<>> /\ Len(data[e]) <= BUFFER_SIZE
                             /\ Ordered(data[e]) /\ ReadBy(data[e], taken)
                             /\ Before(data[e], chunk)
    BY <1>1, <1>2 DEF DataState
  <2>3. \A e, f \in 1 .. added : e < f => Before(data[e], data[f])
    BY <1>2 DEF DataState
  <2>4. \A e \in 1 .. added + 1 :
          /\ data'[e] # <<>> /\ Len(data'[e]) <= BUFFER_SIZE
          /\ Ordered(data'[e]) /\ ReadBy(data'[e], taken)
    BY <1>1, <1>3, <2>1, <2>2
  <2>5. \A e, f \in 1 .. added + 1 : e < f => Before(data'[e], data'[f])
    <3> SUFFICES ASSUME NEW e \in 1 .. added + 1, NEW f \in 1 .. added + 1, e < f
                 PROVE  Before(data'[e], data'[f])
      OBVIOUS
    <3>1. e \in 1 .. added
      BY <1>2
    <3>2. CASE f = added + 1
      BY <1>3, <2>2, <3>1, <3>2
    <3>3. CASE f \in 1 .. added
      BY <1>3, <2>3, <3>1, <3>3
    <3> QED
      BY <1>3, <3>2, <3>3
  <2> QED
    BY <1>1, <2>1, <2>4, <2>5 DEF DataState
<1>7. position[added + 1] = 0
  <2>1. position[added + 1] \in Nat /\ ~(added + 1 <= linked)
    BY <1>2, StateTypes DEF IInv
  <2> QED
    BY <1>2, <2>1 DEF Progress
<1>8. \A e \in Entry : position[e] <= Len(data'[e])
  <2>1. Len(chunk) \in Nat /\ 0 <= Len(chunk)
    BY <1>2, LenProperties
  <2>2. \A e \in Entry : position[e] <= Len(data[e])
    BY <1>2 DEF Progress
  <2> QED
    BY <1>3, <1>7, <2>1, <2>2
<1>9. Progress'
  <2>1. \A e \in freed : e \in Entry /\ data'[e] = data[e]
    BY <1>2, <1>3 DEF Links, HeadState
  <2>2. InHand => entry \in 1 .. added /\ data'[entry] = data[entry]
    BY <1>2, <1>3 DEF Links, HandState
  <2> QED
    BY <1>1, <1>2, <1>8, <2>1, <2>2 DEF Progress, InHand
<1>10. FileState'
  BY <1>1, <1>2, <1>3 DEF FileState
<1> QED
  BY <1>4, <1>5, <1>6, <1>9, <1>10 DEF IInv
-----------------------------------------------------------------------------
(* The sockets.                                                            *)
LEMMA Numbered ==
  ASSUME NEW c \in Net!Client, NEW k \in 1 .. Stream
  PROVE  Net!Id(c, k) \in Net!AllBytes /\ Owner(Net!Id(c, k)) = c - 1
<1>1. c \in 1 .. Clients /\ c - 1 \in Nat /\ Clients - c \in Nat
      /\ Stream \in Nat \ {0} /\ Clients \in Nat
  BY Constants DEF Net!Client
<1>2. (c - 1) * Stream \in Nat /\ (Clients - c) * Stream \in Nat
  BY <1>1
<1>3. (c - 1) * Stream + Stream + (Clients - c) * Stream = Clients * Stream
  BY <1>1
<1>4. Net!Id(c, k) \in Net!AllBytes
  BY <1>1, <1>2, <1>3 DEF Net!Id, Net!AllBytes
<1>5. Owner(Net!Id(c, k)) = c - 1
  <2> DEFINE x == Net!Id(c, k) - 1
             q == x \div Stream
  <2>1. x = (c - 1) * Stream + (k - 1) /\ x \in Nat
    BY <1>1, <1>2 DEF Net!Id
  <2>2. q = c - 1
    BY <1>1, <1>2, <2>1
  <2> QED
    BY <2>2 DEF Owner
<1> QED
  BY <1>4, <1>5

LEMMA ClienteleTypes ==
  ASSUME Net!NetTypeOK, Net!ClientStep
  PROVE  Net!NetTypeOK' /\ chunk' = chunk /\ taken' = taken
<1> PICK c \in Net!Client : Net!Connect(c) \/ Net!Send(c) \/ Net!HangUp(c)
  BY DEF Net!ClientStep
<1>1. CASE Net!Connect(c)
  BY <1>1 DEF Net!Connect, Net!NetTypeOK
<1>2. CASE Net!Send(c)
  <2>1. PICK n \in 1 .. Stream - sent[c] : sent' = [sent EXCEPT ![c] = @ + n]
    BY <1>2 DEF Net!Send
  <2>2. sent[c] + n \in 0 .. Stream
    BY <2>1, Constants DEF Net!NetTypeOK
  <2> QED
    BY <1>2, <2>1, <2>2 DEF Net!Send, Net!NetTypeOK
<1>3. CASE Net!HangUp(c)
  BY <1>3 DEF Net!HangUp, Net!NetTypeOK
<1> QED
  BY <1>1, <1>2, <1>3

(* What one read takes, and that it was sent after all that was read.      *)
LEMMA ReadTakes ==
  ASSUME Net!NetTypeOK, NEW c \in Net!Client, Net!Read(c)
  PROVE  /\ Net!NetTypeOK' /\ chunk = <<>>
         /\ Len(chunk') <= BUFFER_SIZE /\ Ordered(chunk') /\ ReadBy(chunk', taken')
         /\ \A x \in Seq(Net!AllBytes) :
              ReadBy(x, taken) => Before(x, chunk') /\ ReadBy(x, taken')
<1>1. PICK n \in 1 .. BUFFER_SIZE :
        /\ n <= sent[c] - taken[c]
        /\ chunk' = [i \in 1 .. n |-> Net!Id(c, taken[c] + i)]
        /\ taken' = [taken EXCEPT ![c] = @ + n]
  BY DEF Net!Read
<1>2. /\ taken \in [Net!Client -> 0 .. Stream] /\ sent[c] \in 0 .. Stream
      /\ Stream \in Nat \ {0} /\ n \in Nat /\ n <= BUFFER_SIZE
      /\ \A e \in Net!Client : taken[e] \in Nat /\ e \in Nat
      /\ taken[c] + n \in 0 .. Stream
  <2>1. taken \in [Net!Client -> 0 .. Stream] /\ sent[c] \in 0 .. Stream
    BY DEF Net!NetTypeOK
  <2>2. \A e \in Net!Client : taken[e] \in 0 .. Stream /\ e \in Nat
    BY <2>1 DEF Net!Client
  <2> QED
    BY <1>1, <2>1, <2>2, Constants
<1>3. \A i \in 1 .. n : taken[c] + i \in 1 .. Stream
  BY <1>2
<1>4. \A i \in 1 .. n : chunk'[i] = Net!Id(c, taken[c] + i)
                        /\ chunk'[i] \in Net!AllBytes /\ Owner(chunk'[i]) = c - 1
  BY <1>1, <1>3, Numbered
<1>5. chunk' \in [1 .. n -> Net!AllBytes]
  BY <1>1, <1>4
<1>6. chunk' \in Seq(Net!AllBytes) /\ Len(chunk') = n
  BY <1>2, <1>5
<1>7. /\ taken' \in [Net!Client -> 0 .. Stream] /\ taken'[c] = taken[c] + n
      /\ \A e \in Net!Client : taken'[e] \in Nat /\ taken[e] <= taken'[e]
  BY <1>1, <1>2
<1>8. Net!NetTypeOK'
  BY <1>6, <1>7 DEF Net!Read, Net!NetTypeOK
<1>9. \A e \in Net!Client : \A j, k \in Nat :
        /\ j < k => Net!Id(e, j) < Net!Id(e, k)
        /\ j <= k => Net!Id(e, j) <= Net!Id(e, k)
        /\ Net!Id(e, j) \in Int
  BY <1>2 DEF Net!Id
<1>10. Ordered(chunk')
  BY <1>2, <1>4, <1>6, <1>9 DEF Ordered
<1>11. ReadBy(chunk', taken')
  <2> SUFFICES ASSUME NEW i \in 1 .. n, NEW e \in Net!Client,
                      Owner(chunk'[i]) = e - 1
               PROVE  chunk'[i] <= Net!Id(e, taken'[e])
    BY <1>6 DEF ReadBy
  <2>1. e = c
    BY <1>2, <1>4
  <2>2. chunk'[i] = Net!Id(c, taken[c] + i) /\ taken[c] + i \in Nat
        /\ taken'[c] \in Nat /\ taken[c] + i <= taken'[c]
    BY <1>2, <1>4, <1>7
  <2> QED
    BY <1>9, <2>1, <2>2
<1>12. ASSUME NEW x \in Seq(Net!AllBytes), ReadBy(x, taken)
       PROVE  Before(x, chunk') /\ ReadBy(x, taken')
  <2>1. \A i \in 1 .. Len(x) : x[i] \in Int
    <3>1. \A i \in 1 .. Len(x) : x[i] \in Net!AllBytes
      OBVIOUS
    <3>2. Net!AllBytes \subseteq Int
      BY Constants
    <3> QED
      BY <3>1, <3>2
  <2>2. Before(x, chunk')
    <3> SUFFICES ASSUME NEW i \in 1 .. Len(x), NEW j \in 1 .. n,
                        Owner(x[i]) = Owner(chunk'[j])
                 PROVE  x[i] < chunk'[j]
      BY <1>6 DEF Before
    <3>1. Owner(x[i]) = c - 1 /\ chunk'[j] = Net!Id(c, taken[c] + j)
      BY <1>4
    <3>2. x[i] <= Net!Id(c, taken[c])
      BY <1>12, <3>1 DEF ReadBy
    <3>3. /\ Net!Id(c, taken[c]) < chunk'[j] /\ Net!Id(c, taken[c]) \in Int
          /\ chunk'[j] \in Int
      <4>1. taken[c] \in Nat /\ taken[c] + j \in Nat /\ taken[c] < taken[c] + j
        BY <1>2
      <4> QED
        BY <1>9, <3>1, <4>1
    <3> QED
      BY <2>1, <3>2, <3>3
  <2>3. ReadBy(x, taken')
    <3> SUFFICES ASSUME NEW i \in 1 .. Len(x), NEW e \in Net!Client,
                        Owner(x[i]) = e - 1
                 PROVE  x[i] <= Net!Id(e, taken'[e])
      BY DEF ReadBy
    <3>1. x[i] <= Net!Id(e, taken[e])
      BY <1>12 DEF ReadBy
    <3>2. /\ Net!Id(e, taken[e]) <= Net!Id(e, taken'[e])
          /\ Net!Id(e, taken'[e]) \in Int /\ Net!Id(e, taken[e]) \in Int
      <4>1. taken[e] \in Nat /\ taken'[e] \in Nat /\ taken[e] <= taken'[e]
        BY <1>2, <1>7
      <4> QED
        BY <1>9, <4>1
    <3> QED
      BY <2>1, <3>1, <3>2
  <2> QED
    BY <2>2, <2>3
<1>13. chunk = <<>>
  BY DEF Net!Read, Net!Turn
<1> QED
  BY <1>2, <1>6, <1>8, <1>10, <1>11, <1>12, <1>13

LEMMA ServerTypes ==
  ASSUME Net!NetTypeOK, Net!ServerStep
  PROVE  \/ Net!NetTypeOK' /\ chunk' = chunk /\ taken' = taken
         \/ \E c \in Net!Client : Net!Read(c)
<1>1. CASE Net!Select
  BY <1>1 DEF Net!Select, Net!Ready, Net!NetTypeOK
<1>2. CASE Net!Accept
  BY <1>2 DEF Net!Accept, Net!NetTypeOK
<1>3. ASSUME NEW c \in Net!Client, Net!Close(c)
      PROVE  Net!NetTypeOK' /\ chunk' = chunk /\ taken' = taken
  BY <1>3 DEF Net!Close, Net!NetTypeOK
<1> QED
  BY <1>1, <1>2, <1>3 DEF Net!ServerStep

(* The list, the file and the entries are not touched.                     *)
LEMMA OutsideSteps ==
  ASSUME IInv, UNCHANGED <<listVars, mainVars, workerVars>>, Net!NetTypeOK', DataState'
  PROVE  IInv'
<1>1. UNCHANGED <<next, prev, data, position, freed, added, mpc, tail,
                  wpc, entry, e_prev, e_next, file>>
  BY DEF listVars, mainVars, workerVars
<1>2. TypeOK'
  BY <1>1 DEF IInv, TypeOK
<1>3. Links'
  BY <1>1, LinksRest DEF IInv
<1>4. Progress' /\ FileState'
  BY <1>1 DEF IInv, Progress, FileState, linked
<1> QED
  BY <1>2, <1>3, <1>4 DEF IInv

LEMMA ClienteleKeeps == IInv /\ Clientele => IInv'
<1> SUFFICES ASSUME IInv, Clientele PROVE IInv'
  OBVIOUS
<1>1. Net!NetTypeOK' /\ chunk' = chunk /\ taken' = taken
  BY ClienteleTypes DEF IInv, TypeOK, Clientele
<1>2. UNCHANGED <<listVars, mainVars, workerVars>>
  BY DEF Clientele
<1>3. DataState'
  BY <1>1, <1>2, DataRests DEF IInv, listVars, mainVars
<1> QED
  BY <1>1, <1>2, <1>3, OutsideSteps

LEMMA MainLoopKeeps == IInv /\ MainLoop => IInv'
<1> SUFFICES ASSUME IInv, MainLoop PROVE IInv'
  OBVIOUS
<1>1. UNCHANGED <<listVars, mainVars, workerVars>> /\ mpc = "loop"
      /\ Net!NetTypeOK /\ Net!ServerStep
  BY DEF MainLoop, IInv, TypeOK
<1>2. CASE Net!NetTypeOK' /\ chunk' = chunk /\ taken' = taken
  <2>1. DataState'
    BY <1>1, <1>2, DataRests DEF IInv, listVars, mainVars
  <2> QED
    BY <1>1, <1>2, <2>1, OutsideSteps
<1>3. ASSUME NEW c \in Net!Client, Net!Read(c)
      PROVE  Net!NetTypeOK' /\ DataState'
  <2>1. /\ Net!NetTypeOK'
        /\ Len(chunk') <= BUFFER_SIZE /\ Ordered(chunk') /\ ReadBy(chunk', taken')
        /\ \A x \in Seq(Net!AllBytes) :
             ReadBy(x, taken) => Before(x, chunk') /\ ReadBy(x, taken')
    BY <1>1, <1>3, ReadTakes
  <2>2. data' = data /\ added' = added /\ mpc' = mpc /\ DataState
    BY <1>1 DEF listVars, mainVars, IInv
  <2>3. \A e \in 1 .. added : data[e] \in Seq(Net!AllBytes) /\ ReadBy(data[e], taken)
    <3>1. \A e \in 1 .. added : e \in Entry
      BY StateTypes DEF IInv
    <3> QED
      BY <2>2, <3>1, StateTypes DEF IInv, DataState
  <2> QED
    BY <1>1, <2>1, <2>2, <2>3 DEF DataState
<1>4. ASSUME NEW c \in Net!Client, Net!Read(c)
      PROVE  IInv'
  BY <1>1, <1>3, <1>4, OutsideSteps
<1> QED
  BY <1>1, <1>2, <1>4, ServerTypes
-----------------------------------------------------------------------------
(* A piece of the first entry is written.                                  *)
Joined(x, d, p, n) == x \o SubSeq(d, p + 1, p + n)

LEMMA Appended ==
  ASSUME NEW S, NEW x \in Seq(S), NEW d \in Seq(S), NEW p \in Nat, NEW n \in Nat,
         p + n <= Len(d)
  PROVE  /\ Joined(x, d, p, n) \in Seq(S) /\ Len(Joined(x, d, p, n)) = Len(x) + n
         /\ \A i \in 1 .. Len(x) : Joined(x, d, p, n)[i] = x[i]
         /\ \A i \in 1 .. n : Joined(x, d, p, n)[Len(x) + i] = d[p + i]
<1> DEFINE y == Joined(x, d, p, n)
           z == SubSeq(d, p + 1, p + n)
<1>1. Len(x) \in Nat /\ Len(d) \in Nat
  BY LenProperties
<1>2. z \in Seq(S) /\ Len(z) = n /\ \A i \in 1 .. n : z[i] = d[p + i]
  <2>1. z = [i \in 1 .. n |-> d[p + i]]
    BY <1>1
  <2>2. \A i \in 1 .. n : d[p + i] \in S
    <3>1. \A i \in 1 .. n : p + i \in 1 .. Len(d)
      BY <1>1
    <3> QED
      BY <3>1, ElementOfSeq
  <2>3. z \in [1 .. n -> S]
    BY <2>1, <2>2
  <2>4. z \in Seq(S) /\ Len(z) = n
    BY <2>3
  <2> QED
    BY <2>1, <2>4
<1> HIDE DEF z
<1>3. y \in Seq(S) /\ Len(y) = Len(x) + n
      /\ \A i \in 1 .. Len(x) + n : y[i] = IF i <= Len(x) THEN x[i] ELSE z[i - Len(x)]
  BY <1>1, <1>2, ConcatProperties DEF z, Joined
<1>4. \A i \in 1 .. Len(x) : y[i] = x[i]
  BY <1>1, <1>3
<1>5. ASSUME NEW i \in 1 .. n
      PROVE  y[Len(x) + i] = d[p + i]
  <2>1. Len(x) + i \in 1 .. Len(x) + n /\ ~(Len(x) + i <= Len(x))
        /\ (Len(x) + i) - Len(x) = i
    BY <1>1
  <2> QED
    BY <1>2, <1>3, <2>1
<1> QED
  BY <1>3, <1>4, <1>5

(* What one call of read_data does.                                        *)
LEMMA ReadDataTakes ==
  ASSUME IInv, ReadData
  PROVE  \E n \in Nat :
           /\ position[entry] + n <= Len(data[entry])
           /\ file' = Joined(file, data[entry], position[entry], n)
           /\ position' = [position EXCEPT ![entry] = position[entry] + n]
           /\ wpc' \in {"del", "poll"}
           /\ wpc' = "del" => position[entry] + n = Len(data[entry])
<1>1. entry \in Entry
  <2>1. entry \in 1 .. linked
    BY DEF IInv, Links, HandState, InHand, ReadData
  <2>2. linked \in Nat /\ linked <= MaxEntry
    BY StateTypes DEF IInv, Links, AddState, linked
  <2> QED
    BY <2>1, <2>2, StateTypes DEF IInv
<1>2. /\ position[entry] \in Nat /\ Len(data[entry]) \in Nat /\ PIECE \in Nat
      /\ position[entry] <= Len(data[entry])
  <2>1. position[entry] \in Nat /\ data[entry] \in Seq(Net!AllBytes)
    BY <1>1, StateTypes DEF IInv
  <2> QED
    BY <1>1, <2>1, LenProperties, Constants DEF IInv, Progress
<1>3. PICK n \in 0 .. min(Rest(entry), PIECE) :
        /\ file' = Joined(file, data[entry], position[entry], n)
        /\ position' = [position EXCEPT ![entry] = @ + n]
        /\ wpc' = (IF n = Rest(entry) THEN "del" ELSE "poll")
  BY DEF ReadData, Joined
<1>4. n \in Nat /\ n <= Rest(entry)
  BY <1>2, <1>3 DEF min, Rest
<1>5. position[entry] + n <= Len(data[entry])
  BY <1>2, <1>4 DEF Rest
<1>6. wpc' = "del" => position[entry] + n = Len(data[entry])
  BY <1>2, <1>3, <1>4 DEF Rest
<1> QED
  BY <1>3, <1>4, <1>5, <1>6

LEMMA ReadDataKeeps == IInv /\ ReadData => IInv'
<1> SUFFICES ASSUME IInv, ReadData PROVE IInv'
  OBVIOUS
<1> DEFINE d == data[entry]
           p == position[entry]
           L == Len(file)
<1>1. /\ wpc = "read"
      /\ UNCHANGED <<netVars, chunk, next, prev, data, freed, added, mpc, tail,
                     entry, e_prev, e_next>>
  BY DEF ReadData, mainVars
<1>2. /\ linked' = linked /\ linked \in Nat /\ linked <= added /\ linked <= MaxEntry
      /\ added \in Nat /\ added <= MaxEntry /\ MaxEntry \in Nat /\ Entry = 1 .. MaxEntry
      /\ \A e \in 1 .. linked : e \in Entry /\ e \in 1 .. added
      /\ Chain /\ AddState /\ HeadState /\ HandState /\ DataState /\ Progress /\ FileState
      /\ TypeOK
  BY <1>1, StateTypes DEF IInv, Links, linked, AddState
<1>3. /\ entry \in 1 .. linked /\ next[0] = entry /\ \A f \in freed : f < entry
  BY <1>1, <1>2 DEF HandState, InHand
<1>4. /\ d \in Seq(Net!AllBytes) /\ p \in Nat /\ file \in Seq(Net!AllBytes)
      /\ L \in Nat /\ Len(d) \in Nat /\ Len(d) <= BUFFER_SIZE /\ BUFFER_SIZE \in Nat
      /\ position \in [Entry -> 0 .. BUFFER_SIZE]
      /\ \A e \in Entry : position[e] \in Nat /\ data[e] \in Seq(Net!AllBytes)
      /\ Ordered(d) /\ \A e \in 1 .. linked : e < entry => Before(data[e], d)
  <2>1. entry \in 1 .. added /\ entry \in Entry
    BY <1>2, <1>3
  <2> QED
    BY <1>2, <2>1, StateTypes DEF IInv, DataState
<1>5. PICK n \in Nat :
        /\ p + n <= Len(d)
        /\ file' = Joined(file, d, p, n)
        /\ position' = [position EXCEPT ![entry] = p + n]
        /\ wpc' \in {"del", "poll"} /\ (wpc' = "del" => p + n = Len(d))
  BY ReadDataTakes
<1>6. /\ file' \in Seq(Net!AllBytes) /\ Len(file') = L + n
      /\ \A i \in 1 .. L : file'[i] = file[i]
      /\ \A i \in 1 .. n : file'[L + i] = d[p + i]
  <2> HIDE DEF d, p
  <2> HIDE DEF L
  <2> DEFINE S == Net!AllBytes
  <2> HIDE DEF S
  <2>1. file \in Seq(S) /\ d \in Seq(S) /\ p \in Nat /\ n \in Nat
    BY <1>4 DEF S
  <2>2. p + n <= Len(d) /\ file' = Joined(file, d, p, n)
    BY <1>5
  <2>3. \A x, e \in Seq(S) : \A q, m \in Nat : q + m <= Len(e) =>
          /\ Joined(x, e, q, m) \in Seq(S) /\ Len(Joined(x, e, q, m)) = Len(x) + m
          /\ \A i \in 1 .. Len(x) : Joined(x, e, q, m)[i] = x[i]
          /\ \A i \in 1 .. m : Joined(x, e, q, m)[Len(x) + i] = e[q + i]
    <3> TAKE x, e \in Seq(S)
    <3> TAKE q, m \in Nat
    <3> HAVE q + m <= Len(e)
    <3>1. Joined(x, e, q, m) \in Seq(S)
      BY Appended
    <3>2. Len(Joined(x, e, q, m)) = Len(x) + m
      BY Appended
    <3>3. \A i \in 1 .. Len(x) : Joined(x, e, q, m)[i] = x[i]
      BY Appended
    <3>4. \A i \in 1 .. m : Joined(x, e, q, m)[Len(x) + i] = e[q + i]
      BY Appended
    <3> QED
      BY <3>1, <3>2, <3>3, <3>4
  <2>4. /\ Joined(file, d, p, n) \in Seq(S) /\ Len(Joined(file, d, p, n)) = Len(file) + n
        /\ \A i \in 1 .. Len(file) : Joined(file, d, p, n)[i] = file[i]
        /\ \A i \in 1 .. n : Joined(file, d, p, n)[Len(file) + i] = d[p + i]
    BY <2>1, <2>2, <2>3
  <2> QED
    BY <2>2, <2>4 DEF S, L
<1>7. \A e \in Entry : position'[e] = IF e = entry THEN p + n ELSE position[e]
  BY <1>4, <1>5
<1>8. data' = data /\ data'[entry] = d
  BY <1>1
<1> HIDE DEF d, p, L
<1>9. TypeOK'
  <2>1. p + n \in 0 .. BUFFER_SIZE
    BY <1>4, <1>5
  <2>2. position' \in [Entry -> 0 .. BUFFER_SIZE]
    BY <1>4, <1>5, <2>1
  <2>3. Net!NetTypeOK'
    BY <1>1, <1>2 DEF TypeOK, Net!NetTypeOK, netVars
  <2> QED
    BY <1>1, <1>2, <1>5, <1>6, <2>2, <2>3 DEF TypeOK
<1>10. Links'
  <2>1. Chain' /\ AddState' /\ HeadState'
    BY <1>1, <1>2, <1>5 DEF Chain, AddState, HeadState, Adding, Emptied
  <2>2. HandState'
    BY <1>1, <1>2, <1>3, <1>5 DEF HandState, InHand
  <2> QED
    BY <2>1, <2>2 DEF Links
<1>11. DataState'
  BY <1>1, <1>2, DataRests DEF netVars
<1>12. Progress'
  <2>1. \A e \in Entry : position'[e] <= Len(data[e])
    BY <1>2, <1>5, <1>7, <1>8 DEF Progress
  <2>2. \A e \in Entry : position'[e] > 0 => e <= linked /\ e <= entry
    BY <1>2, <1>3, <1>7 DEF Progress
  <2>3. \A e \in freed : position'[e] = Len(data[e])
    <3>1. \A e \in freed : e \in Entry /\ e < entry /\ e # entry
      BY <1>2, <1>3 DEF HeadState
    <3> QED
      BY <1>2, <1>7, <3>1 DEF Progress
  <2>4. wpc' \in {"del", "unlink_prev", "unlink_next", "free"} =>
          position'[entry] = Len(data[entry])
    BY <1>2, <1>3, <1>5, <1>7, <1>8
  <2> QED
    BY <1>1, <1>2, <1>3, <2>1, <2>2, <2>3, <2>4 DEF Progress
<1>13. \A i \in 1 .. L + n : i \in 1 .. L \/ (i - L \in 1 .. n /\ i = L + (i - L))
  BY <1>4, <1>5
<1>14. \A k \in 1 .. n : p + k \in 1 .. Len(d) /\ p + k \in 1 .. p + n
  BY <1>4, <1>5
(* What was in the file is of an entry before this one, or earlier in it.  *)
<1>15. ASSUME NEW i \in 1 .. L, NEW k \in 1 .. n, Owner(file[i]) = Owner(d[p + k])
       PROVE  file[i] < d[p + k]
  <2>1. PICK e \in 1 .. linked : \E m \in 1 .. position[e] : file[i] = data[e][m]
    BY <1>2 DEF FileState, L
  <2>2. PICK m \in 1 .. position[e] : file[i] = data[e][m]
    BY <2>1
  <2>3. position[e] \in Nat /\ position[e] > 0 /\ e \in Entry
        /\ position[e] <= Len(data[e]) /\ Len(data[e]) \in Nat
    <3>1. e \in Entry
      BY <1>2
    <3>2. position[e] \in Nat /\ Len(data[e]) \in Nat /\ position[e] <= Len(data[e])
      BY <1>2, <1>4, <3>1, LenProperties DEF Progress
    <3> QED
      BY <2>2, <3>1, <3>2
  <2>4. e <= entry /\ m \in 1 .. Len(data[e])
    BY <1>2, <1>3, <2>2, <2>3 DEF Progress
  <2>5. CASE e < entry
    BY <1>4, <1>14, <1>15, <2>2, <2>4, <2>5 DEF Before
  <2>6. CASE e = entry
    <3>1. data[e] = d /\ position[e] = p
      BY <2>6 DEF d, p
    <3>2. m < p + k
      BY <1>4, <2>2, <3>1
    <3> QED
      BY <1>4, <1>14, <1>15, <2>2, <2>4, <3>1, <3>2 DEF Ordered
  <2> QED
    BY <1>2, <1>3, <2>4, <2>5, <2>6
<1>16. Ordered(file')
  <2> SUFFICES ASSUME NEW i \in 1 .. L + n, NEW j \in 1 .. L + n, i < j,
                      Owner(file'[i]) = Owner(file'[j])
               PROVE  file'[i] < file'[j]
    BY <1>6 DEF Ordered
  <2>1. CASE j \in 1 .. L
    <3>1. i \in 1 .. L /\ Ordered(file)
      BY <1>2, <1>4, <2>1 DEF FileState
    <3> QED
      BY <1>6, <2>1, <3>1 DEF Ordered, L
  <2>2. CASE i \in 1 .. L /\ j - L \in 1 .. n /\ j = L + (j - L)
    <3>1. file'[i] = file[i] /\ file'[j] = d[p + (j - L)]
      BY <1>6, <2>2
    <3> QED
      BY <1>15, <2>2, <3>1
  <2>3. CASE /\ i - L \in 1 .. n /\ i = L + (i - L)
             /\ j - L \in 1 .. n /\ j = L + (j - L)
    <3>1. file'[i] = d[p + (i - L)] /\ file'[j] = d[p + (j - L)]
      BY <1>6, <2>3
    <3>2. p + (i - L) < p + (j - L)
      BY <1>4
    <3> QED
      BY <1>4, <1>14, <2>3, <3>1, <3>2 DEF Ordered
  <2>4. j \notin 1 .. L => j - L \in 1 .. n /\ j = L + (j - L)
    BY <1>13
  <2> QED
    BY <1>13, <2>1, <2>2, <2>3, <2>4
<1>17. \A i \in 1 .. L + n : \E e \in 1 .. linked : \E k \in 1 .. position'[e] :
         file'[i] = data[e][k]
  <2> SUFFICES ASSUME NEW i \in 1 .. L + n
               PROVE  \E e \in 1 .. linked : \E k \in 1 .. position'[e] :
                        file'[i] = data[e][k]
    OBVIOUS
  <2>1. CASE i \in 1 .. L
    <3>1. PICK e \in 1 .. linked : \E k \in 1 .. position[e] : file[i] = data[e][k]
      BY <1>2, <2>1 DEF FileState, L
    <3>2. PICK k \in 1 .. position[e] : file[i] = data[e][k]
      BY <3>1
    <3>3. e \in Entry /\ position[e] \in Nat
      BY <1>2, <1>4
    <3>4. k \in 1 .. position'[e]
      <4>1. e = entry => position[e] = p
        BY DEF p
      <4> QED
        BY <1>5, <1>7, <3>2, <3>3, <4>1
    <3> QED
      BY <1>6, <2>1, <3>2, <3>4
  <2>2. CASE i - L \in 1 .. n /\ i = L + (i - L)
    <3>1. file'[i] = data[entry][p + (i - L)]
      BY <1>6, <2>2 DEF d
    <3>2. p + (i - L) \in 1 .. position'[entry]
      BY <1>2, <1>3, <1>7, <1>14, <2>2
    <3> QED
      BY <1>3, <3>1, <3>2
  <2> QED
    BY <1>13, <2>1, <2>2
<1>18. \A e \in 1 .. linked : \A k \in 1 .. position'[e] :
         \E i \in 1 .. L + n : file'[i] = data[e][k]
  <2> SUFFICES ASSUME NEW e \in 1 .. linked, NEW k \in 1 .. position'[e]
               PROVE  \E i \in 1 .. L + n : file'[i] = data[e][k]
    OBVIOUS
  <2>1. e \in Entry /\ position[e] \in Nat /\ (e = entry => position[e] = p)
    BY <1>2, <1>4 DEF p
  <2>2. CASE k \in 1 .. position[e]
    <3>1. PICK i \in 1 .. L : file[i] = data[e][k]
      BY <1>2, <2>2 DEF FileState, L
    <3>2. i \in 1 .. L + n /\ file'[i] = file[i]
      BY <1>4, <1>6
    <3> QED
      BY <3>1, <3>2
  <2>3. CASE k \notin 1 .. position[e]
    <3>1. e = entry /\ k \in 1 .. p + n /\ k \notin 1 .. p
      BY <1>7, <2>1, <2>3
    <3>2. k - p \in 1 .. n /\ p + (k - p) = k /\ L + (k - p) \in 1 .. L + n
      BY <1>4, <1>5, <3>1
    <3>3. file'[L + (k - p)] = d[p + (k - p)]
      BY <1>6, <3>2
    <3> QED
      BY <3>1, <3>2, <3>3 DEF d
  <2> QED
    BY <2>2, <2>3
<1>19. FileState'
  BY <1>2, <1>6, <1>8, <1>16, <1>17, <1>18 DEF FileState
<1> QED
  BY <1>9, <1>10, <1>11, <1>12, <1>19 DEF IInv

LEMMA NextInvariant == IInv /\ [Next]_vars => IInv'
<1>1. IInv /\ UNCHANGED vars => IInv'
  <2> SUFFICES ASSUME IInv, UNCHANGED vars PROVE IInv'
    OBVIOUS
  <2>1. UNCHANGED <<netVars, chunk, listVars, mainVars, workerVars>>
    BY DEF vars
  <2>2. Net!NetTypeOK'
    BY <2>1 DEF IInv, TypeOK, Net!NetTypeOK, netVars
  <2>3. DataState'
    BY <2>1, DataRests DEF IInv, netVars, listVars, mainVars
  <2> QED
    BY <2>1, <2>2, <2>3, OutsideSteps
<1> QED
  BY <1>1, ClienteleKeeps, MainLoopKeeps, AllocateKeeps, AllocateFailsKeeps,
     LoadTailKeeps, LinkStoreKeeps, PollKeeps, FirstKeeps, ReadDataKeeps,
     LoadLinksKeeps, UnlinkPrevKeeps, UnlinkNextKeeps, FreeKeeps
     DEF Next, Main, Worker
-----------------------------------------------------------------------------
(* The walk: from the head to the first entry, and on to the next ones up  *)
(* to one that leads back to the head.                                     *)
LEMMA Smallest ==
  ASSUME NEW T, T \subseteq Nat, T # {}
  PROVE  \E x \in T : \A y \in T : x <= y
<1> DEFINE R == OpToRel(<, Nat)
<1>1. IsWellFoundedOn(R, Nat)
  BY NatLessThanWellFounded
<1>2. PICK x \in T : \A y \in T : ~(<<y, x>> \in R)
  <2> HIDE DEF R
  <2> QED
    BY <1>1, WFMin
<1>3. \A y \in T : ~(y < x)
  <2> TAKE y \in T
  <2>1. <<y, x>> \notin R /\ x \in Nat /\ y \in Nat
    BY <1>2
  <2> QED
    BY <2>1 DEF OpToRel
<1> QED
  BY <1>3

IsWalk(f) ==
  f = [k \in Node |-> IF k = 0 THEN next[0]
                      ELSE IF f[k - 1] \in Entry THEN next[f[k - 1]]
                      ELSE f[k - 1]]

LEMMA OneWalk ==
  ASSUME NEW f, NEW g, IsWalk(f), IsWalk(g)
  PROVE  \A k \in Node : f[k] = g[k]
<1> DEFINE T == {k \in Node : f[k] # g[k]}
<1>1. Node = 0 .. MaxEntry /\ MaxEntry \in Nat
  BY Constants DEF Node, Entry
<1>2. \A k \in Node : /\ k = 0 => f[k] = next[0] /\ g[k] = next[0]
                      /\ k # 0 => /\ f[k] = (IF f[k - 1] \in Entry THEN next[f[k - 1]]
                                                                 ELSE f[k - 1])
                                  /\ g[k] = (IF g[k - 1] \in Entry THEN next[g[k - 1]]
                                                                 ELSE g[k - 1])
  BY DEF IsWalk
<1> SUFFICES ASSUME T # {} PROVE FALSE
  OBVIOUS
<1>3. PICK k \in T : \A j \in T : k <= j
  <2>1. T \subseteq Nat
    BY <1>1
  <2> QED
    BY <2>1, Smallest
<1>4. k \in Node /\ f[k] # g[k] /\ k # 0
  BY <1>2
<1>5. k - 1 \in Node /\ k - 1 \notin T
  BY <1>1, <1>3, <1>4
<1>6. f[k - 1] = g[k - 1]
  BY <1>5
<1> QED
  BY <1>2, <1>4, <1>6

LEMMA WalkEnds ==
  ASSUME IInv
  PROVE  Forward[MaxEntry] = 0 /\ \A k \in Node : Forward[k] \notin freed
<1> DEFINE h == next[0]
<1>1. /\ linked \in Nat /\ linked <= MaxEntry /\ MaxEntry \in Nat
      /\ Node = 0 .. MaxEntry /\ Entry = 1 .. MaxEntry /\ Chain
      /\ h \in 0 .. linked /\ freed \subseteq 1 .. linked
      /\ h # 0 => \A e \in freed : e < h
  <2>1. Chain /\ HeadState /\ linked \in Nat /\ linked <= MaxEntry
    BY StateTypes DEF IInv, Links, AddState, linked
  <2> QED
    BY <2>1, StateTypes DEF IInv, HeadState
<1>2. ASSUME h # 0
      PROVE  \E z \in h .. linked :
               next[z] = 0 /\ \A n \in h .. linked : n < z => next[n] = n + 1
  <2> DEFINE T == {n \in h .. linked : next[n] = 0}
  <2>1. \A n \in h .. linked : next[n] = 0 \/ (next[n] = n + 1 /\ n + 1 <= linked)
    <3> TAKE n \in h .. linked
    <3>1. n \in 1 .. linked /\ n \notin freed
      BY <1>1, <1>2
    <3> QED
      BY <1>1, <3>1 DEF Chain
  <2>2. linked \in T
    <3>1. linked \in h .. linked /\ ~(linked + 1 <= linked)
      BY <1>1
    <3> QED
      BY <2>1, <3>1
  <2>3. PICK z \in T : \A n \in T : z <= n
    <3>1. T \subseteq Nat
      BY <1>1
    <3> QED
      BY <2>2, <3>1, Smallest
  <2>4. \A n \in h .. linked : n < z => n \notin T
    BY <1>1, <2>3
  <2> QED
    BY <2>1, <2>3, <2>4
<1> DEFINE Z(z) == h # 0 => /\ z \in h .. linked /\ next[z] = 0
                            /\ \A n \in h .. linked : n < z => next[n] = n + 1
<1>3. PICK z : Z(z)
  BY <1>2
<1> DEFINE g == [k \in Node |-> IF h # 0 /\ h + k <= z THEN h + k ELSE 0]
<1>4. \A k \in Node : g[k] = IF h # 0 /\ h + k <= z THEN h + k ELSE 0
  OBVIOUS
<1>5. IsWalk(g)
  <2>1. ASSUME NEW k \in Node
        PROVE  g[k] = IF k = 0 THEN next[0]
                      ELSE IF g[k - 1] \in Entry THEN next[g[k - 1]]
                      ELSE g[k - 1]
    <3> HIDE DEF g
    <3>1. k \in Nat /\ (k # 0 => k - 1 \in Node)
      BY <1>1
    <3>2. CASE h = 0
      BY <1>1, <1>4, <3>1, <3>2
    <3>3. CASE h # 0 /\ k = 0
      BY <1>1, <1>3, <1>4, <3>3
    <3>4. CASE h # 0 /\ k # 0
      <4>1. z \in h .. linked /\ next[z] = 0 /\ z \in Nat /\ h \in Nat
            /\ \A n \in h .. linked : n < z => next[n] = n + 1
        BY <1>1, <1>3, <3>4
      <4>2. CASE h + (k - 1) < z
        <5>1. g[k - 1] = h + (k - 1) /\ g[k] = h + k
          BY <1>1, <1>4, <3>1, <3>4, <4>1, <4>2
        <5>2. h + (k - 1) \in h .. linked /\ h + (k - 1) \in Entry
          BY <1>1, <3>1, <3>4, <4>1, <4>2
        <5>3. next[h + (k - 1)] = h + k
          BY <3>1, <4>1, <4>2, <5>2
        <5> QED
          BY <3>4, <5>1, <5>2, <5>3
      <4>3. CASE h + (k - 1) = z
        <5>1. g[k - 1] = z /\ g[k] = 0
          BY <1>1, <1>4, <3>1, <3>4, <4>1, <4>3
        <5>2. z \in Entry
          BY <1>1, <3>4, <4>1
        <5> QED
          BY <3>4, <4>1, <5>1, <5>2
      <4>4. CASE h + (k - 1) > z
        <5>1. g[k - 1] = 0 /\ g[k] = 0
          BY <1>1, <1>4, <3>1, <3>4, <4>1, <4>4
        <5> QED
          BY <1>1, <3>4, <5>1
      <4> QED
        BY <3>1, <4>1, <4>2, <4>3, <4>4
    <3> QED
      BY <3>2, <3>3, <3>4
  <2> QED
    BY <2>1 DEF IsWalk
<1>6. IsWalk(Forward)
  <2>1. \E f : IsWalk(f)
    BY <1>5
  <2>2. Forward = CHOOSE f : IsWalk(f)
    BY DEF Forward, IsWalk
  <2> QED
    BY <2>1, <2>2
<1>7. \A k \in Node : Forward[k] = IF h # 0 /\ h + k <= z THEN h + k ELSE 0
  <2> HIDE DEF g
  <2> QED
    BY <1>4, <1>5, <1>6, OneWalk
<1>8. h # 0 => z \in Nat /\ z <= linked
  BY <1>1, <1>3
<1>9. Forward[MaxEntry] = 0
  <2>1. MaxEntry \in Node /\ (h # 0 => ~(h + MaxEntry <= z))
    BY <1>1, <1>8
  <2> QED
    BY <1>7, <2>1
<1>10. \A k \in Node : Forward[k] \notin freed
  <2> SUFFICES ASSUME NEW k \in Node PROVE Forward[k] \notin freed
    OBVIOUS
  <2>1. CASE h # 0 /\ h + k <= z
    <3>1. Forward[k] = h + k /\ ~(h + k < h)
      BY <1>1, <1>7, <2>1
    <3> QED
      BY <1>1, <2>1, <3>1
  <2>2. CASE ~(h # 0 /\ h + k <= z)
    <3>1. Forward[k] = 0
      BY <1>7, <2>2
    <3> QED
      BY <1>1, <3>1
  <2> QED
    BY <2>1, <2>2
<1> QED
  BY <1>9, <1>10

THEOREM Invariance == Spec => []IInv
<1>1. Init => IInv
  BY InitInvariant
<1>2. IInv /\ [Next]_vars => IInv'
  BY NextInvariant
<1> QED
  BY <1>1, <1>2, PTL DEF Spec

(* Without a lock the list is still safe to walk for the thread            *)
(* write_data2file: list_first_entry and list_del (list.h), whatever       *)
(* main's list_add_tail does between their loads and stores, never follow  *)
(* a link into an entry that was freed, and every walk ends at the head.   *)
THEOREM TheWalkIsSafe == Spec => []WalkIsSafe
<1>1. IInv => WalkIsSafe
  BY WalkEnds DEF WalkIsSafe, IInv
<1> QED
  BY <1>1, Invariance, PTL

(* What main's read and add_data_to_list hand over and write_data2file and *)
(* read_data write keeps the order of each client's bytes in test.h264,    *)
(* with none written twice, also when a write falls short.                 *)
THEOREM OrderIsKept == Spec => []ClientOrderKept
<1>1. IInv => ClientOrderKept
  BY DEF IInv, FileState, Ordered, Owner, ClientOrderKept
<1> QED
  BY <1>1, Invariance, PTL

(* write_data2file deletes and frees an entry only when read_data has      *)
(* written all of it.                                                      *)
THEOREM WrittenWhenFreed == Spec => []FreedIsWritten
<1>1. IInv => FreedIsWritten
  <2> SUFFICES ASSUME IInv, NEW e \in freed, NEW i \in 1 .. Len(data[e])
               PROVE  \E j \in 1 .. Len(file) : file[j] = data[e][i]
    BY DEF FreedIsWritten
  <2>1. position[e] = Len(data[e]) /\ e \in 1 .. linked
    BY DEF IInv, Progress, Links, HeadState
  <2> QED
    BY <2>1 DEF IInv, FileState
<1> QED
  BY <1>1, Invariance, PTL
=============================================================================
