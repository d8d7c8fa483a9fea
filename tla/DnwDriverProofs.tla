-------------------------- MODULE DnwDriverProofs --------------------------
(***************************************************************************)
(* What the download driver does to its memory, and what arrives at the    *)
(* devices, however many processes, devices and blocks there are.          *)
(***************************************************************************)
EXTENDS DnwDriver, SequenceTheorems, TLAPS

(* The places at which a process has its own buffer in the device, those   *)
(* at which it is on its way to or out of an open, and what is left to send *)
(* at each.                                                                *)
Owning == {"trylock", "copy", "bulk", "spinning", "release"}
Unsent == {"start", "find", "alloc", "trylock", "lib", "detach", "reset",
           "configure", "claim"}
SentInRange ==
    /\ \A p \in Proc : pc[p] \in Unsent => sent[p] = 0
    /\ \A p \in Proc : pc[p] \in {"copy", "bulk", "libwrite", "stalled"} =>
                           sent[p] < Image
    /\ hub = "probe" => latest < Plugs

(* The core never keeps a pointer to a struct it has freed, except while   *)
(* the disconnect is under way, and it owns the struct of a probe.         *)
CoreIsCareful ==
    /\ intfdata # 0 /\ hub # "deregister" => live[intfdata]
    /\ hub \in {"register", "setdata", "mutexinit"} =>
           latest \in Dev /\ live[latest]
    /\ \A d \in Dev : d > latest => ~live[d] /\ io_mutex[d] = None

(* Until something goes wrong every process inside the driver works on a   *)
(* live struct, alone from its trylock to its unlock, with its own buffer;  *)
(* the mutex is held by one of them.                                        *)
Inside == \A p \in Proc : pc[p] \in {"alloc", "unlock"} \cup Owning =>
              file[p] \in Dev /\ live[file[p]]
Alone == \A p, q \in Proc :
             p # q /\ pc[p] \in Owning \cup {"unlock"}
                   /\ pc[q] \in Owning \cup {"unlock"} => file[p] # file[q]
OwnBuffer == \A p \in Proc : pc[p] \in Owning =>
                 bulkout_buffer[file[p]] = p /\ heap[p] = "live"
Holders == \A d \in Dev : live[d] /\ io_mutex[d] # None =>
               pc[io_mutex[d]] \in Holding /\ file[io_mutex[d]] = d
Buffers == \A p \in Proc : heap[p] = "live" => pc[p] \in Owning
Orderly == mishaps = {} =>
    Defined /\ Inside /\ Alone /\ OwnBuffer /\ Holders /\ Buffers

IInv == DnwTypeOK /\ SentInRange /\ CoreIsCareful /\ Orderly

(* The minor number stays as long as somebody is opening it, and it comes   *)
(* with a pointer except before usb_set_intfdata.                           *)
OpenFinds == /\ minor /\ hub # "setdata" => intfdata # 0
             /\ \A p \in Proc : pc[p] \in Opening => minor

LEMMA Constants ==
  Image \in Nat \ {0} /\ Plugs \in Nat /\ None \notin Proc
  BY DnwAssumption

LEMMA PlaceTypes ==
  /\ Unsent \cup Owning \cup {"unlock", "libwrite", "stalled", "libclose",
                        "done", "undefined", "copy", "bulk"} \subseteq Pcs
  /\ {"idle", "probe", "register", "setdata", "mutexinit", "free",
       "deregister"} \subseteq HubPcs
  /\ {"none", "ok", "failed"} \subseteq Results
  BY DEF Unsent, Owning, Pcs, HubPcs, Results

LEMMA MishapTypes ==
  \A m \in SUBSET Mishaps :
       /\ m \cup {"in use"} \in SUBSET Mishaps
       /\ m \cup {"early"} \in SUBSET Mishaps
       /\ m \cup {} \in SUBSET Mishaps
       /\ m \cup {"twice"} \in SUBSET Mishaps
  BY DEF Mishaps

(* The type invariant in parts: what the core keeps, what the processes    *)
(* keep, the memory, and what is observed.                                 *)
CoreTypes == /\ plugged \in BOOLEAN /\ hub \in HubPcs /\ minor \in BOOLEAN
             /\ intfdata \in 0..Plugs /\ latest \in 0..Plugs
             /\ claimed \in Proc \cup {None}
             /\ handles \in SUBSET Proc /\ taken \in SUBSET Proc
ProcTypes == /\ pc \in [Proc -> Pcs] /\ file \in [Proc -> 0..Plugs]
             /\ sent \in [Proc -> Block] /\ result \in [Proc -> Results]
MemoryTypes == /\ live \in [Dev -> BOOLEAN]
               /\ bulkout_buffer \in [Dev -> Proc \cup {None}]
               /\ io_mutex \in [Dev -> Proc \cup {None}]
               /\ heap \in [Proc -> {"none", "live", "freed"}]
               /\ data \in [Proc -> (Proc \cup {None}) \X Block]
SeenTypes == /\ wire \in Seq((Proc \cup {None}) \X Block)
             /\ mishaps \in SUBSET Mishaps

LEMMA TypesInParts ==
  DnwTypeOK <=> CoreTypes /\ ProcTypes /\ MemoryTypes /\ SeenTypes
  BY DEF DnwTypeOK, CoreTypes, ProcTypes, MemoryTypes, SeenTypes

(* Who holds a mutex of a live struct is in the driver with it.             *)
LEMMA HolderIsInside ==
  ASSUME MemoryTypes, Holders, NEW d \in Dev, live[d], io_mutex[d] # None
  PROVE  /\ io_mutex[d] \in Proc /\ pc[io_mutex[d]] \in Holding
         /\ file[io_mutex[d]] = d
  BY DEF MemoryTypes, Holders

LEMMA Initially == Init => IInv
<1> SUFFICES ASSUME Init PROVE IInv
  OBVIOUS
<1>1. CoreTypes
  <2>1. plugged \in BOOLEAN /\ hub \in HubPcs /\ minor \in BOOLEAN
    BY DEF Init, HubPcs
  <2>2. /\ intfdata \in 0..Plugs /\ latest \in 0..Plugs
        /\ claimed \in Proc \cup {None}
        /\ handles \in SUBSET Proc /\ taken \in SUBSET Proc
    BY Constants DEF Init
  <2> QED
    BY <2>1, <2>2 DEF CoreTypes
<1>2. ProcTypes
  <2>1. pc \in [Proc -> Pcs] /\ result \in [Proc -> Results]
    BY DEF Init, Pcs, Results
  <2>2. file \in [Proc -> 0..Plugs] /\ sent \in [Proc -> Block]
    BY Constants DEF Init, Block
  <2> QED
    BY <2>1, <2>2 DEF ProcTypes
<1>3. MemoryTypes /\ SeenTypes
  BY Constants DEF Init, MemoryTypes, SeenTypes, Block
<1>4. SentInRange /\ CoreIsCareful
  BY Constants DEF Init, SentInRange, CoreIsCareful, Unsent, Dev
<1>5. Orderly
  BY Constants
  DEF Init, Orderly, Defined, Inside, Alone, OwnBuffer, Holders, Buffers,
      Owning, Dev
<1> QED
  BY <1>1, <1>2, <1>3, <1>4, <1>5, TypesInParts DEF IInv

LEMMA PlugKeeps ==
  ASSUME IInv, Defined, Plug
  PROVE  IInv'
<1> USE DEF Plug, hubVars, memory, dev, procVars, usbfs
<1>1. CoreTypes /\ ProcTypes /\ MemoryTypes /\ SeenTypes
  BY TypesInParts DEF IInv
<1>2. CoreTypes'
  BY <1>1, PlaceTypes, Constants DEF CoreTypes, IInv, SentInRange
<1>4. ProcTypes'
  BY <1>1, PlaceTypes DEF ProcTypes, Unsent, Owning, CoreTypes
<1>5. MemoryTypes'
  BY <1>1, Constants
  DEF MemoryTypes, Dev, CoreTypes, ProcTypes, Block, IInv, SentInRange
<1>6. SeenTypes'
  BY <1>1, MishapTypes, Constants
  DEF SeenTypes, ProcTypes, MemoryTypes, Block, IInv, SentInRange
<1>7. SentInRange'
  BY <1>1, Constants
  DEF IInv, SentInRange, Unsent, ProcTypes, CoreTypes, Block
<1>8. CoreIsCareful'
  BY <1>1, Constants
  DEF IInv, SentInRange, CoreIsCareful, CoreTypes, MemoryTypes, Dev
<1>9. Orderly'
  BY <1>1, Constants
  DEF IInv, Orderly, Defined, Inside, Alone, OwnBuffer, Holders, Buffers,
      Owning, Holding, CoreIsCareful, Opening, Dev, CoreTypes, ProcTypes,
      MemoryTypes
<1> QED
  BY <1>2, <1>4, <1>5, <1>6, <1>7, <1>8, <1>9, TypesInParts
  DEF IInv, DnwTypeOK, CoreTypes, ProcTypes, MemoryTypes, SeenTypes

LEMMA UnplugKeeps ==
  ASSUME IInv, Defined, Unplug
  PROVE  IInv'
<1> USE DEF Unplug, hubVars, memory, dev, procVars, usbfs
<1>1. CoreTypes /\ ProcTypes /\ MemoryTypes /\ SeenTypes
  BY TypesInParts DEF IInv
<1>2. CoreTypes'
  BY <1>1, PlaceTypes, Constants DEF CoreTypes, IInv, SentInRange
<1>4. ProcTypes'
  BY <1>1, PlaceTypes DEF ProcTypes, Unsent, Owning, CoreTypes
<1>5. MemoryTypes'
  BY <1>1, Constants
  DEF MemoryTypes, Dev, CoreTypes, ProcTypes, Block, IInv, SentInRange
<1>6. SeenTypes'
  BY <1>1, MishapTypes, Constants
  DEF SeenTypes, ProcTypes, MemoryTypes, Block, IInv, SentInRange
<1>7. SentInRange'
  BY <1>1, Constants
  DEF IInv, SentInRange, Unsent, ProcTypes, CoreTypes, Block
<1>8. CoreIsCareful'
  BY <1>1, Constants
  DEF IInv, SentInRange, CoreIsCareful, CoreTypes, MemoryTypes, Dev
<1>9. Orderly'
  BY <1>1, Constants
  DEF IInv, Orderly, Defined, Inside, Alone, OwnBuffer, Holders, Buffers,
      Owning, Holding, CoreIsCareful, Opening, Dev, CoreTypes, ProcTypes,
      MemoryTypes
<1> QED
  BY <1>2, <1>4, <1>5, <1>6, <1>7, <1>8, <1>9, TypesInParts
  DEF IInv, DnwTypeOK, CoreTypes, ProcTypes, MemoryTypes, SeenTypes

LEMMA ProbeAllocKeeps ==
  ASSUME IInv, Defined, ProbeAlloc
  PROVE  IInv'
<1> USE DEF ProbeAlloc, hubVars, memory, dev, procVars, usbfs
<1>1. CoreTypes /\ ProcTypes /\ MemoryTypes /\ SeenTypes
  BY TypesInParts DEF IInv
<1>2. CoreTypes'
  BY <1>1, PlaceTypes, Constants DEF CoreTypes, IInv, SentInRange
<1>4. ProcTypes'
  BY <1>1, PlaceTypes DEF ProcTypes, Unsent, Owning, CoreTypes
<1>5. MemoryTypes'
  BY <1>1, Constants
  DEF MemoryTypes, Dev, CoreTypes, ProcTypes, Block, IInv, SentInRange
<1>6. SeenTypes'
  BY <1>1, MishapTypes, Constants
  DEF SeenTypes, ProcTypes, MemoryTypes, Block, IInv, SentInRange
<1>7. SentInRange'
  BY <1>1, Constants
  DEF IInv, SentInRange, Unsent, ProcTypes, CoreTypes, Block
<1>8. CoreIsCareful'
  <2>1. latest' = latest + 1 /\ latest' \in Dev /\ latest < latest'
    BY <1>1, Constants DEF IInv, SentInRange, CoreTypes, Dev
  <2>2. \A d \in Dev : d > latest' =>
             ~live[d] /\ io_mutex[d] = None /\ d # latest'
    BY <1>1, <2>1 DEF IInv, CoreIsCareful, CoreTypes, Dev
  <2>3. \/ live' = [live EXCEPT ![latest'] = TRUE]
        \/ live' = live /\ hub' = "idle"
    BY <2>1
  <2>4. /\ live'[latest'] \/ hub' = "idle"
        /\ \A d \in Dev \ {latest'} : live'[d] = live[d]
    BY <1>1, <2>1, <2>3 DEF MemoryTypes
  <2>5. (intfdata # 0 /\ hub # "deregister" => live[intfdata])'
    <3>1. intfdata # 0 => live[intfdata] /\ intfdata \in Dev
      BY <1>1 DEF IInv, CoreIsCareful, CoreTypes, Dev
    <3> QED
      BY <1>1, <2>3, <3>1 DEF MemoryTypes
  <2> QED
    BY <2>1, <2>2, <2>4, <2>5 DEF CoreIsCareful
<1>9. Orderly'
  <2> SUFFICES ASSUME mishaps' = {}
               PROVE  (/\ Defined /\ Inside /\ Alone
                       /\ OwnBuffer /\ Holders /\ Buffers)'
    BY DEF Orderly
  <2>1. /\ mishaps = {} /\ Defined /\ Inside /\ Alone
        /\ OwnBuffer /\ Holders /\ Buffers
    BY DEF IInv, Orderly
  <2>8. /\ UNCHANGED <<pc, file, heap, bulkout_buffer, io_mutex>>
        /\ latest + 1 \in Dev /\ io_mutex[latest + 1] = None
        /\ \/ live' = [live EXCEPT ![latest + 1] = TRUE]
           \/ live' = live
    <3>1. latest + 1 \in Dev
      BY <1>1, Constants DEF IInv, SentInRange, CoreTypes, Dev
    <3>2. io_mutex[latest + 1] = None
      <4>1. latest + 1 > latest
        BY <1>1 DEF CoreTypes
      <4>2. \A d \in Dev : d > latest => io_mutex[d] = None
        BY DEF IInv, CoreIsCareful
      <4> QED
        BY <3>1, <4>1, <4>2
    <3> QED
      BY <3>1, <3>2
  <2> HIDE DEF ProbeAlloc
  <2>2. Defined'
    BY <1>1, <2>1, <2>8, Constants
    DEF ProcTypes, MemoryTypes, Dev, Owning, Holding, Opening, Defined,
        Inside, Alone, OwnBuffer, Holders, Buffers
  <2>3. Inside'
    BY <1>1, <2>1, <2>8, Constants
    DEF ProcTypes, MemoryTypes, Dev, Owning, Holding, Opening, Defined,
        Inside, Alone, OwnBuffer, Holders, Buffers
  <2>4. Alone'
    BY <1>1, <2>1, <2>8, Constants
    DEF ProcTypes, MemoryTypes, Dev, Owning, Holding, Opening, Defined,
        Inside, Alone, OwnBuffer, Holders, Buffers
  <2>5. OwnBuffer'
    BY <1>1, <2>1, <2>8, Constants
    DEF ProcTypes, MemoryTypes, Dev, Owning, Holding, Opening, Defined,
        Inside, Alone, OwnBuffer, Holders, Buffers
  <2>6. Holders'
    BY <1>1, <2>1, <2>8, Constants
    DEF ProcTypes, MemoryTypes, Dev, Owning, Holding, Opening, Defined,
        Inside, Alone, OwnBuffer, Holders, Buffers
  <2>7. Buffers'
    BY <1>1, <2>1, <2>8, Constants
    DEF ProcTypes, MemoryTypes, Dev, Owning, Holding, Opening, Defined,
        Inside, Alone, OwnBuffer, Holders, Buffers
  <2> QED
    BY <2>2, <2>3, <2>4, <2>5, <2>6, <2>7
<1> QED
  BY <1>2, <1>4, <1>5, <1>6, <1>7, <1>8, <1>9, TypesInParts
  DEF IInv, DnwTypeOK, CoreTypes, ProcTypes, MemoryTypes, SeenTypes

LEMMA ProbeRegisterKeeps ==
  ASSUME IInv, Defined, ProbeRegister
  PROVE  IInv'
<1> USE DEF ProbeRegister, hubVars, memory, dev, procVars, usbfs
<1>1. CoreTypes /\ ProcTypes /\ MemoryTypes /\ SeenTypes
  BY TypesInParts DEF IInv
<1>2. CoreTypes'
  BY <1>1, PlaceTypes, Constants DEF CoreTypes, IInv, SentInRange
<1>4. ProcTypes'
  BY <1>1, PlaceTypes DEF ProcTypes, Unsent, Owning, CoreTypes
<1>5. MemoryTypes'
  BY <1>1, Constants
  DEF MemoryTypes, Dev, CoreTypes, ProcTypes, Block, IInv, SentInRange
<1>6. SeenTypes'
  BY <1>1, MishapTypes, Constants
  DEF SeenTypes, ProcTypes, MemoryTypes, Block, IInv, SentInRange
<1>7. SentInRange'
  BY <1>1, Constants
  DEF IInv, SentInRange, Unsent, ProcTypes, CoreTypes, Block
<1>8. CoreIsCareful'
  BY <1>1, Constants
  DEF IInv, SentInRange, CoreIsCareful, CoreTypes, MemoryTypes, Dev
<1>9. Orderly'
  BY <1>1, Constants
  DEF IInv, Orderly, Defined, Inside, Alone, OwnBuffer, Holders, Buffers,
      Owning, Holding, CoreIsCareful, Opening, Dev, CoreTypes, ProcTypes,
      MemoryTypes
<1> QED
  BY <1>2, <1>4, <1>5, <1>6, <1>7, <1>8, <1>9, TypesInParts
  DEF IInv, DnwTypeOK, CoreTypes, ProcTypes, MemoryTypes, SeenTypes

LEMMA ProbeSetDataKeeps ==
  ASSUME IInv, Defined, ProbeSetData
  PROVE  IInv'
<1> USE DEF ProbeSetData, hubVars, memory, dev, procVars, usbfs
<1>1. CoreTypes /\ ProcTypes /\ MemoryTypes /\ SeenTypes
  BY TypesInParts DEF IInv
<1>2. CoreTypes'
  BY <1>1, PlaceTypes, Constants DEF CoreTypes, IInv, SentInRange
<1>4. ProcTypes'
  BY <1>1, PlaceTypes DEF ProcTypes, Unsent, Owning, CoreTypes
<1>5. MemoryTypes'
  BY <1>1, Constants
  DEF MemoryTypes, Dev, CoreTypes, ProcTypes, Block, IInv, SentInRange
<1>6. SeenTypes'
  BY <1>1, MishapTypes, Constants
  DEF SeenTypes, ProcTypes, MemoryTypes, Block, IInv, SentInRange
<1>7. SentInRange'
  BY <1>1, Constants
  DEF IInv, SentInRange, Unsent, ProcTypes, CoreTypes, Block
<1>8. CoreIsCareful'
  BY <1>1, Constants
  DEF IInv, SentInRange, CoreIsCareful, CoreTypes, MemoryTypes, Dev
<1>9. Orderly'
  BY <1>1, Constants
  DEF IInv, Orderly, Defined, Inside, Alone, OwnBuffer, Holders, Buffers,
      Owning, Holding, CoreIsCareful, Opening, Dev, CoreTypes, ProcTypes,
      MemoryTypes
<1> QED
  BY <1>2, <1>4, <1>5, <1>6, <1>7, <1>8, <1>9, TypesInParts
  DEF IInv, DnwTypeOK, CoreTypes, ProcTypes, MemoryTypes, SeenTypes

LEMMA ProbeMutexInitKeeps ==
  ASSUME IInv, Defined, ProbeMutexInit
  PROVE  IInv'
<1> USE DEF ProbeMutexInit, hubVars, memory, dev, procVars, usbfs
<1>1. CoreTypes /\ ProcTypes /\ MemoryTypes /\ SeenTypes
  BY TypesInParts DEF IInv
<1>2. CoreTypes'
  BY <1>1, PlaceTypes, Constants DEF CoreTypes, IInv, SentInRange
<1>4. ProcTypes'
  BY <1>1, PlaceTypes DEF ProcTypes, Unsent, Owning, CoreTypes
<1>5. MemoryTypes'
  BY <1>1, Constants
  DEF MemoryTypes, Dev, CoreTypes, ProcTypes, Block, IInv, SentInRange
<1>6. SeenTypes'
  BY <1>1, MishapTypes, Constants
  DEF SeenTypes, ProcTypes, MemoryTypes, Block, IInv, SentInRange
<1>7. SentInRange'
  BY <1>1, Constants
  DEF IInv, SentInRange, Unsent, ProcTypes, CoreTypes, Block
<1>8. CoreIsCareful'
  BY <1>1, Constants
  DEF IInv, SentInRange, CoreIsCareful, CoreTypes, MemoryTypes, Dev
<1>9. Orderly'
  BY <1>1, Constants
  DEF IInv, Orderly, Defined, Inside, Alone, OwnBuffer, Holders, Buffers,
      Owning, Holding, CoreIsCareful, Opening, Dev, CoreTypes, ProcTypes,
      MemoryTypes
<1> QED
  BY <1>2, <1>4, <1>5, <1>6, <1>7, <1>8, <1>9, TypesInParts
  DEF IInv, DnwTypeOK, CoreTypes, ProcTypes, MemoryTypes, SeenTypes

LEMMA DisconnectFreeKeeps ==
  ASSUME IInv, Defined, DisconnectFree
  PROVE  IInv'
<1> USE DEF DisconnectFree, Opening, Holding, hubVars, memory, dev, procVars,
   usbfs
<1>1. CoreTypes /\ ProcTypes /\ MemoryTypes /\ SeenTypes
  BY TypesInParts DEF IInv
<1>2. CoreTypes'
  BY <1>1, PlaceTypes, Constants DEF CoreTypes, IInv, SentInRange
<1>4. ProcTypes'
  BY <1>1, PlaceTypes DEF ProcTypes, Unsent, Owning, CoreTypes
<1>5. MemoryTypes'
  BY <1>1, Constants
  DEF MemoryTypes, Dev, CoreTypes, ProcTypes, Block, IInv, SentInRange
<1>6. SeenTypes'
  BY <1>1, MishapTypes, Constants
  DEF SeenTypes, ProcTypes, MemoryTypes, Block, IInv, SentInRange
<1>7. SentInRange'
  BY <1>1, Constants
  DEF IInv, SentInRange, Unsent, ProcTypes, CoreTypes, Block
<1>8. CoreIsCareful'
  BY <1>1, Constants
  DEF IInv, SentInRange, CoreIsCareful, CoreTypes, MemoryTypes, Dev
<1>9. Orderly'
  <2> SUFFICES ASSUME mishaps' = {}
               PROVE  (/\ Defined /\ Inside /\ Alone
                       /\ OwnBuffer /\ Holders /\ Buffers)'
    BY DEF Orderly
  <2>1. /\ mishaps = {} /\ Defined /\ Inside /\ Alone
        /\ OwnBuffer /\ Holders /\ Buffers
    BY DEF IInv, Orderly
  <2>8. /\ UNCHANGED <<pc, file, heap, bulkout_buffer, io_mutex>>
        /\ live' = [live EXCEPT ![intfdata] = FALSE]
        /\ \A q \in Proc : file[q] = intfdata =>
                              pc[q] \notin Opening \cup Holding
    BY <2>1
  <2> HIDE DEF DisconnectFree, Opening, Holding
  <2>2. Defined'
    BY <1>1, <2>1, <2>8, Constants
    DEF ProcTypes, MemoryTypes, Dev, Owning, Holding, Opening, Defined,
        Inside, Alone, OwnBuffer, Holders, Buffers
  <2>3. Inside'
    BY <1>1, <2>1, <2>8, Constants
    DEF ProcTypes, MemoryTypes, Dev, Owning, Holding, Opening, Defined,
        Inside, Alone, OwnBuffer, Holders, Buffers
  <2>4. Alone'
    BY <1>1, <2>1, <2>8, Constants
    DEF ProcTypes, MemoryTypes, Dev, Owning, Holding, Opening, Defined,
        Inside, Alone, OwnBuffer, Holders, Buffers
  <2>5. OwnBuffer'
    BY <1>1, <2>1, <2>8, Constants
    DEF ProcTypes, MemoryTypes, Dev, Owning, Holding, Opening, Defined,
        Inside, Alone, OwnBuffer, Holders, Buffers
  <2>6. Holders'
    BY <1>1, <2>1, <2>8, Constants
    DEF ProcTypes, MemoryTypes, Dev, Owning, Holding, Opening, Defined,
        Inside, Alone, OwnBuffer, Holders, Buffers
  <2>7. Buffers'
    BY <1>1, <2>1, <2>8, Constants
    DEF ProcTypes, MemoryTypes, Dev, Owning, Holding, Opening, Defined,
        Inside, Alone, OwnBuffer, Holders, Buffers
  <2> QED
    BY <2>2, <2>3, <2>4, <2>5, <2>6, <2>7
<1> QED
  BY <1>2, <1>4, <1>5, <1>6, <1>7, <1>8, <1>9, TypesInParts
  DEF IInv, DnwTypeOK, CoreTypes, ProcTypes, MemoryTypes, SeenTypes

LEMMA DisconnectDeregisterKeeps ==
  ASSUME IInv, Defined, DisconnectDeregister
  PROVE  IInv'
<1> USE DEF DisconnectDeregister, hubVars, memory, dev, procVars, usbfs
<1>1. CoreTypes /\ ProcTypes /\ MemoryTypes /\ SeenTypes
  BY TypesInParts DEF IInv
<1>2. CoreTypes'
  <2>1. minor' \in BOOLEAN /\ hub' \in HubPcs
    BY PlaceTypes
  <2>2. intfdata' \in 0..Plugs
    BY Constants
  <2> QED
    BY <1>1, <2>1, <2>2 DEF CoreTypes
<1>4. ProcTypes'
  BY <1>1, PlaceTypes DEF ProcTypes, Unsent, Owning, CoreTypes
<1>5. MemoryTypes'
  BY <1>1, Constants
  DEF MemoryTypes, Dev, CoreTypes, ProcTypes, Block, IInv, SentInRange
<1>6. SeenTypes'
  BY <1>1, MishapTypes, Constants
  DEF SeenTypes, ProcTypes, MemoryTypes, Block, IInv, SentInRange
<1>7. SentInRange'
  BY <1>1, Constants
  DEF IInv, SentInRange, Unsent, ProcTypes, CoreTypes, Block
<1>8. CoreIsCareful'
  BY <1>1, Constants
  DEF IInv, SentInRange, CoreIsCareful, CoreTypes, MemoryTypes, Dev
<1>9. Orderly'
  BY <1>1, Constants
  DEF IInv, Orderly, Defined, Inside, Alone, OwnBuffer, Holders, Buffers,
      Owning, Holding, CoreIsCareful, Opening, Dev, CoreTypes, ProcTypes,
      MemoryTypes
<1> QED
  BY <1>2, <1>4, <1>5, <1>6, <1>7, <1>8, <1>9, TypesInParts
  DEF IInv, DnwTypeOK, CoreTypes, ProcTypes, MemoryTypes, SeenTypes

LEMMA StartOpenKeeps ==
  ASSUME IInv, Defined, NEW p \in Proc, StartOpen(p)
  PROVE  IInv'
<1> USE DEF StartOpen, Goto, hubVars, memory, dev, procVars, usbfs
<1>1. CoreTypes /\ ProcTypes /\ MemoryTypes /\ SeenTypes
  BY TypesInParts DEF IInv
<1>2. CoreTypes'
  BY <1>1, PlaceTypes, Constants DEF CoreTypes, IInv, SentInRange
<1>4. ProcTypes'
  BY <1>1, PlaceTypes DEF ProcTypes, Unsent, Owning, CoreTypes
<1>5. MemoryTypes'
  BY <1>1, Constants
  DEF MemoryTypes, Dev, CoreTypes, ProcTypes, Block, IInv, SentInRange
<1>6. SeenTypes'
  BY <1>1, MishapTypes, Constants
  DEF SeenTypes, ProcTypes, MemoryTypes, Block, IInv, SentInRange
<1>7. SentInRange'
  BY <1>1, Constants
  DEF IInv, SentInRange, Unsent, ProcTypes, CoreTypes, Block
<1>8. CoreIsCareful'
  BY <1>1, Constants
  DEF IInv, SentInRange, CoreIsCareful, CoreTypes, MemoryTypes, Dev
<1>9. Orderly'
  BY <1>1, Constants
  DEF IInv, Orderly, Defined, Inside, Alone, OwnBuffer, Holders, Buffers,
      Owning, Holding, CoreIsCareful, Opening, Dev, CoreTypes, ProcTypes,
      MemoryTypes
<1> QED
  BY <1>2, <1>4, <1>5, <1>6, <1>7, <1>8, <1>9, TypesInParts
  DEF IInv, DnwTypeOK, CoreTypes, ProcTypes, MemoryTypes, SeenTypes

LEMMA OpenFindKeeps ==
  ASSUME IInv, OpenFinds, Defined, NEW p \in Proc, OpenFind(p)
  PROVE  IInv'
<1> USE DEF OpenFind, Goto, hubVars, memory, dev, procVars, usbfs
<1>1. CoreTypes /\ ProcTypes /\ MemoryTypes /\ SeenTypes
  BY TypesInParts DEF IInv
<1>2. CoreTypes'
  BY <1>1, PlaceTypes, Constants DEF CoreTypes, IInv, SentInRange
<1>4. ProcTypes'
  BY <1>1, PlaceTypes DEF ProcTypes, Unsent, Owning, CoreTypes
<1>5. MemoryTypes'
  BY <1>1, Constants
  DEF MemoryTypes, Dev, CoreTypes, ProcTypes, Block, IInv, SentInRange
<1>6. SeenTypes'
  BY <1>1, MishapTypes, Constants
  DEF SeenTypes, ProcTypes, MemoryTypes, Block, IInv, SentInRange
<1>7. SentInRange'
  BY <1>1, Constants
  DEF IInv, SentInRange, Unsent, ProcTypes, CoreTypes, Block
<1>8. CoreIsCareful'
  BY <1>1, Constants
  DEF IInv, SentInRange, CoreIsCareful, CoreTypes, MemoryTypes, Dev
<1>9. Orderly'
  <2> SUFFICES ASSUME mishaps' = {}
               PROVE  (/\ Defined /\ Inside /\ Alone
                       /\ OwnBuffer /\ Holders /\ Buffers)'
    BY DEF Orderly
  <2>1. /\ mishaps = {} /\ Defined /\ Inside /\ Alone
        /\ OwnBuffer /\ Holders /\ Buffers
    BY DEF IInv, Orderly
  <2>8. /\ UNCHANGED <<heap, live, bulkout_buffer, io_mutex>>
        /\ pc[p] = "find"
        /\ pc' = [pc EXCEPT ![p] = "alloc"]
        /\ file' = [file EXCEPT ![p] = intfdata]
        /\ intfdata \in Dev /\ live[intfdata]
    <3>1. hub \notin {"setdata", "deregister"}
      BY <2>1
    <3>2. intfdata # 0
      BY <3>1 DEF OpenFinds, Opening
    <3>3. intfdata \in 0..Plugs /\ CoreIsCareful
      BY <1>1 DEF CoreTypes, IInv
    <3>4. live[intfdata]
      BY <3>1, <3>2, <3>3 DEF CoreIsCareful
    <3>5. intfdata \in Dev
      <4> HIDE DEF OpenFind
      <4> QED
        BY <3>2, <3>3, Constants DEF Dev
    <3> QED
      BY <3>4, <3>5
  <2> HIDE DEF OpenFind, Goto
  <2>2. Defined'
    BY <1>1, <2>1, <2>8, Constants
    DEF ProcTypes, MemoryTypes, Dev, Owning, Holding, Opening, Defined,
        Inside, Alone, OwnBuffer, Holders, Buffers
  <2>3. Inside'
    BY <1>1, <2>1, <2>8, Constants
    DEF ProcTypes, MemoryTypes, Dev, Owning, Holding, Opening, Defined,
        Inside, Alone, OwnBuffer, Holders, Buffers
  <2>4. Alone'
    BY <1>1, <2>1, <2>8, Constants
    DEF ProcTypes, MemoryTypes, Dev, Owning, Holding, Opening, Defined,
        Inside, Alone, OwnBuffer, Holders, Buffers
  <2>5. OwnBuffer'
    BY <1>1, <2>1, <2>8, Constants
    DEF ProcTypes, MemoryTypes, Dev, Owning, Holding, Opening, Defined,
        Inside, Alone, OwnBuffer, Holders, Buffers
  <2>6. Holders'
    <3> SUFFICES ASSUME NEW d \in Dev, live[d], io_mutex[d] # None
                 PROVE  pc'[io_mutex[d]] \in Holding /\ file'[io_mutex[d]] = d
      BY <2>8 DEF Holders
    <3>1. /\ io_mutex[d] \in Proc /\ pc[io_mutex[d]] \in Holding
          /\ file[io_mutex[d]] = d
      BY <1>1, <2>1, HolderIsInside
    <3> QED
      BY <1>1, <2>1, <2>8, <3>1 DEF ProcTypes, Holding
  <2>7. Buffers'
    BY <1>1, <2>1, <2>8, Constants
    DEF ProcTypes, MemoryTypes, Dev, Owning, Holding, Opening, Defined,
        Inside, Alone, OwnBuffer, Holders, Buffers
  <2> QED
    BY <2>2, <2>3, <2>4, <2>5, <2>6, <2>7
<1> QED
  BY <1>2, <1>4, <1>5, <1>6, <1>7, <1>8, <1>9, TypesInParts
  DEF IInv, DnwTypeOK, CoreTypes, ProcTypes, MemoryTypes, SeenTypes

LEMMA OpenAllocKeeps ==
  ASSUME IInv, Defined, NEW p \in Proc, OpenAlloc(p)
  PROVE  IInv'
<1> USE DEF OpenAlloc, Goto, Live, hubVars, memory, dev, procVars, usbfs
<1>1. CoreTypes /\ ProcTypes /\ MemoryTypes /\ SeenTypes
  BY TypesInParts DEF IInv
<1>2. CoreTypes'
  BY <1>1, PlaceTypes, Constants DEF CoreTypes, IInv, SentInRange
<1>3. \E x \in Pcs : pc' = [pc EXCEPT ![p] = x]
  BY PlaceTypes DEF Unsent, Owning
<1>4. ProcTypes'
  BY <1>1, <1>3, PlaceTypes, Constants
  DEF ProcTypes, Block, IInv, SentInRange
<1>5. MemoryTypes'
  <2>1. /\ bulkout_buffer' \in [Dev -> Proc \cup {None}]
        /\ heap' \in [Proc -> {"none", "live", "freed"}]
    BY <1>1 DEF MemoryTypes
  <2> QED
    BY <1>1, <2>1 DEF MemoryTypes
<1>6. SeenTypes'
  BY <1>1, MishapTypes, Constants
  DEF SeenTypes, ProcTypes, MemoryTypes, Block, IInv, SentInRange
<1>7. SentInRange'
  BY <1>1, Constants
  DEF IInv, SentInRange, Unsent, ProcTypes, CoreTypes, Block
<1>8. CoreIsCareful'
  BY <1>1, Constants
  DEF IInv, SentInRange, CoreIsCareful, CoreTypes, MemoryTypes, Dev
<1>9. Orderly'
  <2> SUFFICES ASSUME mishaps' = {}
               PROVE  (/\ Defined /\ Inside /\ Alone
                       /\ OwnBuffer /\ Holders /\ Buffers)'
    BY DEF Orderly
  <2>1. /\ mishaps = {} /\ Defined /\ Inside /\ Alone
        /\ OwnBuffer /\ Holders /\ Buffers
    BY DEF IInv, Orderly
  <2>8. /\ UNCHANGED <<file, live, io_mutex>> /\ pc[p] = "alloc"
        /\ \A q \in Proc : q # p /\ file[q] = file[p] =>
                              pc[q] \notin Holding \cup {"trylock"}
        /\ \/ /\ bulkout_buffer' = [bulkout_buffer EXCEPT ![file[p]] = p]
              /\ heap' = [heap EXCEPT ![p] = "live"]
              /\ pc' = [pc EXCEPT ![p] = "trylock"]
           \/ /\ bulkout_buffer' = [bulkout_buffer EXCEPT ![file[p]] = None]
              /\ heap' = heap /\ pc' = [pc EXCEPT ![p] = "lib"]
    BY <2>1 DEF Inside
  <2> HIDE DEF OpenAlloc, Goto, Live
  <2>2. Defined'
    BY <1>1, <2>1, <2>8, Constants
    DEF ProcTypes, MemoryTypes, Dev, Owning, Holding, Opening, Defined,
        Inside, Alone, OwnBuffer, Holders, Buffers
  <2>3. Inside'
    BY <1>1, <2>1, <2>8, Constants
    DEF ProcTypes, MemoryTypes, Dev, Owning, Holding, Opening, Defined,
        Inside, Alone, OwnBuffer, Holders, Buffers
  <2>4. Alone'
    BY <1>1, <2>1, <2>8 DEF ProcTypes, Owning, Holding, Alone
  <2>5. OwnBuffer'
    BY <1>1, <2>1, <2>8, Constants
    DEF ProcTypes, MemoryTypes, Dev, Owning, Holding, Opening, Defined,
        Inside, Alone, OwnBuffer, Holders, Buffers
  <2>6. Holders'
    <3> SUFFICES ASSUME NEW d \in Dev, live[d], io_mutex[d] # None
                 PROVE  pc'[io_mutex[d]] \in Holding /\ file'[io_mutex[d]] = d
      BY <2>8 DEF Holders
    <3>1. /\ io_mutex[d] \in Proc /\ pc[io_mutex[d]] \in Holding
          /\ file[io_mutex[d]] = d
      BY <1>1, <2>1, HolderIsInside
    <3> QED
      BY <1>1, <2>1, <2>8, <3>1 DEF ProcTypes, Holding
  <2>7. Buffers'
    BY <1>1, <2>1, <2>8, Constants
    DEF ProcTypes, MemoryTypes, Dev, Owning, Holding, Opening, Defined,
        Inside, Alone, OwnBuffer, Holders, Buffers
  <2> QED
    BY <2>2, <2>3, <2>4, <2>5, <2>6, <2>7
<1> QED
  BY <1>2, <1>4, <1>5, <1>6, <1>7, <1>8, <1>9, TypesInParts
  DEF IInv, DnwTypeOK, CoreTypes, ProcTypes, MemoryTypes, SeenTypes

LEMMA OpenTrylockKeeps ==
  ASSUME IInv, Defined, NEW p \in Proc, OpenTrylock(p)
  PROVE  IInv'
<1> USE DEF OpenTrylock, Goto, Live, hubVars, memory, dev, procVars, usbfs
<1>1. CoreTypes /\ ProcTypes /\ MemoryTypes /\ SeenTypes
  BY TypesInParts DEF IInv
<1>2. CoreTypes'
  BY <1>1, PlaceTypes, Constants DEF CoreTypes, IInv, SentInRange
<1>3. \E x \in Pcs : pc' = [pc EXCEPT ![p] = x]
  BY PlaceTypes DEF Unsent, Owning
<1>4. ProcTypes'
  BY <1>1, <1>3, PlaceTypes, Constants
  DEF ProcTypes, Block, IInv, SentInRange
<1>5. MemoryTypes'
  <2>1. /\ UNCHANGED <<live, bulkout_buffer, heap, data>>
        /\ io_mutex' = io_mutex \/ io_mutex' = [io_mutex EXCEPT ![file[p]] = p]
    OBVIOUS
  <2> HIDE DEF OpenTrylock, Goto, Live
  <2> QED
    BY <1>1, <2>1 DEF MemoryTypes
<1>6. SeenTypes'
  BY <1>1, MishapTypes, Constants
  DEF SeenTypes, ProcTypes, MemoryTypes, Block, IInv, SentInRange
<1>7. SentInRange'
  BY <1>1, Constants
  DEF IInv, SentInRange, Unsent, ProcTypes, CoreTypes, Block
<1>8. CoreIsCareful'
  BY <1>1, Constants
  DEF IInv, SentInRange, CoreIsCareful, CoreTypes, MemoryTypes, Dev
<1>9. Orderly'
  <2> SUFFICES ASSUME mishaps' = {}
               PROVE  (/\ Defined /\ Inside /\ Alone
                       /\ OwnBuffer /\ Holders /\ Buffers)'
    BY DEF Orderly
  <2>1. /\ mishaps = {} /\ Defined /\ Inside /\ Alone
        /\ OwnBuffer /\ Holders /\ Buffers
    BY DEF IInv, Orderly
  <2>8. /\ UNCHANGED <<file, live, bulkout_buffer, heap>>
        /\ pc[p] = "trylock" /\ pc' = [pc EXCEPT ![p] = "copy"]
        /\ io_mutex' = [io_mutex EXCEPT ![file[p]] = p]
    <3>1. pc[p] = "trylock" /\ UNCHANGED <<file, live, bulkout_buffer, heap>>
      OBVIOUS
    <3>2. hub # "mutexinit"
      BY <2>1 DEF Mishaps
    <3>3. file[p] \in Dev /\ live[file[p]]
      <4> HIDE DEF OpenTrylock
      <4> QED
        BY <2>1, <3>1 DEF Inside, Owning
    <3>4. io_mutex[file[p]] = None
      <4> HIDE DEF OpenTrylock
      <4>1. ASSUME io_mutex[file[p]] # None PROVE FALSE
        <5> DEFINE q == io_mutex[file[p]]
        <5>1. q \in Proc /\ pc[q] \in Holding /\ file[q] = file[p]
          BY <1>1, <2>1, <3>3, <4>1 DEF Holders, MemoryTypes
        <5> HIDE DEF q
        <5>2. q # p /\ pc[q] \in Owning \cup {"unlock"}
          BY <3>1, <5>1 DEF Holding, Owning
        <5>3. pc[p] \in Owning \cup {"unlock"}
          BY <3>1 DEF Owning
        <5> QED
          BY <2>1, <5>1, <5>2, <5>3 DEF Alone
      <4> QED
        BY <4>1
    <3> QED
      BY <3>1, <3>2, <3>3, <3>4
  <2> HIDE DEF OpenTrylock, Goto, Live
  <2>2. Defined'
    BY <1>1, <2>1, <2>8, Constants
    DEF ProcTypes, MemoryTypes, Dev, Owning, Holding, Opening, Defined,
        Inside, Alone, OwnBuffer, Holders, Buffers
  <2>3. Inside'
    BY <1>1, <2>1, <2>8, Constants
    DEF ProcTypes, MemoryTypes, Dev, Owning, Holding, Opening, Defined,
        Inside, Alone, OwnBuffer, Holders, Buffers
  <2>4. Alone'
    BY <1>1, <2>1, <2>8, Constants
    DEF ProcTypes, MemoryTypes, Dev, Owning, Holding, Opening, Defined,
        Inside, Alone, OwnBuffer, Holders, Buffers
  <2>5. OwnBuffer'
    BY <1>1, <2>1, <2>8, Constants
    DEF ProcTypes, MemoryTypes, Dev, Owning, Holding, Opening, Defined,
        Inside, Alone, OwnBuffer, Holders, Buffers
  <2>6. Holders'
    BY <1>1, <2>1, <2>8, Constants
    DEF ProcTypes, MemoryTypes, Dev, Owning, Holding, Opening, Defined,
        Inside, Alone, OwnBuffer, Holders, Buffers
  <2>7. Buffers'
    BY <1>1, <2>1, <2>8, Constants
    DEF ProcTypes, MemoryTypes, Dev, Owning, Holding, Opening, Defined,
        Inside, Alone, OwnBuffer, Holders, Buffers
  <2> QED
    BY <2>2, <2>3, <2>4, <2>5, <2>6, <2>7
<1> QED
  BY <1>2, <1>4, <1>5, <1>6, <1>7, <1>8, <1>9, TypesInParts
  DEF IInv, DnwTypeOK, CoreTypes, ProcTypes, MemoryTypes, SeenTypes

LEMMA WriteCopyKeeps ==
  ASSUME IInv, Defined, NEW p \in Proc, WriteCopy(p)
  PROVE  IInv'
<1> USE DEF WriteCopy, Goto, Live, BufferLive, BufferOf, hubVars, memory, dev,
   procVars, usbfs
<1>1. CoreTypes /\ ProcTypes /\ MemoryTypes /\ SeenTypes
  BY TypesInParts DEF IInv
<1>2. CoreTypes'
  BY <1>1, PlaceTypes, Constants DEF CoreTypes, IInv, SentInRange
<1>3. \E x \in Pcs : pc' = [pc EXCEPT ![p] = x]
  BY PlaceTypes DEF Unsent, Owning
<1>4. ProcTypes'
  BY <1>1, <1>3, PlaceTypes, Constants
  DEF ProcTypes, Block, IInv, SentInRange
<1>a. sent[p] + 1 \in Block
  BY <1>1, Constants DEF IInv, SentInRange, ProcTypes, Block
<1>5. MemoryTypes'
  BY <1>1, <1>a DEF MemoryTypes, Dev
<1>6. SeenTypes'
  BY <1>1, MishapTypes, Constants
  DEF SeenTypes, ProcTypes, MemoryTypes, Block, IInv, SentInRange
<1>7. SentInRange'
  BY <1>1, Constants
  DEF IInv, SentInRange, Unsent, ProcTypes, CoreTypes, Block
<1>8. CoreIsCareful'
  BY <1>1, Constants
  DEF IInv, SentInRange, CoreIsCareful, CoreTypes, MemoryTypes, Dev
<1>9. Orderly'
  <2> SUFFICES ASSUME mishaps' = {}
               PROVE  (/\ Defined /\ Inside /\ Alone
                       /\ OwnBuffer /\ Holders /\ Buffers)'
    BY DEF Orderly
  <2>1. /\ mishaps = {} /\ Defined /\ Inside /\ Alone
        /\ OwnBuffer /\ Holders /\ Buffers
    BY DEF IInv, Orderly
  <2>2. Defined'
    BY <1>1, <2>1, Constants
    DEF ProcTypes, MemoryTypes, Dev, Owning, Holding, Opening, Defined,
        Inside, Alone, OwnBuffer, Holders, Buffers
  <2>3. Inside'
    BY <1>1, <2>1, Constants
    DEF ProcTypes, MemoryTypes, Dev, Owning, Holding, Opening, Defined,
        Inside, Alone, OwnBuffer, Holders, Buffers
  <2>4. Alone'
    BY <1>1, <2>1, Constants
    DEF ProcTypes, MemoryTypes, Dev, Owning, Holding, Opening, Defined,
        Inside, Alone, OwnBuffer, Holders, Buffers
  <2>5. OwnBuffer'
    BY <1>1, <2>1, Constants
    DEF ProcTypes, MemoryTypes, Dev, Owning, Holding, Opening, Defined,
        Inside, Alone, OwnBuffer, Holders, Buffers
  <2>6. Holders'
    <3> SUFFICES ASSUME NEW d \in Dev, live[d], io_mutex[d] # None
                 PROVE  pc'[io_mutex[d]] \in Holding /\ file'[io_mutex[d]] = d
      BY DEF Holders
    <3>1. /\ io_mutex[d] \in Proc /\ pc[io_mutex[d]] \in Holding
          /\ file[io_mutex[d]] = d
      BY <1>1, <2>1, HolderIsInside
    <3> QED
      <4>1. pc' = [pc EXCEPT ![p] = "bulk"] /\ file' = file
        BY <1>1, <2>1, Constants DEF Inside, Owning, OwnBuffer
      <4> QED
        BY <1>1, <3>1, <4>1 DEF ProcTypes, Holding
  <2>7. Buffers'
    BY <1>1, <2>1, Constants
    DEF ProcTypes, MemoryTypes, Dev, Owning, Holding, Opening, Defined,
        Inside, Alone, OwnBuffer, Holders, Buffers
  <2> QED
    BY <2>2, <2>3, <2>4, <2>5, <2>6, <2>7
<1> QED
  BY <1>2, <1>4, <1>5, <1>6, <1>7, <1>8, <1>9, TypesInParts
  DEF IInv, DnwTypeOK, CoreTypes, ProcTypes, MemoryTypes, SeenTypes

LEMMA WriteBulkKeeps ==
  ASSUME IInv, Defined, NEW p \in Proc, WriteBulk(p)
  PROVE  IInv'
<1> USE DEF WriteBulk, Goto, Live, BufferLive, BufferOf, hubVars, memory, dev,
   procVars, usbfs
<1>1. CoreTypes /\ ProcTypes /\ MemoryTypes /\ SeenTypes
  BY TypesInParts DEF IInv
<1>2. CoreTypes'
  BY <1>1, PlaceTypes, Constants DEF CoreTypes, IInv, SentInRange
<1>b. \/ pc' = [pc EXCEPT ![p] = "undefined"] /\ UNCHANGED <<sent, wire>>
      \/ pc' = [pc EXCEPT ![p] = "release"] /\ UNCHANGED <<sent, wire>>
      \/ pc' = [pc EXCEPT ![p] = "spinning"] /\ UNCHANGED <<sent, wire>>
      \/ /\ \/ pc' = [pc EXCEPT ![p] = "release"]
            \/ sent[p] + 1 # Image /\ pc' = [pc EXCEPT ![p] = "copy"]
         /\ sent' = [sent EXCEPT ![p] = @ + 1]
         /\ file[p] \in Dev /\ BufferOf(file[p]) # None
         /\ wire' = Append(wire, data[BufferOf(file[p])])
  OBVIOUS
<1>a. sent[p] + 1 \in Block /\ sent[p] < Image
  BY <1>1, Constants DEF IInv, SentInRange, ProcTypes, Block
<1>3. \E x \in Pcs : pc' = [pc EXCEPT ![p] = x]
  BY PlaceTypes DEF Unsent, Owning
<1>4. ProcTypes'
  <2>1. pc' \in [Proc -> Pcs]
    BY <1>1, <1>3 DEF ProcTypes
  <2>2. sent' \in [Proc -> Block]
    BY <1>1, <1>b, <1>a DEF ProcTypes
  <2>3. result' \in [Proc -> Results] /\ file' \in [Proc -> 0..Plugs]
    BY <1>1, PlaceTypes DEF ProcTypes
  <2> QED
    BY <2>1, <2>2, <2>3 DEF ProcTypes
<1>5. MemoryTypes'
  BY <1>1, Constants
  DEF MemoryTypes, Dev, CoreTypes, ProcTypes, Block, IInv, SentInRange
<1>6. SeenTypes'
  <2>1. file[p] \in Dev /\ BufferOf(file[p]) # None =>
            data[BufferOf(file[p])] \in (Proc \cup {None}) \X Block
    BY <1>1 DEF MemoryTypes
  <2> QED
    BY <1>1, <1>b, <2>1 DEF SeenTypes
<1>7. SentInRange'
  <2> SUFFICES ASSUME NEW q \in Proc
               PROVE  /\ pc'[q] \in Unsent => sent'[q] = 0
                      /\ pc'[q] \in {"copy", "bulk", "libwrite", "stalled"}
                             => sent'[q] < Image
    BY DEF IInv, SentInRange
  <2>1. CASE q = p
    BY <1>1, <1>b, <1>a, <2>1, Constants DEF ProcTypes, Unsent, Block
  <2>2. CASE q # p
    BY <1>1, <1>b, <2>2 DEF ProcTypes, IInv, SentInRange
  <2> QED
    BY <2>1, <2>2
<1>8. CoreIsCareful'
  BY <1>1, Constants
  DEF IInv, SentInRange, CoreIsCareful, CoreTypes, MemoryTypes, Dev
<1>9. Orderly'
  <2> SUFFICES ASSUME mishaps' = {}
               PROVE  (/\ Defined /\ Inside /\ Alone
                       /\ OwnBuffer /\ Holders /\ Buffers)'
    BY DEF Orderly
  <2>1. /\ mishaps = {} /\ Defined /\ Inside /\ Alone
        /\ OwnBuffer /\ Holders /\ Buffers
    BY DEF IInv, Orderly
  <2>8. /\ UNCHANGED <<file, live, bulkout_buffer, heap, io_mutex>>
        /\ pc[p] = "bulk"
        /\ \E x \in {"copy", "release", "spinning"} :
             pc' = [pc EXCEPT ![p] = x]
    <3>1. /\ Live(file[p]) /\ BufferLive(file[p])
      BY <1>1, <2>1, Constants DEF Inside, Owning, OwnBuffer
    <3> QED
      BY <3>1
  <2> HIDE DEF WriteBulk, Goto, Live, BufferLive, BufferOf
  <2>2. Defined'
    BY <1>1, <2>1, <2>8, Constants
    DEF ProcTypes, MemoryTypes, Dev, Owning, Holding, Opening, Defined,
        Inside, Alone, OwnBuffer, Holders, Buffers
  <2>3. Inside'
    BY <1>1, <2>1, <2>8, Constants
    DEF ProcTypes, MemoryTypes, Dev, Owning, Holding, Opening, Defined,
        Inside, Alone, OwnBuffer, Holders, Buffers
  <2>4. Alone'
    BY <1>1, <2>1, <2>8, Constants
    DEF ProcTypes, MemoryTypes, Dev, Owning, Holding, Opening, Defined,
        Inside, Alone, OwnBuffer, Holders, Buffers
  <2>5. OwnBuffer'
    BY <1>1, <2>1, <2>8, Constants
    DEF ProcTypes, MemoryTypes, Dev, Owning, Holding, Opening, Defined,
        Inside, Alone, OwnBuffer, Holders, Buffers
  <2>6. Holders'
    BY <1>1, <2>1, <2>8, Constants
    DEF ProcTypes, MemoryTypes, Dev, Owning, Holding, Opening, Defined,
        Inside, Alone, OwnBuffer, Holders, Buffers
  <2>7. Buffers'
    BY <1>1, <2>1, <2>8, Constants
    DEF ProcTypes, MemoryTypes, Dev, Owning, Holding, Opening, Defined,
        Inside, Alone, OwnBuffer, Holders, Buffers
  <2> QED
    BY <2>2, <2>3, <2>4, <2>5, <2>6, <2>7
<1> QED
  BY <1>2, <1>4, <1>5, <1>6, <1>7, <1>8, <1>9, TypesInParts
  DEF IInv, DnwTypeOK, CoreTypes, ProcTypes, MemoryTypes, SeenTypes

LEMMA ReleaseFreeKeeps ==
  ASSUME IInv, Defined, NEW p \in Proc, ReleaseFree(p)
  PROVE  IInv'
<1> USE DEF ReleaseFree, Goto, Live, BufferLive, BufferOf, hubVars, memory,
   dev, procVars, usbfs
<1>1. CoreTypes /\ ProcTypes /\ MemoryTypes /\ SeenTypes
  BY TypesInParts DEF IInv
<1>2. CoreTypes'
  BY <1>1, PlaceTypes, Constants DEF CoreTypes, IInv, SentInRange
<1>3. \E x \in Pcs : pc' = [pc EXCEPT ![p] = x]
  BY PlaceTypes DEF Unsent, Owning
<1>4. ProcTypes'
  BY <1>1, <1>3, PlaceTypes, Constants
  DEF ProcTypes, Block, IInv, SentInRange
<1>5. MemoryTypes'
  BY <1>1, Constants
  DEF MemoryTypes, Dev, CoreTypes, ProcTypes, Block, IInv, SentInRange
<1>6. SeenTypes'
  BY <1>1, MishapTypes, Constants
  DEF SeenTypes, ProcTypes, MemoryTypes, Block, IInv, SentInRange
<1>7. SentInRange'
  BY <1>1, Constants
  DEF IInv, SentInRange, Unsent, ProcTypes, CoreTypes, Block
<1>8. CoreIsCareful'
  BY <1>1, Constants
  DEF IInv, SentInRange, CoreIsCareful, CoreTypes, MemoryTypes, Dev
<1>9. Orderly'
  <2> SUFFICES ASSUME mishaps' = {}
               PROVE  (/\ Defined /\ Inside /\ Alone
                       /\ OwnBuffer /\ Holders /\ Buffers)'
    BY DEF Orderly
  <2>8. /\ UNCHANGED <<file, live, bulkout_buffer, io_mutex, mishaps>>
        /\ pc[p] = "release" /\ pc' = [pc EXCEPT ![p] = "unlock"]
        /\ heap' = [heap EXCEPT ![p] = "freed"]
    <3>1. /\ Live(file[p]) /\ BufferOf(file[p]) = p /\ heap[p] = "live"
      BY <1>1, Constants DEF Inside, Owning, OwnBuffer, IInv, Orderly
    <3> QED
      BY <3>1, Constants
  <2> HIDE DEF ReleaseFree, Goto, Live, BufferLive, BufferOf
  <2>1. /\ mishaps = {} /\ Defined /\ Inside /\ Alone
        /\ OwnBuffer /\ Holders /\ Buffers
    BY <2>8 DEF IInv, Orderly
  <2>2. Defined'
    BY <1>1, <2>1, <2>8, Constants
    DEF ProcTypes, MemoryTypes, Dev, Owning, Holding, Opening, Defined,
        Inside, Alone, OwnBuffer, Holders, Buffers
  <2>3. Inside'
    BY <1>1, <2>1, <2>8, Constants
    DEF ProcTypes, MemoryTypes, Dev, Owning, Holding, Opening, Defined,
        Inside, Alone, OwnBuffer, Holders, Buffers
  <2>4. Alone'
    BY <1>1, <2>1, <2>8, Constants
    DEF ProcTypes, MemoryTypes, Dev, Owning, Holding, Opening, Defined,
        Inside, Alone, OwnBuffer, Holders, Buffers
  <2>5. OwnBuffer'
    BY <1>1, <2>1, <2>8, Constants
    DEF ProcTypes, MemoryTypes, Dev, Owning, Holding, Opening, Defined,
        Inside, Alone, OwnBuffer, Holders, Buffers
  <2>6. Holders'
    BY <1>1, <2>1, <2>8, Constants
    DEF ProcTypes, MemoryTypes, Dev, Owning, Holding, Opening, Defined,
        Inside, Alone, OwnBuffer, Holders, Buffers
  <2>7. Buffers'
    BY <1>1, <2>1, <2>8, Constants
    DEF ProcTypes, MemoryTypes, Dev, Owning, Holding, Opening, Defined,
        Inside, Alone, OwnBuffer, Holders, Buffers
  <2> QED
    BY <2>2, <2>3, <2>4, <2>5, <2>6, <2>7
<1> QED
  BY <1>2, <1>4, <1>5, <1>6, <1>7, <1>8, <1>9, TypesInParts
  DEF IInv, DnwTypeOK, CoreTypes, ProcTypes, MemoryTypes, SeenTypes

LEMMA ReleaseUnlockKeeps ==
  ASSUME IInv, Defined, NEW p \in Proc, ReleaseUnlock(p)
  PROVE  IInv'
<1> USE DEF ReleaseUnlock, Goto, Live, hubVars, memory, dev, procVars, usbfs
<1>1. CoreTypes /\ ProcTypes /\ MemoryTypes /\ SeenTypes
  BY TypesInParts DEF IInv
<1>2. CoreTypes'
  BY <1>1, PlaceTypes, Constants DEF CoreTypes, IInv, SentInRange
<1>3. \E x \in Pcs : pc' = [pc EXCEPT ![p] = x]
  BY PlaceTypes DEF Unsent, Owning
<1>4. ProcTypes'
  BY <1>1, <1>3, PlaceTypes, Constants
  DEF ProcTypes, Block, IInv, SentInRange
<1>5. MemoryTypes'
  BY <1>1, Constants
  DEF MemoryTypes, Dev, CoreTypes, ProcTypes, Block, IInv, SentInRange
<1>6. SeenTypes'
  BY <1>1, MishapTypes, Constants
  DEF SeenTypes, ProcTypes, MemoryTypes, Block, IInv, SentInRange
<1>7. SentInRange'
  BY <1>1, Constants
  DEF IInv, SentInRange, Unsent, ProcTypes, CoreTypes, Block
<1>8. CoreIsCareful'
  BY <1>1, Constants
  DEF IInv, SentInRange, CoreIsCareful, CoreTypes, MemoryTypes, Dev
<1>9. Orderly'
  <2> SUFFICES ASSUME mishaps' = {}
               PROVE  (/\ Defined /\ Inside /\ Alone
                       /\ OwnBuffer /\ Holders /\ Buffers)'
    BY DEF Orderly
  <2>1. /\ mishaps = {} /\ Defined /\ Inside /\ Alone
        /\ OwnBuffer /\ Holders /\ Buffers
    BY DEF IInv, Orderly
  <2>8. /\ UNCHANGED <<file, live, bulkout_buffer, heap>>
        /\ pc[p] = "unlock" /\ pc' = [pc EXCEPT ![p] = "done"]
        /\ io_mutex' = [io_mutex EXCEPT ![file[p]] = None]
    BY <2>1 DEF Inside
  <2> HIDE DEF ReleaseUnlock, Goto, Live
  <2>2. Defined'
    BY <1>1, <2>1, <2>8, Constants
    DEF ProcTypes, MemoryTypes, Dev, Owning, Holding, Opening, Defined,
        Inside, Alone, OwnBuffer, Holders, Buffers
  <2>3. Inside'
    BY <1>1, <2>1, <2>8, Constants
    DEF ProcTypes, MemoryTypes, Dev, Owning, Holding, Opening, Defined,
        Inside, Alone, OwnBuffer, Holders, Buffers
  <2>4. Alone'
    BY <1>1, <2>1, <2>8, Constants
    DEF ProcTypes, MemoryTypes, Dev, Owning, Holding, Opening, Defined,
        Inside, Alone, OwnBuffer, Holders, Buffers
  <2>5. OwnBuffer'
    BY <1>1, <2>1, <2>8, Constants
    DEF ProcTypes, MemoryTypes, Dev, Owning, Holding, Opening, Defined,
        Inside, Alone, OwnBuffer, Holders, Buffers
  <2>6. Holders'
    BY <1>1, <2>1, <2>8, Constants
    DEF ProcTypes, MemoryTypes, Dev, Owning, Holding, Opening, Defined,
        Inside, Alone, OwnBuffer, Holders, Buffers
  <2>7. Buffers'
    BY <1>1, <2>1, <2>8, Constants
    DEF ProcTypes, MemoryTypes, Dev, Owning, Holding, Opening, Defined,
        Inside, Alone, OwnBuffer, Holders, Buffers
  <2> QED
    BY <2>2, <2>3, <2>4, <2>5, <2>6, <2>7
<1> QED
  BY <1>2, <1>4, <1>5, <1>6, <1>7, <1>8, <1>9, TypesInParts
  DEF IInv, DnwTypeOK, CoreTypes, ProcTypes, MemoryTypes, SeenTypes

(* What the steps of libusb before and after the writing have in common.    *)
Walking == {"lib", "detach", "reset", "configure", "claim"}
LibWalk(p) ==
    /\ UNCHANGED <<plugged, minor, intfdata, latest, memory, file, sent, wire,
                   mishaps>>
    /\ hub' = hub \/ (hub = "idle" /\ minor /\ hub' = "free")
    /\ \/ /\ pc[p] \in Walking
          /\ \E x \in (Walking \ {"lib"}) \cup {"libwrite", "done"} :
                 pc' = [pc EXCEPT ![p] = x]
       \/ pc[p] = "libclose" /\ pc' = [pc EXCEPT ![p] = "done"]
    /\ result' \in {result, [result EXCEPT ![p] = "failed"]}

LEMMA LibWalks ==
  ASSUME NEW p \in Proc,
         \/ LibOpen(p) \/ LibDetach(p) \/ LibReset(p) \/ LibConfigure(p)
         \/ LibClaim(p) \/ LibClose(p)
  PROVE  LibWalk(p)
<1> USE DEF LibWalk, Walking, Fail, GoOn, Goto, hubVars, Unbound
<1>1. CASE LibOpen(p)
  BY <1>1 DEF LibOpen
<1>2. CASE LibDetach(p)
  BY <1>2 DEF LibDetach
<1>3. CASE LibReset(p)
  BY <1>3 DEF LibReset
<1>4. CASE LibConfigure(p)
  BY <1>4 DEF LibConfigure
<1>5. CASE LibClaim(p)
  BY <1>5 DEF LibClaim
<1>6. CASE LibClose(p)
  BY <1>6 DEF LibClose
<1> QED
  BY <1>1, <1>2, <1>3, <1>4, <1>5, <1>6

LEMMA LibUsbfs ==
  ASSUME CoreTypes, NEW p \in Proc,
         \/ LibOpen(p) \/ LibDetach(p) \/ LibReset(p) \/ LibConfigure(p)
         \/ LibClaim(p) \/ LibWrite(p) \/ LibClose(p)
  PROVE  /\ claimed' \in Proc \cup {None}
         /\ handles' \in SUBSET Proc /\ taken' \in SUBSET Proc
<1> USE DEF CoreTypes, Fail, GoOn, TakeAway
<1>1. CASE LibOpen(p)
  BY <1>1 DEF LibOpen
<1>2. CASE LibDetach(p)
  BY <1>2 DEF LibDetach
<1>3. CASE LibReset(p)
  BY <1>3 DEF LibReset
<1>4. CASE LibConfigure(p)
  BY <1>4 DEF LibConfigure
<1>5. CASE LibClaim(p)
  BY <1>5 DEF LibClaim
<1>6. CASE LibClose(p)
  BY <1>6 DEF LibClose
<1>7. CASE LibWrite(p)
  BY <1>7 DEF LibWrite
<1> QED
  BY <1>1, <1>2, <1>3, <1>4, <1>5, <1>6, <1>7

LEMMA LibWalkKeeps ==
  ASSUME IInv, Defined, NEW p \in Proc,
         \/ LibOpen(p) \/ LibDetach(p) \/ LibReset(p) \/ LibConfigure(p)
         \/ LibClaim(p) \/ LibClose(p)
  PROVE  IInv'
<1> USE DEF memory, dev
<1>1. CoreTypes /\ ProcTypes /\ MemoryTypes /\ SeenTypes
  BY TypesInParts DEF IInv
<1>2. LibWalk(p)
  BY LibWalks
<1>3. CoreTypes'
  BY <1>1, <1>2, LibUsbfs, PlaceTypes DEF CoreTypes, LibWalk
<1>4. ProcTypes'
  BY <1>1, <1>2, PlaceTypes DEF ProcTypes, LibWalk, Walking, Unsent
<1>5. MemoryTypes' /\ SeenTypes'
  BY <1>1, <1>2 DEF MemoryTypes, SeenTypes, LibWalk
<1>6. SentInRange'
  BY <1>1, <1>2, Constants
  DEF IInv, SentInRange, Unsent, Walking, LibWalk, ProcTypes, Block
<1>7. CoreIsCareful'
  BY <1>1, <1>2 DEF IInv, CoreIsCareful, LibWalk
<1>8. Orderly'
  <2> SUFFICES ASSUME mishaps = {}
               PROVE  (/\ Defined /\ Inside /\ Alone
                       /\ OwnBuffer /\ Holders /\ Buffers)'
    BY <1>2 DEF Orderly, LibWalk
  <2>1. /\ Defined /\ Inside /\ Alone
        /\ OwnBuffer /\ Holders /\ Buffers
    BY DEF IInv, Orderly
  <2>2. /\ UNCHANGED <<live, bulkout_buffer, io_mutex, heap, file>>
        /\ \A q \in Proc \ {p} : pc'[q] = pc[q]
        /\ pc[p] \in Walking \cup {"libclose"}
        /\ pc'[p] \in Walking \cup {"libwrite", "done"}
    BY <1>1, <1>2 DEF LibWalk, ProcTypes
  <2>3. /\ pc[p] \notin {"alloc", "unlock"} \cup Owning \cup Holding
        /\ pc'[p] \notin {"alloc", "unlock", "undefined"} \cup Owning
    BY <2>2 DEF Walking, Owning, Holding
  <2>4. Defined' /\ Inside' /\ Alone'
    BY <2>1, <2>2, <2>3 DEF Defined, Inside, Alone
  <2>5. OwnBuffer' /\ Buffers'
    BY <2>1, <2>2, <2>3 DEF OwnBuffer, Buffers
  <2>6. Holders'
    <3> SUFFICES ASSUME NEW d \in Dev, live[d], io_mutex[d] # None
                 PROVE  pc'[io_mutex[d]] \in Holding /\ file[io_mutex[d]] = d
      BY <2>2 DEF Holders
    <3>1. /\ io_mutex[d] \in Proc /\ pc[io_mutex[d]] \in Holding
          /\ file[io_mutex[d]] = d
      BY <1>1, <2>1, HolderIsInside
    <3> QED
      BY <2>2, <2>3, <3>1
  <2> QED
    BY <2>4, <2>5, <2>6
<1> QED
  BY <1>3, <1>4, <1>5, <1>6, <1>7, <1>8
  DEF IInv, DnwTypeOK, CoreTypes, ProcTypes, MemoryTypes, SeenTypes

LEMMA LibWriteKeeps ==
  ASSUME IInv, Defined, NEW p \in Proc, LibWrite(p)
  PROVE  IInv'
<1> USE DEF LibWrite, Goto, hubVars, memory, dev, procVars, usbfs
<1>1. CoreTypes /\ ProcTypes /\ MemoryTypes /\ SeenTypes
  BY TypesInParts DEF IInv
<1>2. CoreTypes'
  BY <1>1, LibUsbfs DEF CoreTypes
<1>3. /\ pc[p] \in {"libwrite", "stalled"}
      /\ \/ /\ \/ pc' = [pc EXCEPT ![p] = "libclose"]
               \/ pc' = [pc EXCEPT ![p] = "stalled"]
            /\ UNCHANGED <<sent, wire>>
         \/ /\ \/ pc' = [pc EXCEPT ![p] = "libclose"]
               \/ /\ sent[p] + 1 # Image
                  /\ pc' = [pc EXCEPT ![p] = "libwrite"]
            /\ sent' = [sent EXCEPT ![p] = @ + 1]
            /\ wire' = Append(wire, <<p, sent[p] + 1>>)
  OBVIOUS
<1>a. sent[p] + 1 \in Block /\ sent[p] < Image
  BY <1>1, <1>3, Constants DEF IInv, SentInRange, ProcTypes, Block
<1>4. ProcTypes'
  <2>1. pc' \in [Proc -> Pcs] /\ sent' \in [Proc -> Block]
    BY <1>1, <1>3, <1>a, PlaceTypes DEF ProcTypes
  <2>2. result' \in [Proc -> Results] /\ file' \in [Proc -> 0..Plugs]
    BY <1>1, PlaceTypes DEF ProcTypes
  <2> QED
    BY <2>1, <2>2 DEF ProcTypes
<1>5. MemoryTypes'
  BY <1>1, Constants
  DEF MemoryTypes, Dev, CoreTypes, ProcTypes, Block, IInv, SentInRange
<1>6. SeenTypes'
  <2>1. <<p, sent[p] + 1>> \in (Proc \cup {None}) \X Block
    BY <1>a
  <2>2. /\ mishaps' = mishaps
        /\ wire' = wire \/ wire' = Append(wire, <<p, sent[p] + 1>>)
    OBVIOUS
  <2> DEFINE block == <<p, sent[p] + 1>>
             S == (Proc \cup {None}) \X Block
  <2>3. block \in S
    BY <2>1
  <2> HIDE DEF LibWrite, Goto, block, S
  <2>4. wire \in Seq(S) => Append(wire, block) \in Seq(S)
    BY <2>3
  <2> QED
    BY <1>1, <2>2, <2>4 DEF SeenTypes, block, S
<1>7. SentInRange'
  <2> SUFFICES ASSUME NEW q \in Proc
               PROVE  /\ pc'[q] \in Unsent => sent'[q] = 0
                      /\ pc'[q] \in {"copy", "bulk", "libwrite", "stalled"}
                             => sent'[q] < Image
    BY DEF IInv, SentInRange
  <2>1. CASE q = p
    BY <1>1, <1>3, <1>a, <2>1, Constants DEF ProcTypes, Unsent, Block
  <2>2. CASE q # p
    BY <1>1, <1>3, <2>2 DEF ProcTypes, IInv, SentInRange
  <2> QED
    BY <2>1, <2>2
<1>8. CoreIsCareful'
  BY <1>1, Constants
  DEF IInv, SentInRange, CoreIsCareful, CoreTypes, MemoryTypes, Dev
<1>9. Orderly'
  <2> SUFFICES ASSUME mishaps' = {}
               PROVE  (/\ Defined /\ Inside /\ Alone
                       /\ OwnBuffer /\ Holders /\ Buffers)'
    BY DEF Orderly
  <2>1. /\ mishaps = {} /\ Defined /\ Inside /\ Alone
        /\ OwnBuffer /\ Holders /\ Buffers
    BY DEF IInv, Orderly
  <2>8. /\ UNCHANGED <<file, live, bulkout_buffer, heap, io_mutex>>
        /\ pc[p] \notin Owning \cup {"alloc", "unlock", "undefined"}
        /\ pc'[p] \notin Owning \cup {"alloc", "unlock", "undefined"}
        /\ \A q \in Proc \ {p} : pc'[q] = pc[q]
    BY <1>1, <1>3 DEF ProcTypes, Owning
  <2> HIDE DEF LibWrite, Goto
  <2>2. Defined'
    BY <2>1, <2>8 DEF Defined
  <2>3. Inside'
    BY <2>1, <2>8 DEF Inside
  <2>4. Alone'
    BY <2>1, <2>8 DEF Alone
  <2>5. OwnBuffer'
    BY <2>1, <2>8 DEF OwnBuffer
  <2>6. Holders'
    <3>1. \A d \in Dev : live[d] /\ io_mutex[d] # None =>
              io_mutex[d] \in Proc \ {p}
      BY <1>1, <2>1, <2>8 DEF Holders, MemoryTypes, Holding, Owning
    <3> QED
      BY <2>1, <2>8, <3>1 DEF Holders
  <2>7. Buffers'
    BY <2>1, <2>8 DEF Buffers
  <2> QED
    BY <2>2, <2>3, <2>4, <2>5, <2>6, <2>7
<1> QED
  BY <1>2, <1>4, <1>5, <1>6, <1>7, <1>8, <1>9, TypesInParts
  DEF IInv, DnwTypeOK, CoreTypes, ProcTypes, MemoryTypes, SeenTypes

-----------------------------------------------------------------------------
LEMMA StepsKeep == IInv /\ OpenFinds /\ [Next]_vars => IInv'
<1> SUFFICES ASSUME IInv, OpenFinds, [Next]_vars PROVE IInv'
  OBVIOUS
<1>1. CASE Defined /\ (Plug \/ Unplug)
  BY <1>1, PlugKeeps, UnplugKeeps
<1>2. CASE Defined /\ Hub
  BY <1>2, ProbeAllocKeeps, ProbeRegisterKeeps, ProbeSetDataKeeps,
     ProbeMutexInitKeeps, DisconnectFreeKeeps, DisconnectDeregisterKeeps
  DEF Hub
<1>3. ASSUME Defined, NEW p \in Proc, Tool(p) PROVE IInv'
  BY <1>3, StartOpenKeeps, OpenFindKeeps, OpenAllocKeeps, OpenTrylockKeeps,
     WriteCopyKeeps, WriteBulkKeeps, ReleaseFreeKeeps, ReleaseUnlockKeeps,
     LibWalkKeeps, LibWriteKeeps DEF Tool
<1>4. CASE UNCHANGED vars
  BY <1>4
  DEF vars, hubVars, memory, dev, procVars, usbfs, IInv, DnwTypeOK,
      SentInRange, CoreIsCareful, Orderly, Defined, Inside, Alone,
      OwnBuffer, Holders, Buffers
<1> QED
  BY <1>1, <1>2, <1>3, <1>4 DEF Next

LEMMA OpenFindsKept == IInv /\ OpenFinds /\ [Next]_vars => OpenFinds'
<1> SUFFICES ASSUME IInv, OpenFinds, [Next]_vars PROVE OpenFinds'
  OBVIOUS
<1>1. /\ CoreTypes /\ CoreIsCareful /\ pc \in [Proc -> Pcs]
      /\ \A p \in Proc : pc[p] \in Opening => minor
  BY TypesInParts DEF IInv, ProcTypes, OpenFinds
<1> USE DEF hubVars, procVars
<1>2. CASE Plug \/ Unplug \/ ProbeAlloc \/ DisconnectFree \/ ProbeMutexInit
  <2>1. UNCHANGED <<minor, intfdata, pc>> /\ hub # "setdata"
    BY <1>2 DEF Plug, Unplug, ProbeAlloc, DisconnectFree, ProbeMutexInit
  <2> QED
    BY <2>1 DEF OpenFinds
<1>3. CASE ProbeRegister
  BY <1>3 DEF ProbeRegister, OpenFinds
<1>4. CASE ProbeSetData
  BY <1>1, <1>4 DEF ProbeSetData, OpenFinds, CoreIsCareful, Dev
<1>5. CASE DisconnectDeregister
  BY <1>5 DEF DisconnectDeregister, NobodyOpening, OpenFinds
<1>6. ASSUME NEW p \in Proc, Tool(p) PROVE OpenFinds'
  <2>1. UNCHANGED <<minor, intfdata>> /\ (hub' = "setdata" <=> hub = "setdata")
    <3>1. CASE LibDetach(p)
      BY <3>1 DEF LibDetach
    <3> QED
      BY <1>6, <3>1
      DEF Tool, StartOpen, OpenFind, OpenAlloc, OpenTrylock, WriteCopy,
          WriteBulk, ReleaseFree, ReleaseUnlock, LibOpen, LibReset,
          LibConfigure, LibClaim, LibWrite, LibClose
  <2>2. \A q \in Proc : pc'[q] \in Opening => pc[q] \in Opening \/ minor
    <3>1. CASE StartOpen(p)
      BY <1>1, <3>1 DEF StartOpen, Goto, Opening
    <3>2. CASE OpenFind(p) \/ OpenAlloc(p) \/ OpenTrylock(p)
      BY <1>1, <3>2
      DEF OpenFind, OpenAlloc, OpenTrylock, Goto, Opening
    <3>3. CASE \/ WriteCopy(p) \/ WriteBulk(p) \/ ReleaseFree(p)
               \/ ReleaseUnlock(p) \/ LibWrite(p)
      BY <1>1, <3>3
      DEF WriteCopy, WriteBulk, ReleaseFree, ReleaseUnlock, LibWrite, Goto,
          Opening
    <3>4. CASE LibWalk(p)
      BY <1>1, <3>4 DEF LibWalk, Walking, Opening
    <3> QED
      BY <1>6, <3>1, <3>2, <3>3, <3>4, LibWalks DEF Tool
  <2> QED
    BY <1>1, <2>1, <2>2 DEF OpenFinds
<1>7. CASE UNCHANGED vars
  BY <1>7 DEF vars, OpenFinds
<1> QED
  BY <1>2, <1>3, <1>4, <1>5, <1>6, <1>7 DEF Next, Hub

LEMMA Always == Spec => []IInv
<1>1. Init => IInv /\ OpenFinds
  BY Initially DEF Init, OpenFinds, Opening
<1>2. IInv /\ OpenFinds /\ [Next]_vars => (IInv /\ OpenFinds)'
  BY StepsKeep, OpenFindsKept
<1> QED
  BY <1>1, <1>2, PTL DEF Spec

(* The driver and the tools stay within their types: above all, no tool     *)
(* sends more blocks than its image has.                                    *)
THEOREM Typed == Spec => []DnwTypeOK
<1>1. IInv => DnwTypeOK
  BY DEF IInv
<1> QED
  BY <1>1, Always, PTL

(* The driver touches memory that is not there only after the device went   *)
(* away under an open, or was opened before its probe had returned or while *)
(* another process had it open.                                             *)
THEOREM Caused == Spec => []UndefinedHasCause
<1>1. IInv => UndefinedHasCause
  BY DEF IInv, Orderly, UndefinedHasCause
<1> QED
  BY <1>1, Always, PTL

(* Until then, when nobody is inside, all buffers are freed and all mutexes *)
(* are free.                                                                *)
THEOREM Tidy == Spec => []NothingLeaked
<1>1. ASSUME IInv, mishaps = {},
             \A p \in Proc : pc[p] \notin Opening \cup Holding
      PROVE  /\ \A p \in Proc : heap[p] # "live"
             /\ \A d \in Dev : live[d] => io_mutex[d] = None
  <2>1. Buffers /\ Holders /\ MemoryTypes
    BY <1>1, TypesInParts DEF IInv, Orderly
  <2>2. \A p \in Proc : heap[p] # "live"
    BY <1>1, <2>1 DEF Buffers, Owning, Opening, Holding
  <2>3. \A d \in Dev : live[d] => io_mutex[d] = None
    BY <1>1, <2>1, HolderIsInside
  <2> QED
    BY <2>2, <2>3
<1>2. IInv => NothingLeaked
  BY <1>1 DEF NothingLeaked
<1> QED
  BY <1>2, Always, PTL
-----------------------------------------------------------------------------
(* What a tool that reports success has sent, as long as the driver has not *)
(* been opened twice: the processes at work in the driver have a struct     *)
(* each, with their own buffer in it; what is in the buffer is the block    *)
(* that comes next; and a process has sent the first blocks of its image,   *)
(* in order.                                                                *)
Driving == Holding \cup {"trylock"}
Apart == \A p, q \in Proc :
             p # q /\ pc[p] \in Driving /\ pc[q] \in Driving =>
                 file[p] # file[q]
Own == \A p \in Proc : pc[p] \in Driving =>
           file[p] \in Dev /\ bulkout_buffer[file[p]] = p
NextBlock == \A p \in Proc : pc[p] = "bulk" => data[p] = <<p, sent[p] + 1>>

Arrived(p, w, n) ==
    /\ \A k \in 1..n : \E i \in DOMAIN w : w[i] = <<p, k>>
    /\ \A i \in DOMAIN w : w[i][1] = p => w[i][2] \in 1..n
    /\ \A i, j \in DOMAIN w :
           i < j /\ w[i][1] = p /\ w[j][1] = p => w[i][2] < w[j][2]
SentArrived == \A p \in Proc : Arrived(p, wire, sent[p])
OkIsAll == \A p \in Proc : result[p] = "ok" => sent[p] = Image

Delivery == /\ "twice" \notin mishaps =>
                   Apart /\ Own /\ NextBlock /\ SentArrived
            /\ OkIsAll

Types == CoreTypes /\ ProcTypes /\ MemoryTypes /\ SeenTypes

(* A step that changes no buffer and brings nobody to a block.              *)
NothingSent ==
    /\ UNCHANGED <<bulkout_buffer, data, sent, wire>>
    /\ mishaps \subseteq mishaps'
    /\ \A q \in Proc : pc'[q] \in Driving =>
                           pc[q] \in Driving /\ file'[q] = file[q]
    /\ \A q \in Proc : pc'[q] = "bulk" => pc[q] = "bulk"
    /\ \A q \in Proc : result'[q] = "ok" => result[q] = "ok"

LEMMA NothingSentKeeps == Delivery /\ NothingSent => Delivery'
<1> SUFFICES ASSUME Delivery, NothingSent PROVE Delivery'
  OBVIOUS
<1>1. ASSUME "twice" \notin mishaps'
      PROVE  (Apart /\ Own /\ NextBlock /\ SentArrived)'
  <2>1. Apart /\ Own /\ NextBlock /\ SentArrived
    BY <1>1 DEF Delivery, NothingSent
  <2>2. Apart' /\ Own'
    BY <2>1 DEF Apart, Own, NothingSent
  <2>3. NextBlock' /\ SentArrived'
    BY <2>1 DEF NextBlock, SentArrived, NothingSent
  <2> QED
    BY <2>2, <2>3
<1>2. OkIsAll'
  BY DEF Delivery, OkIsAll, NothingSent
<1> QED
  BY <1>1, <1>2 DEF Delivery

LEMMA CoreSendsNothing ==
  Plug \/ Unplug \/ Hub => NothingSent
  BY DEF Plug, Unplug, Hub, ProbeAlloc, ProbeRegister, ProbeSetData,
     ProbeMutexInit, DisconnectFree, DisconnectDeregister, NothingSent,
     hubVars, memory, dev,
     procVars

LEMMA WalkSendsNothing ==
  ASSUME Types, NEW p \in Proc,
         \/ StartOpen(p) \/ OpenFind(p) \/ OpenTrylock(p) \/ ReleaseFree(p)
         \/ ReleaseUnlock(p) \/ LibOpen(p) \/ LibDetach(p) \/ LibReset(p)
         \/ LibConfigure(p) \/ LibClaim(p) \/ LibClose(p)
  PROVE  NothingSent
<1>1. pc \in [Proc -> Pcs] /\ result \in [Proc -> Results]
      /\ file \in [Proc -> 0..Plugs]
  BY DEF Types, ProcTypes
<1>2. CASE StartOpen(p)
  BY <1>1, <1>2
  DEF StartOpen, Goto, NothingSent, Driving, Holding, hubVars, memory, dev
<1>3. CASE OpenFind(p)
  BY <1>1, <1>3
  DEF OpenFind, Goto, NothingSent, Driving, Holding, hubVars, memory, dev
<1>4. CASE OpenTrylock(p)
  BY <1>1, <1>4
  DEF OpenTrylock, Goto, NothingSent, Driving, Holding, hubVars, memory, dev
<1>5. CASE ReleaseFree(p)
  BY <1>1, <1>5
  DEF ReleaseFree, Goto, NothingSent, Driving, Holding, hubVars, memory, dev
<1>6. CASE ReleaseUnlock(p)
  BY <1>1, <1>6
  DEF ReleaseUnlock, Goto, NothingSent, Driving, Holding, hubVars, memory,
      dev
<1>7. CASE LibWalk(p)
  BY <1>1, <1>7
  DEF LibWalk, Walking, NothingSent, Driving, Holding, memory, dev
<1> QED
  BY <1>2, <1>3, <1>4, <1>5, <1>6, <1>7, LibWalks

(* The new buffer goes into a struct that nobody else works on, or the      *)
(* driver is opened twice from now on.                                      *)
LEMMA OpenAllocDelivers ==
  ASSUME Types, Delivery, NEW p \in Proc, OpenAlloc(p)
  PROVE  Delivery'
<1> DEFINE d == file[p]
<1>1. /\ pc \in [Proc -> Pcs] /\ bulkout_buffer \in [Dev -> Proc \cup {None}]
      /\ None \notin Proc
  BY Constants DEF Types, ProcTypes, MemoryTypes
<1>2. /\ UNCHANGED <<file, data, sent, result, wire>>
      /\ mishaps \subseteq mishaps' /\ pc[p] = "alloc"
      /\ \A q \in Proc \ {p} : pc'[q] = pc[q]
      /\ \/ d \in Dev /\ pc'[p] = "trylock"
            /\ bulkout_buffer' = [bulkout_buffer EXCEPT ![d] = p]
         \/ /\ pc'[p] \in {"undefined", "lib"}
            /\ \/ bulkout_buffer' = bulkout_buffer
               \/ bulkout_buffer' = [bulkout_buffer EXCEPT ![d] = None]
  BY <1>1 DEF OpenAlloc, Goto, Live
<1>3. ASSUME "twice" \notin mishaps'
      PROVE  (Apart /\ Own /\ NextBlock /\ SentArrived)'
  <2>1. \A q \in Proc \ {p} : pc[q] \in Driving => file[q] # d
    BY <1>3 DEF OpenAlloc, Driving
  <2>2. Apart /\ Own /\ NextBlock /\ SentArrived
    BY <1>2, <1>3 DEF Delivery
  <2> HIDE DEF d
  <2>3. Apart'
    BY <1>2, <2>1, <2>2 DEF Apart, Driving, Holding, d
  <2>4. Own'
    <3> SUFFICES ASSUME NEW q \in Proc, pc'[q] \in Driving
                 PROVE  file[q] \in Dev /\ bulkout_buffer'[file[q]] = q
      BY <1>2 DEF Own
    <3>1. CASE q = p
      BY <1>1, <1>2, <3>1 DEF Driving, Holding, d
    <3>2. CASE q # p
      <4>1. file[q] \in Dev /\ bulkout_buffer[file[q]] = q /\ file[q] # d
        BY <1>2, <2>1, <2>2, <3>2 DEF Own
      <4> QED
        BY <1>1, <1>2, <4>1
    <3> QED
      BY <3>1, <3>2
  <2>5. NextBlock' /\ SentArrived'
    BY <1>2, <2>2 DEF NextBlock, SentArrived
  <2> QED
    BY <2>3, <2>4, <2>5
<1>4. OkIsAll'
  BY <1>2 DEF Delivery, OkIsAll
<1> QED
  BY <1>3, <1>4 DEF Delivery

(* dnwbulk_write fills the process's own buffer with its next block.        *)
LEMMA WriteCopyDelivers ==
  ASSUME Types, Delivery, NEW p \in Proc, WriteCopy(p)
  PROVE  Delivery'
<1>1. /\ pc \in [Proc -> Pcs] /\ sent \in [Proc -> Block]
      /\ data \in [Proc -> (Proc \cup {None}) \X Block] /\ None \notin Proc
  BY Constants DEF Types, ProcTypes, MemoryTypes
<1>2. /\ UNCHANGED <<file, bulkout_buffer, sent, result, wire, mishaps>>
      /\ pc[p] = "copy" /\ \A q \in Proc \ {p} : pc'[q] = pc[q]
      /\ \/ /\ pc'[p] = "bulk"
            /\ data' = [data EXCEPT ![BufferOf(file[p])] =
                                        <<p, sent[p] + 1>>]
         \/ pc'[p] = "undefined" /\ data' = data
  BY <1>1 DEF WriteCopy, Goto, dev
<1>3. ASSUME "twice" \notin mishaps'
      PROVE  (Apart /\ Own /\ NextBlock /\ SentArrived)'
  <2>2. Apart /\ Own /\ NextBlock /\ SentArrived
    BY <1>2, <1>3 DEF Delivery
  <2>3. Apart' /\ Own'
    BY <1>2, <2>2 DEF Apart, Own, Driving, Holding
  <2>4. BufferOf(file[p]) = p
    BY <1>2, <2>2 DEF BufferOf, Own, Driving, Holding
  <2>5. NextBlock'
    BY <1>1, <1>2, <2>2, <2>4 DEF NextBlock
  <2>6. SentArrived'
    BY <1>2, <2>2 DEF SentArrived
  <2> QED
    BY <2>3, <2>5, <2>6
<1>4. OkIsAll'
  BY <1>2 DEF Delivery, OkIsAll
<1> QED
  BY <1>3, <1>4 DEF Delivery

(* The next block of a process arrives: its own image has one more block,   *)
(* the images of the others are what they were.                             *)
LEMMA OneMoreArrives ==
  ASSUME NEW S, NEW w \in Seq(S \X Nat), NEW p \in S, NEW q \in S,
         NEW n \in Nat, NEW m \in Nat, q = p => m = n,
         Arrived(q, w, m)
  PROVE  Arrived(q, Append(w, <<p, n + 1>>), IF q = p THEN m + 1 ELSE m)
<1> DEFINE v == Append(w, <<p, n + 1>>)
           L == Len(w)
           r == IF q = p THEN m + 1 ELSE m
<1>1. /\ L \in Nat /\ DOMAIN w = 1..L /\ DOMAIN v = 1..(L + 1)
      /\ \A i \in 1..L : v[i] = w[i]
      /\ v[L + 1] = <<p, n + 1>>
  <2>1. <<p, n + 1>> \in S \X Nat
    OBVIOUS
  <2> QED
    BY <2>1, AppendProperties, LenProperties
<1>2. \A i \in 1..L : w[i] \in S \X Nat
  BY <1>1, ElementOfSeq
<1> HIDE DEF v, L
<1>3. \A k \in 1..r : \E i \in DOMAIN v : v[i] = <<q, k>>
  <2> SUFFICES ASSUME NEW k \in 1..r PROVE \E i \in DOMAIN v : v[i] = <<q, k>>
    OBVIOUS
  <2>1. CASE k \in 1..m
    <3>1. PICK i \in DOMAIN w : w[i] = <<q, k>>
      BY <2>1 DEF Arrived
    <3>2. i \in 1..L /\ i \in 1..(L + 1)
      BY <1>1, <3>1
    <3>3. v[i] = <<q, k>>
      BY <1>1, <3>1, <3>2
    <3> QED
      BY <1>1, <3>2, <3>3
  <2>2. CASE k \notin 1..m
    <3>1. q = p /\ k = n + 1
      BY <2>2
    <3>2. L + 1 \in 1..(L + 1)
      BY <1>1
    <3> QED
      BY <1>1, <3>1, <3>2
  <2> QED
    BY <2>1, <2>2
<1>4. \A i \in DOMAIN v : v[i][1] = q => v[i][2] \in 1..r
  <2> SUFFICES ASSUME NEW i \in DOMAIN v, v[i][1] = q PROVE v[i][2] \in 1..r
    OBVIOUS
  <2>1. CASE i \in 1..L
    <3>1. w[i][1] = q => w[i][2] \in 1..m
      BY <1>1, <2>1 DEF Arrived
    <3>2. v[i] = w[i]
      BY <1>1, <2>1
    <3> QED
      BY <3>1, <3>2
  <2>2. CASE i = L + 1
    <3>1. v[i] = <<p, n + 1>>
      BY <1>1, <2>2
    <3>2. q = p /\ v[i][2] = n + 1 /\ r = n + 1
      BY <3>1
    <3> QED
      BY <3>2
  <2> QED
    BY <1>1, <2>1, <2>2
<1>5. \A i, j \in DOMAIN v :
          i < j /\ v[i][1] = q /\ v[j][1] = q => v[i][2] < v[j][2]
  <2> SUFFICES ASSUME NEW i \in DOMAIN v, NEW j \in DOMAIN v,
                      i < j, v[i][1] = q, v[j][1] = q
               PROVE  v[i][2] < v[j][2]
    OBVIOUS
  <2>1. i \in 1..L /\ v[i] = w[i]
    BY <1>1
  <2>2. w[i][2] \in 1..m
    BY <1>1, <2>1 DEF Arrived
  <2>3. CASE j \in 1..L
    <3>1. v[j] = w[j]
      BY <1>1, <2>3
    <3> QED
      BY <1>1, <2>1, <2>3, <3>1 DEF Arrived
  <2>4. CASE j = L + 1
    <3>1. v[j] = <<p, n + 1>>
      BY <1>1, <2>4
    <3>2. q = p /\ v[j][2] = n + 1 /\ m = n
      BY <3>1
    <3> QED
      BY <2>1, <2>2, <3>2
  <2> QED
    BY <1>1, <2>3, <2>4
<1>6. Arrived(q, v, r)
  BY <1>3, <1>4, <1>5 DEF Arrived
<1> QED
  BY <1>6 DEF v

LEMMA AllArrive ==
  ASSUME Types, SentArrived, NEW p \in Proc,
         wire' = Append(wire, <<p, sent[p] + 1>>),
         sent' = [sent EXCEPT ![p] = @ + 1]
  PROVE  SentArrived'
<1>1. /\ sent \in [Proc -> Nat]
      /\ wire \in Seq((Proc \cup {None}) \X Nat)
  <2>1. Block \subseteq Nat
    BY Constants DEF Block
  <2>2. sent \in [Proc -> Block] /\ wire \in Seq((Proc \cup {None}) \X Block)
    BY DEF Types, ProcTypes, SeenTypes
  <2>3. \A i \in 1..Len(wire) : wire[i] \in (Proc \cup {None}) \X Block
    BY <2>2, ElementOfSeq
  <2>4. \A i \in 1..Len(wire) : wire[i] \in (Proc \cup {None}) \X Nat
    BY <2>1, <2>3
  <2>5. sent \in [Proc -> Nat]
    BY <2>1, <2>2
  <2>6. wire \in Seq((Proc \cup {None}) \X Nat)
    BY <2>2, <2>4, LenProperties, SeqDef
  <2> QED
    BY <2>5, <2>6
<1> SUFFICES ASSUME NEW q \in Proc PROVE Arrived(q, wire', sent'[q])
  BY DEF SentArrived
<1>2. Arrived(q, wire, sent[q]) /\ sent[q] \in Nat /\ sent[p] \in Nat
  BY <1>1 DEF SentArrived
<1>3. sent'[q] = IF q = p THEN sent[q] + 1 ELSE sent[q]
  BY <1>1
<1>4. q \in Proc \cup {None} /\ p \in Proc \cup {None}
  OBVIOUS
<1>5. q = p => sent[q] = sent[p]
  OBVIOUS
<1>6. Arrived(q, Append(wire, <<p, sent[p] + 1>>),
              IF q = p THEN sent[q] + 1 ELSE sent[q])
  BY <1>1, <1>2, <1>4, <1>5, OneMoreArrives
<1> QED
  BY <1>3, <1>6

LEMMA WriteBulkDelivers ==
  ASSUME Types, SentInRange, Delivery, NEW p \in Proc, WriteBulk(p)
  PROVE  Delivery'
<1>1. /\ pc \in [Proc -> Pcs] /\ sent \in [Proc -> Block]
      /\ result \in [Proc -> Results] /\ Block \subseteq Nat /\ Image \in Nat
  BY Constants DEF Types, ProcTypes, Block
<1>2. /\ UNCHANGED <<file, bulkout_buffer, data, mishaps>>
      /\ pc[p] = "bulk" /\ sent[p] < Image
      /\ \A q \in Proc \ {p} : pc'[q] = pc[q]
      /\ pc'[p] \in {"undefined", "release", "copy", "spinning"}
  BY <1>1 DEF WriteBulk, Goto, memory, dev, SentInRange
<1>3. CASE wire' = wire /\ sent' = sent
  <2>1. \A q \in Proc : result'[q] = "ok" => result[q] = "ok"
    BY <1>1, <1>3 DEF WriteBulk, Block
  <2>2. NothingSent
    BY <1>2, <1>3, <2>1 DEF NothingSent, Driving, Holding
  <2> QED
    BY <2>2, NothingSentKeeps
<1>4. CASE /\ wire' = Append(wire, data[BufferOf(file[p])])
           /\ sent' = [sent EXCEPT ![p] = @ + 1]
           /\ result' = IF sent[p] + 1 = Image
                        THEN [result EXCEPT ![p] = "ok"] ELSE result
  <2>1. ASSUME "twice" \notin mishaps'
        PROVE  (Apart /\ Own /\ NextBlock /\ SentArrived)'
    <3>1. Apart /\ Own /\ NextBlock /\ SentArrived
      BY <1>2, <2>1 DEF Delivery
    <3>2. data[BufferOf(file[p])] = <<p, sent[p] + 1>>
      BY <1>2, <3>1 DEF BufferOf, Own, NextBlock, Driving, Holding
    <3>3. Apart' /\ Own'
      BY <1>2, <3>1 DEF Apart, Own, Driving, Holding
    <3>4. NextBlock'
      BY <1>1, <1>2, <1>4, <3>1 DEF NextBlock
    <3>5. SentArrived'
      BY <1>4, <3>1, <3>2, AllArrive
    <3> QED
      BY <3>3, <3>4, <3>5
  <2>2. OkIsAll'
    BY <1>1, <1>2, <1>4 DEF Delivery, OkIsAll
  <2> QED
    BY <2>1, <2>2 DEF Delivery
<1> QED
  BY <1>3, <1>4 DEF WriteBulk

LEMMA LibWriteDelivers ==
  ASSUME Types, SentInRange, Delivery, NEW p \in Proc, LibWrite(p)
  PROVE  Delivery'
<1>1. /\ pc \in [Proc -> Pcs] /\ sent \in [Proc -> Block]
      /\ result \in [Proc -> Results] /\ Block \subseteq Nat /\ Image \in Nat
  BY Constants DEF Types, ProcTypes, Block
<1>2. /\ UNCHANGED <<file, bulkout_buffer, data, mishaps>>
      /\ pc[p] \in {"libwrite", "stalled"} /\ sent[p] < Image
      /\ \A q \in Proc \ {p} : pc'[q] = pc[q]
      /\ pc'[p] \in {"libwrite", "stalled", "libclose"}
  BY <1>1 DEF LibWrite, Goto, memory, dev, SentInRange
<1>3. CASE wire' = wire /\ sent' = sent
  <2>1. \A q \in Proc : result'[q] = "ok" => result[q] = "ok"
    BY <1>1, <1>3 DEF LibWrite, Block
  <2>2. NothingSent
    BY <1>2, <1>3, <2>1 DEF NothingSent, Driving, Holding
  <2> QED
    BY <2>2, NothingSentKeeps
<1>4. CASE /\ wire' = Append(wire, <<p, sent[p] + 1>>)
           /\ sent' = [sent EXCEPT ![p] = @ + 1]
           /\ result' = IF sent[p] + 1 = Image
                        THEN [result EXCEPT ![p] = "ok"] ELSE result
  <2>1. ASSUME "twice" \notin mishaps'
        PROVE  (Apart /\ Own /\ NextBlock /\ SentArrived)'
    <3>1. Apart /\ Own /\ NextBlock /\ SentArrived
      BY <1>2, <2>1 DEF Delivery
    <3>2. Apart' /\ Own'
      BY <1>2, <3>1 DEF Apart, Own, Driving, Holding
    <3>3. NextBlock'
      BY <1>1, <1>2, <1>4, <3>1 DEF NextBlock
    <3>4. SentArrived'
      BY <1>4, <3>1, AllArrive
    <3> QED
      BY <3>2, <3>3, <3>4
  <2>2. OkIsAll'
    BY <1>1, <1>2, <1>4 DEF Delivery, OkIsAll
  <2> QED
    BY <2>1, <2>2 DEF Delivery
<1> QED
  BY <1>3, <1>4 DEF LibWrite

LEMMA DeliveryKept == IInv /\ Delivery /\ [Next]_vars => Delivery'
<1> SUFFICES ASSUME IInv, Delivery, [Next]_vars PROVE Delivery'
  OBVIOUS
<1>1. Types /\ SentInRange
  BY TypesInParts DEF IInv, Types
<1>2. CASE Plug \/ Unplug \/ Hub
  BY <1>2, CoreSendsNothing, NothingSentKeeps
<1>3. ASSUME NEW p \in Proc, Tool(p) PROVE Delivery'
  BY <1>1, <1>3, WalkSendsNothing, NothingSentKeeps, OpenAllocDelivers,
     WriteCopyDelivers, WriteBulkDelivers, LibWriteDelivers DEF Tool
<1>4. CASE UNCHANGED vars
  <2>1. NothingSent
    BY <1>4 DEF vars, hubVars, memory, dev, procVars, NothingSent
  <2> QED
    BY <2>1, NothingSentKeeps
<1> QED
  BY <1>2, <1>3, <1>4 DEF Next

(* When the tool says that it is done, the device has the whole image, in   *)
(* order and unchanged, unless the driver was opened twice.                 *)
THEOREM Delivered == Spec => []SuccessIsDelivered
<1>1. Init => Delivery
  <2> SUFFICES ASSUME Init PROVE Delivery
    OBVIOUS
  <2>1. Apart /\ Own /\ NextBlock /\ OkIsAll
    BY DEF Init, Apart, Own, NextBlock, OkIsAll, Driving, Holding
  <2>2. DOMAIN wire = {} /\ \A p \in Proc : sent[p] = 0
    BY DEF Init
  <2>3. SentArrived
    BY <2>2 DEF SentArrived, Arrived
  <2> QED
    BY <2>1, <2>3 DEF Delivery
<1>2. Delivery => SuccessIsDelivered
  BY DEF Delivery, OkIsAll, SentArrived, Arrived, SuccessIsDelivered
<1> QED
  BY <1>1, <1>2, DeliveryKept, Always, PTL DEF Spec
-----------------------------------------------------------------------------
(* Why images do not mix, whatever is opened twice or pulled out.  The core *)
(* points to a struct exactly while the driver is bound, and then nobody    *)
(* has claimed the interface.  Nobody holds the mutex that mutex_init makes, *)
(* unless an open was too early, which everything that follows leaves out.  *)
Punctual == "early" \notin mishaps
Probing  == {"probe", "register", "setdata", "mutexinit"}
CorePointer ==
    /\ hub \in Probing => plugged /\ handles = {}
    /\ hub \in {"probe", "register", "setdata"} => intfdata = 0
    /\ hub \in {"probe", "register"} => ~minor
    /\ hub \in {"setdata", "mutexinit", "free", "deregister"} => minor
    /\ hub \in {"mutexinit", "free"} => intfdata # 0
    /\ hub = "idle" => (minor <=> intfdata # 0) /\ (minor => plugged)
    /\ hub = "deregister" => intfdata = 0 \/ ~live[intfdata]
    /\ hub \in {"register", "setdata", "mutexinit"} =>
           io_mutex[latest] = None
    /\ intfdata <= latest
    /\ handles # {} => plugged
    /\ claimed # None => plugged /\ ~minor /\ hub = "idle"

(* So at most one struct that a process has open is live, and who is past   *)
(* its trylock on it holds its mutex.                                       *)
OneLive == \A p \in Proc :
    /\ file[p] <= latest
    /\ Live(file[p]) => file[p] = intfdata
    /\ pc[p] \in Holding /\ Live(file[p]) => io_mutex[file[p]] = p

(* A buffer belongs to the struct its process opened, and so does a held    *)
(* mutex; what is in a buffer in use is zeroes or the holder's.             *)
Early == {"start", "find", "alloc"}
Fresh == \A p \in Proc : pc[p] \in Early =>
             data[p] = <<None, 0>> /\ \A d \in Dev : bulkout_buffer[d] # p
BufferFile == \A d \in Dev : bulkout_buffer[d] # None =>
                                 file[bulkout_buffer[d]] = d
MutexFile == \A d \in Dev : io_mutex[d] # None =>
                 /\ file[io_mutex[d]] = d
                 /\ pc[io_mutex[d]] \notin Early \cup {"trylock"}
Writing == Holding \ {"unlock"}
Content == \A d \in Dev : live[d] /\ BufferLive(d) =>
               \/ data[BufferOf(d)][1] = None
               \/ /\ data[BufferOf(d)][1] = io_mutex[d]
                  /\ pc[io_mutex[d]] \in Writing

Devices == OneLive /\ Fresh /\ BufferFile /\ MutexFile /\ Content

(* Who writes through libusb has the claim, as long as the device is there  *)
(* and nobody has taken the claim away.                                     *)
Claims == \A p \in Proc :
    pc[p] \in {"libwrite", "stalled"} /\ p \in handles /\ p \notin taken =>
        claimed = p

(* A process whose device is gone, or that is through, writes no more; and  *)
(* that is the state of each process as soon as another one's block follows *)
(* a block of its, or else its claim has been taken away.                   *)
Over(p) ==
    \/ p \in taken
    \/ pc[p] \in {"copy", "bulk"} /\ ~Live(file[p])
    \/ pc[p] \in {"libwrite", "stalled"} /\ p \notin handles
    \/ pc[p] \in {"release", "unlock", "spinning", "libclose", "done",
                  "undefined"}
Before == Early \cup {"trylock", "lib", "detach", "reset", "configure",
                       "claim"}
OnTheWire == \A i \in DOMAIN wire :
                 wire[i][1] # None => pc[wire[i][1]] \notin Before
Followed == \A i, j \in DOMAIN wire :
    i < j /\ wire[i][1] # wire[j][1] /\ None \notin {wire[i][1], wire[j][1]}
        => Over(wire[i][1])

Unmixed3(w, lost) ==
    \A i, j, k \in DOMAIN w :
        /\ i < j /\ j < k
        /\ w[i][1] = w[k][1] /\ None \notin {w[i][1], w[j][1]}
        /\ w[i][1] \notin lost
        => w[j][1] = w[i][1]
Unmixedness == OnTheWire /\ Followed /\ Unmixed3(wire, taken)

LEMMA PunctualStays == Next /\ Punctual' => Punctual
<1> SUFFICES ASSUME Next PROVE mishaps \subseteq mishaps'
  BY DEF Punctual
<1>1. CASE Plug \/ Unplug \/ Hub
  BY <1>1 DEF Plug, Unplug, Hub, ProbeAlloc, ProbeRegister, ProbeSetData,
              ProbeMutexInit, DisconnectFree, DisconnectDeregister
<1>2. ASSUME NEW p \in Proc, Tool(p) PROVE mishaps \subseteq mishaps'
  BY <1>2
  DEF Tool, StartOpen, OpenFind, OpenAlloc, OpenTrylock, WriteCopy,
      WriteBulk, ReleaseFree, ReleaseUnlock, LibOpen, LibDetach, LibReset,
      LibConfigure, LibClaim, LibWrite, LibClose
<1> QED
  BY <1>1, <1>2 DEF Next

LEMMA PointerKept ==
  ASSUME IInv, CorePointer, OneLive, Next, Punctual'
  PROVE  CorePointer'
<1>1. CoreTypes /\ MemoryTypes /\ CoreIsCareful /\ None \notin Proc
  BY TypesInParts, Constants DEF IInv
<1> USE DEF hubVars, memory, dev, procVars, usbfs, Probing
<1>2. CASE Plug
  BY <1>1, <1>2 DEF Plug, CorePointer, CoreTypes
<1>3. CASE Unplug
  BY <1>1, <1>3 DEF Unplug, CorePointer, CoreTypes
<1>4. CASE ProbeAlloc
  <2>1. latest + 1 > latest /\ latest + 1 \in Dev
    BY <1>1, <1>4, Constants
    DEF ProbeAlloc, CoreTypes, Dev, IInv, SentInRange
  <2>2. io_mutex[latest + 1] = None
    BY <1>1, <2>1 DEF CoreIsCareful
  <2> QED
    BY <1>1, <1>4, <2>2 DEF ProbeAlloc, CorePointer, CoreTypes
<1>5. CASE ProbeRegister
  BY <1>1, <1>5 DEF ProbeRegister, CorePointer, CoreTypes
<1>6. CASE ProbeSetData
  BY <1>1, <1>6
  DEF ProbeSetData, CorePointer, CoreTypes, CoreIsCareful, Dev
<1>7. CASE DisconnectFree
  <2>1. /\ UNCHANGED <<plugged, minor, intfdata, latest, usbfs>>
        /\ hub = "free" /\ hub' = "deregister"
        /\ live' = [live EXCEPT ![intfdata] = FALSE]
    BY <1>7 DEF DisconnectFree
  <2>2. intfdata \in Dev
    BY <1>1, <2>1, Constants DEF CorePointer, CoreTypes, Dev
  <2>3. ~live'[intfdata]
    BY <1>1, <2>1, <2>2 DEF MemoryTypes
  <2> QED
    BY <2>1, <2>3 DEF CorePointer
<1>8. CASE DisconnectDeregister
  BY <1>1, <1>8 DEF DisconnectDeregister, CorePointer, CoreTypes
<1>10. CASE ProbeMutexInit
  BY <1>1, <1>10 DEF ProbeMutexInit, CorePointer, CoreTypes
<1>9. ASSUME NEW p \in Proc, Tool(p) PROVE CorePointer'
  <2>1. CASE \/ LibOpen(p) \/ LibDetach(p) \/ LibReset(p)
             \/ LibConfigure(p) \/ LibClaim(p) \/ LibWrite(p) \/ LibClose(p)
    <3> USE DEF Fail, GoOn, TakeAway, Unbound, CorePointer
    <3>1. CASE LibOpen(p)
      BY <1>1, <3>1 DEF LibOpen
    <3>2. CASE LibDetach(p)
      BY <1>1, <3>2 DEF LibDetach
    <3>3. CASE LibReset(p)
      BY <1>1, <3>3 DEF LibReset
    <3>4. CASE LibConfigure(p)
      BY <1>1, <3>4 DEF LibConfigure
    <3>5. CASE LibClaim(p)
      BY <1>1, <3>5 DEF LibClaim
    <3>6. CASE LibWrite(p)
      BY <1>1, <3>6 DEF LibWrite, CoreTypes, HubPcs
    <3>7. CASE LibClose(p)
      BY <1>1, <3>7 DEF LibClose
    <3> QED
      BY <2>1, <3>1, <3>2, <3>3, <3>4, <3>5, <3>6, <3>7
  <2>2. CASE UNCHANGED <<hubVars, live, io_mutex, usbfs>>
    BY <2>2 DEF CorePointer
  <2>3. CASE OpenTrylock(p) /\ io_mutex' # io_mutex
    <3>1. /\ UNCHANGED <<hubVars, live, usbfs>> /\ hub # "mutexinit"
          /\ Live(file[p]) /\ io_mutex' = [io_mutex EXCEPT ![file[p]] = p]
      BY <2>3 DEF OpenTrylock, Punctual
    <3>2. file[p] = intfdata
      BY <3>1 DEF OneLive
    <3>3. hub \in {"register", "setdata"} => intfdata = 0
      BY DEF CorePointer
    <3>4. hub \notin {"register", "setdata", "mutexinit"}
      BY <3>1, <3>2, <3>3 DEF Live, Dev
    <3> QED
      BY <3>1, <3>4 DEF CorePointer
  <2>4. CASE ReleaseUnlock(p)
    <3>1. /\ UNCHANGED <<hubVars, live, usbfs>>
          /\ io_mutex' \in {io_mutex, [io_mutex EXCEPT ![file[p]] = None]}
      BY <2>4 DEF ReleaseUnlock
    <3>2. hub \in {"register", "setdata", "mutexinit"} =>
              latest \in Dev /\ io_mutex[latest] = None
      BY <1>1 DEF CorePointer, CoreIsCareful
    <3>3. hub \in {"register", "setdata", "mutexinit"} =>
              io_mutex'[latest] = None
      BY <1>1, <3>1, <3>2 DEF MemoryTypes
    <3> QED
      BY <3>1, <3>3 DEF CorePointer
  <2>5. CASE OpenTrylock(p) /\ io_mutex' = io_mutex
    BY <2>2, <2>5 DEF OpenTrylock
  <2>6. CASE \/ StartOpen(p) \/ OpenFind(p) \/ OpenAlloc(p)
             \/ WriteCopy(p) \/ WriteBulk(p) \/ ReleaseFree(p)
    BY <2>2, <2>6
    DEF StartOpen, OpenFind, OpenAlloc, WriteCopy, WriteBulk, ReleaseFree
  <2> QED
    BY <1>9, <2>1, <2>3, <2>4, <2>5, <2>6 DEF Tool
<1> QED
  BY <1>2, <1>3, <1>4, <1>5, <1>6, <1>7, <1>8, <1>9, <1>10 DEF Next, Hub

(* What the core does to the structs: it makes one that nobody has, and it  *)
(* takes the one away that it points to.                                    *)
LEMMA CoreStep ==
  ASSUME IInv, CorePointer, Plug \/ Unplug \/ Hub
  PROVE  /\ UNCHANGED <<bulkout_buffer, io_mutex, heap, data, pc, file, sent,
                        result, wire>>
         /\ \A d \in Dev : d <= latest /\ live'[d] => live[d]
         /\ latest' \in Nat /\ latest <= latest'
         /\ \A d \in Dev : live'[d] /\ d = intfdata => intfdata' = d
<1>1. CoreTypes /\ MemoryTypes /\ Plugs \in Nat
  BY TypesInParts, Constants DEF IInv
<1> USE DEF hubVars, memory, dev, procVars, usbfs
<1>a. ProbeMutexInit => io_mutex' = io_mutex
  BY <1>1 DEF ProbeMutexInit, CorePointer, MemoryTypes
<1>2. /\ UNCHANGED <<bulkout_buffer, io_mutex, heap, data, pc, file, sent,
                     result, wire>>
      /\ latest' \in {latest, latest + 1}
      /\ \/ live' = live
         \/ live' = [live EXCEPT ![latest + 1] = TRUE]
         \/ live' = [live EXCEPT ![intfdata] = FALSE]
  BY <1>a DEF Plug, Unplug, Hub, ProbeAlloc, ProbeRegister, ProbeSetData,
              ProbeMutexInit, DisconnectFree, DisconnectDeregister
<1>3. \A d \in Dev : d <= latest /\ live'[d] => live[d]
  BY <1>1, <1>2 DEF CoreTypes, MemoryTypes, Dev
<1>4. latest' \in Nat /\ latest <= latest'
  BY <1>1, <1>2 DEF CoreTypes
<1>6. \A d \in Dev : live'[d] /\ d = intfdata => intfdata' = d
  <2>1. CASE DisconnectDeregister
    BY <2>1 DEF DisconnectDeregister, CorePointer, Dev
  <2>2. CASE ProbeSetData
    BY <2>2, <1>1 DEF ProbeSetData, CorePointer, Dev, CoreTypes
  <2>3. CASE UNCHANGED intfdata
    BY <2>3
  <2> QED
    BY <2>1, <2>2, <2>3
    DEF Plug, Unplug, Hub, ProbeAlloc, ProbeRegister, ProbeMutexInit,
        DisconnectFree
<1> QED
  BY <1>2, <1>3, <1>4, <1>6

LEMMA CoreKeepsDevices ==
  ASSUME IInv, CorePointer, Devices, Plug \/ Unplug \/ Hub
  PROVE  Devices'
<1>1. /\ CoreTypes /\ file \in [Proc -> 0..Plugs] /\ None \notin Proc
      /\ bulkout_buffer \in [Dev -> Proc \cup {None}] /\ Plugs \in Nat
  BY TypesInParts, Constants DEF IInv, ProcTypes, MemoryTypes
<1>2. /\ UNCHANGED <<bulkout_buffer, io_mutex, heap, data, pc, file, sent,
                     result, wire>>
      /\ \A d \in Dev : d <= latest /\ live'[d] => live[d]
      /\ latest' \in Nat /\ latest <= latest'
      /\ \A d \in Dev : live'[d] /\ d = intfdata => intfdata' = d
  BY CoreStep
<1>3. OneLive'
  <2> SUFFICES ASSUME NEW p \in Proc
               PROVE  /\ file[p] <= latest'
                      /\ Live(file[p])' => file[p] = intfdata'
                      /\ pc[p] \in Holding /\ Live(file[p])' =>
                             io_mutex[file[p]] = p
    BY <1>2 DEF OneLive, Live
  <2>1. /\ file[p] \in Nat /\ file[p] <= latest /\ latest \in Nat
        /\ Live(file[p]) => file[p] = intfdata
        /\ pc[p] \in Holding /\ Live(file[p]) => io_mutex[file[p]] = p
    BY <1>1 DEF Devices, OneLive, CoreTypes
  <2>2. file[p] <= latest'
    BY <1>2, <2>1
  <2>3. Live(file[p])' => Live(file[p]) /\ intfdata' = intfdata
    BY <1>2, <2>1 DEF Live
  <2> QED
    BY <2>1, <2>2, <2>3
<1>4. Fresh' /\ BufferFile' /\ MutexFile'
  BY <1>2 DEF Devices, Fresh, BufferFile, MutexFile
<1>5. Content'
  <2> SUFFICES ASSUME NEW d \in Dev, live'[d], BufferLive(d)
               PROVE  \/ data[BufferOf(d)][1] = None
                      \/ /\ data[BufferOf(d)][1] = io_mutex[d]
                         /\ pc[io_mutex[d]] \in Writing
    BY <1>2 DEF Content, BufferLive, BufferOf
  <2>1. bulkout_buffer[d] \in Proc /\ file[bulkout_buffer[d]] = d
    BY <1>1 DEF BufferLive, BufferOf, Devices, BufferFile
  <2>2. d <= latest
    BY <2>1 DEF Devices, OneLive
  <2> QED
    BY <1>2, <2>2 DEF Devices, Content
<1> QED
  BY <1>3, <1>4, <1>5 DEF Devices

DeviceTypes == /\ pc \in [Proc -> Pcs] /\ file \in [Proc -> 0..Plugs]
               /\ MemoryTypes /\ CoreTypes
               /\ None \notin Proc /\ Plugs \in Nat

LEMMA DeviceTyped == IInv => DeviceTypes
  BY TypesInParts, Constants DEF IInv, DeviceTypes, ProcTypes

(* A step of one process that only moves it: not into the driver, and out   *)
(* of what it does there only when that has come to nothing.                *)
Moves(p) ==
    /\ UNCHANGED <<dev, heap, data, file, intfdata, latest>>
    /\ \A q \in Proc \ {p} : pc'[q] = pc[q]
    /\ pc'[p] \in Early => pc[p] \in Early
    /\ pc'[p] = "trylock" => pc[p] = "trylock"
    /\ pc'[p] \in Holding => pc[p] \in Holding
    /\ pc[p] \in Writing => \/ pc'[p] \in Writing
                            \/ ~(Live(file[p]) /\ BufferLive(file[p]))

LEMMA MovesKeepDevices ==
  ASSUME DeviceTypes, Devices, NEW p \in Proc, Moves(p)
  PROVE  Devices'
<1>1. /\ UNCHANGED <<live, bulkout_buffer, io_mutex, heap, data, file,
                     intfdata, latest>>
      /\ io_mutex \in [Dev -> Proc \cup {None}]
      /\ \A q \in Proc \ {p} : pc'[q] = pc[q]
  BY DEF Moves, dev, DeviceTypes, MemoryTypes
<1>2. OneLive'
  BY <1>1 DEF Moves, Devices, OneLive, Live
<1>3. Fresh' /\ BufferFile'
  BY <1>1 DEF Moves, Devices, Fresh, BufferFile
<1>4. MutexFile'
  <2> SUFFICES ASSUME NEW d \in Dev, io_mutex[d] # None
               PROVE  /\ file[io_mutex[d]] = d
                      /\ pc'[io_mutex[d]] \notin Early \cup {"trylock"}
    BY <1>1 DEF MutexFile
  <2>1. /\ io_mutex[d] \in Proc /\ file[io_mutex[d]] = d
        /\ pc[io_mutex[d]] \notin Early \cup {"trylock"}
    BY <1>1 DEF Devices, MutexFile
  <2> QED
    BY <1>1, <2>1 DEF Moves
<1>5. Content'
  <2> SUFFICES ASSUME NEW d \in Dev, live[d], BufferLive(d),
                      data[BufferOf(d)][1] # None
               PROVE  /\ data[BufferOf(d)][1] = io_mutex[d]
                      /\ pc'[io_mutex[d]] \in Writing
    BY <1>1 DEF Content, BufferLive, BufferOf
  <2>1. data[BufferOf(d)][1] = io_mutex[d] /\ pc[io_mutex[d]] \in Writing
    BY DEF Devices, Content
  <2>2. io_mutex[d] \in Proc /\ file[io_mutex[d]] = d
    BY <1>1, <2>1 DEF Devices, MutexFile
  <2> QED
    BY <1>1, <2>1, <2>2 DEF Moves, Live
<1> QED
  BY <1>2, <1>3, <1>4, <1>5 DEF Devices

LEMMA WhoMoves ==
  ASSUME DeviceTypes, NEW p \in Proc,
         \/ StartOpen(p) \/ WriteBulk(p) \/ LibWrite(p) \/ LibWalk(p)
  PROVE  Moves(p)
<1> USE DEF DeviceTypes, Goto, Moves, Early, Holding, Writing, hubVars, memory
<1>1. CASE StartOpen(p)
  BY <1>1 DEF StartOpen
<1>2. CASE WriteBulk(p)
  BY <1>2 DEF WriteBulk
<1>3. CASE LibWrite(p)
  BY <1>3 DEF LibWrite
<1>4. CASE LibWalk(p)
  BY <1>4 DEF LibWalk, Walking
<1> QED
  BY <1>1, <1>2, <1>3, <1>4

(* The process finds the struct that the core points to; it has no buffer   *)
(* and no mutex so far.                                                     *)
LEMMA OpenFindKeepsDevices ==
  ASSUME DeviceTypes, CorePointer, Devices, NEW p \in Proc, OpenFind(p)
  PROVE  Devices'
<1>1. /\ UNCHANGED <<live, bulkout_buffer, io_mutex, heap, data, intfdata,
                     latest>>
      /\ pc[p] = "find" /\ pc'[p] = "alloc"
      /\ file'[p] = intfdata
      /\ \A q \in Proc \ {p} : pc'[q] = pc[q] /\ file'[q] = file[q]
  BY DEF OpenFind, Goto, hubVars, memory, dev, DeviceTypes
<1>2. /\ bulkout_buffer \in [Dev -> Proc \cup {None}]
      /\ io_mutex \in [Dev -> Proc \cup {None}] /\ None \notin Proc
  BY DEF DeviceTypes, MemoryTypes
<1>3. /\ \A d \in Dev : bulkout_buffer[d] # p
      /\ \A d \in Dev : io_mutex[d] # p
  BY <1>1, <1>2 DEF Devices, Fresh, MutexFile, Early
<1>4. OneLive'
  BY <1>1 DEF Devices, OneLive, Live, CorePointer, Holding
<1>5. Fresh'
  BY <1>1 DEF Devices, Fresh, Early
<1>6. BufferFile'
  BY <1>1, <1>2, <1>3 DEF Devices, BufferFile
<1>7. MutexFile'
  BY <1>1, <1>2, <1>3 DEF Devices, MutexFile
<1>8. Content'
  <2> SUFFICES ASSUME NEW d \in Dev, live[d], BufferLive(d),
                      data[BufferOf(d)][1] # None
               PROVE  /\ data[BufferOf(d)][1] = io_mutex[d]
                      /\ pc'[io_mutex[d]] \in Writing
    BY <1>1 DEF Content, BufferLive, BufferOf
  <2>1. data[BufferOf(d)][1] = io_mutex[d] /\ pc[io_mutex[d]] \in Writing
    BY DEF Devices, Content
  <2>2. io_mutex[d] \in Proc \ {p}
    BY <1>2, <1>3, <2>1 DEF Devices, Content
  <2> QED
    BY <1>1, <2>1, <2>2
<1> QED
  BY <1>4, <1>5, <1>6, <1>7, <1>8 DEF Devices

(* The new buffer is zeroed; whoever holds the mutex of the struct goes on  *)
(* with it.                                                                 *)
LEMMA OpenAllocKeepsDevices ==
  ASSUME DeviceTypes, Devices, NEW p \in Proc, OpenAlloc(p)
  PROVE  Devices'
<1> DEFINE f == file[p]
<1>1. /\ UNCHANGED <<live, io_mutex, data, intfdata, latest, file>>
      /\ pc[p] = "alloc" /\ pc'[p] \in {"undefined", "trylock", "lib"}
      /\ \A q \in Proc \ {p} : pc'[q] = pc[q] /\ heap'[q] = heap[q]
      /\ \A d \in Dev : d # f => bulkout_buffer'[d] = bulkout_buffer[d]
      /\ f \in Dev => bulkout_buffer'[f] \in {bulkout_buffer[f], p, None}
  <2> USE DEF OpenAlloc, Goto, hubVars, DeviceTypes, MemoryTypes
  <2>1. /\ UNCHANGED <<live, io_mutex, data, intfdata, latest, file>>
        /\ pc[p] = "alloc" /\ pc'[p] \in {"undefined", "trylock", "lib"}
        /\ \A q \in Proc \ {p} : pc'[q] = pc[q]
    OBVIOUS
  <2>2. \A q \in Proc \ {p} : heap'[q] = heap[q]
    OBVIOUS
  <2>3. /\ \A d \in Dev : d # f => bulkout_buffer'[d] = bulkout_buffer[d]
        /\ f \in Dev => bulkout_buffer'[f] \in {bulkout_buffer[f], p, None}
    OBVIOUS
  <2> QED
    BY <2>1, <2>2, <2>3
<1>2. /\ bulkout_buffer \in [Dev -> Proc \cup {None}]
      /\ io_mutex \in [Dev -> Proc \cup {None}] /\ None \notin Proc
  BY DEF DeviceTypes, MemoryTypes
<1>3. /\ \A d \in Dev : bulkout_buffer[d] # p /\ io_mutex[d] # p
      /\ data[p] = <<None, 0>>
  BY <1>1, <1>2 DEF Devices, Fresh, MutexFile, Early
<1> HIDE DEF f
<1>4. OneLive'
  BY <1>1 DEF Devices, OneLive, Live, Holding
<1>5. Fresh'
  <2> SUFFICES ASSUME NEW q \in Proc, pc'[q] \in Early
               PROVE  data[q] = <<None, 0>> /\
                      \A d \in Dev : bulkout_buffer'[d] # q
    BY <1>1 DEF Fresh
  <2>1. q # p /\ pc[q] \in Early
    BY <1>1 DEF Early
  <2>2. data[q] = <<None, 0>> /\ \A d \in Dev : bulkout_buffer[d] # q
    BY <2>1 DEF Devices, Fresh
  <2> QED
    BY <1>1, <1>2, <2>1, <2>2
<1>6. BufferFile'
  BY <1>1, <1>2 DEF Devices, BufferFile, f
<1>7. MutexFile'
  BY <1>1, <1>2, <1>3 DEF Devices, MutexFile
<1>8. Content'
  <2> SUFFICES ASSUME NEW d \in Dev, live[d], BufferLive(d)',
                      data[BufferOf(d)'][1] # None
               PROVE  /\ data[BufferOf(d)'][1] = io_mutex[d]
                      /\ pc'[io_mutex[d]] \in Writing
    BY <1>1 DEF Content
  <2>1. BufferOf(d)' # p /\ BufferOf(d)' # None
    BY <1>2, <1>3 DEF BufferLive
  <2>2. BufferOf(d)' = BufferOf(d) /\ BufferOf(d) \in Proc \ {p}
    BY <1>1, <1>2, <2>1 DEF BufferOf
  <2>3. BufferLive(d)
    BY <1>1, <2>2 DEF BufferLive, BufferOf
  <2>4. data[BufferOf(d)][1] = io_mutex[d] /\ pc[io_mutex[d]] \in Writing
    BY <2>2, <2>3 DEF Devices, Content
  <2>5. data[BufferOf(d)][1] # None
    BY <2>2
  <2>6. io_mutex[d] \in Proc \ {p}
    BY <1>2, <1>3, <2>4, <2>5
  <2> QED
    BY <1>1, <2>2, <2>4, <2>6
<1> QED
  BY <1>4, <1>5, <1>6, <1>7, <1>8 DEF Devices

(* The trylock succeeds only when nobody holds the mutex.                   *)
LEMMA OpenTrylockKeepsDevices ==
  ASSUME DeviceTypes, Devices, NEW p \in Proc, OpenTrylock(p)
  PROVE  Devices'
<1> DEFINE f == file[p]
<1>1. /\ UNCHANGED <<live, bulkout_buffer, heap, data, intfdata, latest, file>>
      /\ pc[p] = "trylock"
      /\ \A q \in Proc \ {p} : pc'[q] = pc[q]
      /\ \/ io_mutex' = io_mutex /\ pc'[p] \in {"undefined", "lib"}
         \/ /\ f \in Dev /\ io_mutex[f] = None /\ pc'[p] = "copy"
            /\ io_mutex' = [io_mutex EXCEPT ![f] = p]
  BY DEF OpenTrylock, Goto, hubVars, DeviceTypes, MemoryTypes, Live
<1>2. io_mutex \in [Dev -> Proc \cup {None}] /\ None \notin Proc
  BY DEF DeviceTypes, MemoryTypes
<1>3. \A d \in Dev : io_mutex[d] # p
  BY <1>1, <1>2 DEF Devices, MutexFile
<1> HIDE DEF f
<1>4. OneLive'
  <2> SUFFICES ASSUME NEW q \in Proc, pc'[q] \in Holding, Live(file[q])
               PROVE  io_mutex'[file[q]] = q
    BY <1>1 DEF OneLive, Devices, Live
  <2>1. CASE q = p
    BY <1>1, <1>2, <2>1 DEF f, Holding
  <2>2. CASE q # p
    <3>1. io_mutex[file[q]] = q /\ file[q] \in Dev
      BY <1>1, <2>2 DEF Devices, OneLive, Live
    <3> QED
      BY <1>1, <1>2, <3>1
  <2> QED
    BY <2>1, <2>2
<1>5. Fresh' /\ BufferFile'
  BY <1>1 DEF Devices, Fresh, BufferFile, Early
<1>6. MutexFile'
  <2> SUFFICES ASSUME NEW d \in Dev, io_mutex'[d] # None
               PROVE  /\ file[io_mutex'[d]] = d
                      /\ pc'[io_mutex'[d]] \notin Early \cup {"trylock"}
    BY <1>1 DEF MutexFile
  <2>1. CASE io_mutex'[d] = io_mutex[d]
    BY <1>1, <1>2, <1>3, <2>1 DEF Devices, MutexFile
  <2>2. CASE io_mutex'[d] # io_mutex[d]
    BY <1>1, <1>2, <2>2 DEF f, Early
  <2> QED
    BY <2>1, <2>2
<1>7. Content'
  <2> SUFFICES ASSUME NEW d \in Dev, live[d], BufferLive(d),
                      data[BufferOf(d)][1] # None
               PROVE  /\ data[BufferOf(d)][1] = io_mutex'[d]
                      /\ pc'[io_mutex'[d]] \in Writing
    BY <1>1 DEF Content, BufferLive, BufferOf
  <2>1. data[BufferOf(d)][1] = io_mutex[d] /\ pc[io_mutex[d]] \in Writing
    BY DEF Devices, Content
  <2>2. io_mutex[d] \in Proc \ {p}
    BY <1>2, <1>3, <2>1
  <2>3. io_mutex'[d] = io_mutex[d]
    BY <1>1, <1>2, <2>2
  <2> QED
    BY <1>1, <2>1, <2>2, <2>3
<1> QED
  BY <1>4, <1>5, <1>6, <1>7 DEF Devices

(* Only the holder of the mutex writes into the buffer of its struct.       *)
LEMMA WriteCopyKeepsDevices ==
  ASSUME DeviceTypes, Devices, NEW p \in Proc, WriteCopy(p)
  PROVE  Devices'
<1> DEFINE f == file[p]
           b == bulkout_buffer[f]
<1>1. /\ UNCHANGED <<live, bulkout_buffer, io_mutex, heap, intfdata, latest,
                     file>>
      /\ pc[p] = "copy" /\ \A q \in Proc \ {p} : pc'[q] = pc[q]
      /\ \/ /\ data' = data /\ pc'[p] = "undefined"
            /\ ~(Live(f) /\ BufferLive(f))
         \/ /\ Live(f) /\ BufferLive(f) /\ pc'[p] = "bulk"
            /\ data' = [data EXCEPT ![b] = <<p, sent[p] + 1>>]
  BY DEF WriteCopy, Goto, hubVars, dev, DeviceTypes, BufferOf
<1>2. CASE data' = data
  <2>1. Moves(p)
    BY <1>1, <1>2 DEF Moves, dev, Early, Holding, Writing
  <2> QED
    BY <2>1, MovesKeepDevices
<1>3. CASE /\ Live(f) /\ BufferLive(f) /\ pc'[p] = "bulk"
           /\ data' = [data EXCEPT ![b] = <<p, sent[p] + 1>>]
  <2>1. /\ bulkout_buffer \in [Dev -> Proc \cup {None}]
        /\ io_mutex \in [Dev -> Proc \cup {None}]
        /\ data \in [Proc -> (Proc \cup {None}) \X Block]
    BY DEF DeviceTypes, MemoryTypes
  <2>2. /\ f \in Dev /\ b \in Proc /\ io_mutex[f] = p /\ file[b] = f
        /\ pc[b] \notin Early
    BY <1>1, <1>3, <2>1
    DEF BufferLive, BufferOf, Live, Devices, BufferFile, OneLive, Fresh,
        Holding
  <2>3. /\ data'[b] = <<p, sent[p] + 1>>
        /\ \A q \in Proc \ {b} : data'[q] = data[q]
    BY <1>3, <2>1, <2>2
  <2> HIDE DEF b, f
  <2>4. OneLive'
    BY <1>1, <1>3 DEF OneLive, Devices, Live, Holding
  <2>5. Fresh'
    <3> SUFFICES ASSUME NEW q \in Proc, pc'[q] \in Early
                 PROVE  data'[q] = <<None, 0>> /\
                        \A d \in Dev : bulkout_buffer[d] # q
      BY <1>1 DEF Fresh
    <3>1. pc[q] \in Early /\ q # b
      BY <1>1, <1>3, <2>2 DEF Early
    <3> QED
      BY <2>3, <3>1 DEF Devices, Fresh
  <2>6. BufferFile' /\ MutexFile'
    BY <1>1, <1>3, <2>1 DEF Devices, BufferFile, MutexFile, Early
  <2>7. Content'
    <3> SUFFICES ASSUME NEW d \in Dev, live[d], BufferLive(d),
                        data'[BufferOf(d)][1] # None
                 PROVE  /\ data'[BufferOf(d)][1] = io_mutex[d]
                        /\ pc'[io_mutex[d]] \in Writing
      BY <1>1 DEF Content, BufferLive, BufferOf
    <3>1. BufferOf(d) \in Proc /\ file[BufferOf(d)] = d
      BY <2>1 DEF BufferLive, BufferOf, Devices, BufferFile
    <3>2. CASE BufferOf(d) = b
      <4>1. d = f
        BY <2>2, <3>1, <3>2
      <4>2. data'[BufferOf(d)][1] = p
        BY <2>3, <3>2
      <4> QED
        BY <1>3, <2>2, <4>1, <4>2 DEF Writing, Holding
    <3>3. CASE BufferOf(d) # b
      <4>1. data'[BufferOf(d)] = data[BufferOf(d)]
        BY <2>3, <3>1, <3>3
      <4>2. /\ data[BufferOf(d)][1] = io_mutex[d]
            /\ pc[io_mutex[d]] \in Writing /\ io_mutex[d] # None
        BY <4>1 DEF Devices, Content
      <4>3. io_mutex[d] \in Proc
        BY <2>1, <4>2
      <4> QED
        BY <1>1, <1>3, <4>1, <4>2, <4>3 DEF Writing, Holding
    <3> QED
      BY <3>2, <3>3
  <2> QED
    BY <2>4, <2>5, <2>6, <2>7 DEF Devices
<1> QED
  BY <1>1, <1>2, <1>3

(* The release frees the buffer of the struct, so that there is nothing in  *)
(* it when the mutex is given back.                                         *)
LEMMA ReleaseFreeKeepsDevices ==
  ASSUME DeviceTypes, Devices, NEW p \in Proc, ReleaseFree(p)
  PROVE  Devices'
<1> DEFINE f == file[p]
           b == bulkout_buffer[f]
<1>1. /\ UNCHANGED <<live, bulkout_buffer, io_mutex, data, intfdata, latest,
                     file>>
      /\ pc[p] = "release" /\ pc'[p] \in {"undefined", "unlock"}
      /\ \A q \in Proc \ {p} : pc'[q] = pc[q]
      /\ \/ /\ heap' = heap /\ ~(Live(f) /\ BufferLive(f))
         \/ heap' = [heap EXCEPT ![b] = "freed"]
  BY DEF ReleaseFree, Goto, hubVars, dev, DeviceTypes, BufferOf, BufferLive
<1>2. /\ bulkout_buffer \in [Dev -> Proc \cup {None}]
      /\ io_mutex \in [Dev -> Proc \cup {None}]
      /\ heap \in [Proc -> {"none", "live", "freed"}]
  BY DEF DeviceTypes, MemoryTypes
<1>3. OneLive'
  BY <1>1 DEF OneLive, Devices, Live, Holding
<1>4. Fresh' /\ BufferFile' /\ MutexFile'
  BY <1>1, <1>2 DEF Devices, Fresh, BufferFile, MutexFile, Early
<1>5. Content'
  <2> SUFFICES ASSUME NEW d \in Dev, live[d], BufferLive(d)',
                      data[BufferOf(d)][1] # None
               PROVE  /\ data[BufferOf(d)][1] = io_mutex[d]
                      /\ pc'[io_mutex[d]] \in Writing
    BY <1>1 DEF Content, BufferOf
  <2>1. BufferOf(d) \in Proc /\ heap'[BufferOf(d)] = "live"
    BY <1>1, <1>2 DEF BufferLive, BufferOf
  <2>2. heap[BufferOf(d)] = "live" /\ BufferLive(d)
    BY <1>1, <1>2, <2>1 DEF BufferLive, BufferOf
  <2>3. ~(Live(f) /\ BufferLive(f)) \/ d # f
    BY <1>1, <1>2, <2>1 DEF BufferOf
  <2>4. /\ data[BufferOf(d)][1] = io_mutex[d]
        /\ pc[io_mutex[d]] \in Writing /\ io_mutex[d] # None
    BY <2>2 DEF Devices, Content
  <2>5. io_mutex[d] \in Proc /\ file[io_mutex[d]] = d
    BY <1>2, <2>4 DEF Devices, MutexFile
  <2>6. io_mutex[d] # p
    BY <2>2, <2>3, <2>5 DEF Live
  <2> QED
    BY <1>1, <2>4, <2>5, <2>6
<1> QED
  BY <1>3, <1>4, <1>5 DEF Devices

LEMMA ReleaseUnlockKeepsDevices ==
  ASSUME DeviceTypes, Devices, NEW p \in Proc, ReleaseUnlock(p)
  PROVE  Devices'
<1> DEFINE f == file[p]
<1>1. /\ UNCHANGED <<live, bulkout_buffer, heap, data, intfdata, latest, file>>
      /\ pc[p] = "unlock" /\ pc'[p] \in {"undefined", "done"}
      /\ \A q \in Proc \ {p} : pc'[q] = pc[q]
      /\ \/ io_mutex' = io_mutex
         \/ /\ Live(f) /\ io_mutex' = [io_mutex EXCEPT ![f] = None]
  BY DEF ReleaseUnlock, Goto, hubVars, DeviceTypes
<1>2. io_mutex \in [Dev -> Proc \cup {None}] /\ None \notin Proc
  BY DEF DeviceTypes, MemoryTypes
<1>3. Live(f) => f \in Dev /\ io_mutex[f] = p
  BY <1>1 DEF Devices, OneLive, Live, Holding
<1>4. /\ \A d \in Dev : io_mutex'[d] \in {io_mutex[d], None}
      /\ \A d \in Dev : io_mutex[d] # p => io_mutex'[d] = io_mutex[d]
  BY <1>1, <1>2, <1>3
<1> HIDE DEF f
<1>5. OneLive'
  <2> SUFFICES ASSUME NEW q \in Proc, pc'[q] \in Holding, Live(file[q])
               PROVE  io_mutex'[file[q]] = q
    BY <1>1 DEF OneLive, Devices, Live
  <2>1. q # p /\ pc[q] \in Holding
    BY <1>1 DEF Holding
  <2>2. io_mutex[file[q]] = q /\ file[q] \in Dev
    BY <2>1 DEF Devices, OneLive, Live
  <2> QED
    BY <1>4, <2>1, <2>2
<1>6. Fresh' /\ BufferFile'
  BY <1>1 DEF Devices, Fresh, BufferFile, Early
<1>7. MutexFile'
  BY <1>1, <1>2, <1>4 DEF Devices, MutexFile, Early
<1>8. Content'
  <2> SUFFICES ASSUME NEW d \in Dev, live[d], BufferLive(d),
                      data[BufferOf(d)][1] # None
               PROVE  /\ data[BufferOf(d)][1] = io_mutex'[d]
                      /\ pc'[io_mutex'[d]] \in Writing
    BY <1>1 DEF Content, BufferLive, BufferOf
  <2>1. /\ data[BufferOf(d)][1] = io_mutex[d]
        /\ pc[io_mutex[d]] \in Writing /\ io_mutex[d] # None
    BY DEF Devices, Content
  <2>2. io_mutex[d] \in Proc \ {p}
    BY <1>1, <1>2, <2>1 DEF Writing, Holding
  <2> QED
    BY <1>1, <1>4, <2>1, <2>2
<1> QED
  BY <1>5, <1>6, <1>7, <1>8 DEF Devices

LEMMA DevicesKept ==
  ASSUME IInv, CorePointer, Devices, Next
  PROVE  Devices'
<1>1. CASE Plug \/ Unplug \/ Hub
  BY <1>1, CoreKeepsDevices
<1>2. ASSUME NEW p \in Proc, Tool(p) PROVE Devices'
  BY <1>2, DeviceTyped, LibWalks, WhoMoves, MovesKeepDevices,
       OpenFindKeepsDevices,
     OpenAllocKeepsDevices, OpenTrylockKeepsDevices, WriteCopyKeepsDevices,
     ReleaseFreeKeepsDevices, ReleaseUnlockKeepsDevices DEF Tool
<1> QED
  BY <1>1, <1>2 DEF Next

LEMMA ClaimsKept ==
  ASSUME IInv, CorePointer, Claims, Next
  PROVE  Claims'
<1>1. /\ pc \in [Proc -> Pcs] /\ None \notin Proc
      /\ CoreTypes
  BY TypesInParts, Constants DEF IInv, ProcTypes
<1> USE DEF hubVars, memory, dev, procVars, usbfs, Claims
<1>2. CASE Unplug
  BY <1>2 DEF Unplug
<1>3. CASE Plug \/ Hub
  BY <1>3 DEF Plug, Hub, ProbeAlloc, ProbeRegister, ProbeSetData,
              ProbeMutexInit, DisconnectFree, DisconnectDeregister
<1>4. ASSUME NEW p \in Proc, Tool(p) PROVE Claims'
  <2> USE DEF Goto, Fail, GoOn, TakeAway, Unbound
  <2>1. CASE \/ StartOpen(p) \/ OpenFind(p) \/ OpenAlloc(p)
             \/ OpenTrylock(p) \/ WriteCopy(p)
    BY <1>1, <2>1
    DEF StartOpen, OpenFind, OpenAlloc, OpenTrylock, WriteCopy
  <2>2. CASE WriteBulk(p) \/ ReleaseFree(p) \/ ReleaseUnlock(p)
    BY <1>1, <2>2 DEF WriteBulk, ReleaseFree, ReleaseUnlock
  <2>3. CASE LibOpen(p)
    BY <1>1, <2>3 DEF LibOpen
  <2>4. CASE LibDetach(p)
    BY <1>1, <2>4 DEF LibDetach
  <2>5. CASE LibReset(p)
    BY <1>1, <2>5 DEF LibReset
  <2>6. CASE LibConfigure(p)
    BY <1>1, <2>6 DEF LibConfigure
  <2>7. CASE LibClaim(p)
    BY <1>1, <2>7 DEF LibClaim
  <2>8. CASE LibWrite(p)
    BY <1>1, <2>8 DEF LibWrite
  <2>9. CASE LibClose(p)
    BY <1>1, <2>9 DEF LibClose
  <2> QED
    BY <1>4, <2>1, <2>2, <2>3, <2>4, <2>5, <2>6, <2>7, <2>8, <2>9 DEF Tool
<1> QED
  BY <1>2, <1>3, <1>4 DEF Next

(* Once a process writes no more, it never writes again; once it is past    *)
(* opening, it never is before it again.                                    *)
Onward == \A q \in Proc : /\ Over(q) => Over(q)'
                          /\ pc[q] \notin Before => pc'[q] \notin Before

LEMMA CoreGoesOnward ==
  ASSUME IInv, CorePointer, OneLive, Plug \/ Unplug \/ Hub
  PROVE  Onward
<1>1. /\ UNCHANGED <<pc, file>>
      /\ \A d \in Dev : d <= latest /\ live'[d] => live[d]
  BY CoreStep
<1>2. taken' = taken /\ handles' \subseteq handles
  BY DEF Plug, Unplug, Hub, ProbeAlloc, ProbeRegister, ProbeSetData,
         ProbeMutexInit, DisconnectFree, DisconnectDeregister, usbfs
<1> SUFFICES ASSUME NEW q \in Proc, Over(q) PROVE Over(q)'
  BY <1>1 DEF Onward
<1>3. Live(file[q])' => Live(file[q])
  BY <1>1 DEF Live, OneLive
<1> QED
  BY <1>1, <1>2, <1>3 DEF Over

LEMMA ToolUsbfs ==
  ASSUME NEW p \in Proc, Tool(p)
  PROVE  /\ taken \subseteq taken'
         /\ \A q \in Proc : q \in handles' /\ (q # p \/ pc[p] # "lib") =>
                               q \in handles
<1> USE DEF usbfs, Fail, GoOn, TakeAway
<1>1. CASE LibOpen(p)
  BY <1>1 DEF LibOpen
<1>2. CASE LibDetach(p) \/ LibReset(p) \/ LibConfigure(p)
  BY <1>2 DEF LibDetach, LibReset, LibConfigure
<1>3. CASE LibClaim(p) \/ LibWrite(p) \/ LibClose(p)
  BY <1>3 DEF LibClaim, LibWrite, LibClose
<1>4. CASE UNCHANGED usbfs
  BY <1>4
<1> QED
  BY <1>1, <1>2, <1>3, <1>4
  DEF Tool, StartOpen, OpenFind, OpenAlloc, OpenTrylock, WriteCopy,
      WriteBulk, ReleaseFree, ReleaseUnlock

LEMMA ToolGoesOnward ==
  ASSUME DeviceTypes, NEW p \in Proc, Tool(p)
  PROVE  Onward
<1>1. UNCHANGED live /\ \A q \in Proc \ {p} : pc'[q] = pc[q] /\
                                              file'[q] = file[q]
  BY LibWalks
  DEF Tool, StartOpen, OpenFind, OpenAlloc, OpenTrylock, WriteCopy,
      WriteBulk, ReleaseFree, ReleaseUnlock, LibWrite, LibWalk,
      Goto, hubVars, memory, dev, DeviceTypes
<1>2. /\ taken \subseteq taken'
      /\ \A q \in Proc : q \in handles' /\ (q # p \/ pc[p] # "lib") =>
                             q \in handles
  BY ToolUsbfs
<1>3. ASSUME NEW q \in Proc \ {p}
      PROVE  /\ Over(q) => Over(q)'
             /\ pc[q] \notin Before => pc'[q] \notin Before
  BY <1>1, <1>2 DEF Over, Live
<1>4. Over(p) => Over(p)'
  <2>1. CASE /\ pc[p] \in {"copy", "bulk"} /\ ~Live(file[p])
             /\ WriteCopy(p) \/ WriteBulk(p)
    BY <2>1 DEF WriteCopy, WriteBulk, Goto, Over, DeviceTypes
  <2>2. CASE /\ pc[p] \in {"libwrite", "stalled"} /\ p \notin handles
             /\ LibWrite(p)
    BY <2>2 DEF LibWrite, Goto, Over, DeviceTypes
  <2>3. CASE /\ pc[p] \in {"release", "unlock", "libclose"}
             /\ ReleaseFree(p) \/ ReleaseUnlock(p) \/ LibClose(p)
    BY <2>3
    DEF ReleaseFree, ReleaseUnlock, LibClose, Goto, Over, DeviceTypes
  <2>4. CASE p \in taken
    BY <1>2, <2>4 DEF Over
  <2> QED
    BY <2>1, <2>2, <2>3, <2>4
    DEF Over, Tool, StartOpen, OpenFind, OpenAlloc, OpenTrylock, WriteCopy,
        WriteBulk, ReleaseFree, ReleaseUnlock, LibOpen, LibDetach, LibReset,
        LibConfigure, LibClaim, LibWrite, LibClose
<1>5. pc[p] \notin Before => pc'[p] \notin Before
  <2>1. CASE /\ pc[p] \notin Before
             /\ \/ WriteCopy(p) \/ WriteBulk(p) \/ ReleaseFree(p)
                \/ ReleaseUnlock(p) \/ LibWrite(p) \/ LibClose(p)
    BY <2>1
    DEF WriteCopy, WriteBulk, ReleaseFree, ReleaseUnlock, LibWrite, LibClose,
        Goto, Before, Early, DeviceTypes
  <2> QED
    BY <2>1
    DEF Before, Early, Tool, StartOpen, OpenFind, OpenAlloc, OpenTrylock,
        LibOpen, LibDetach, LibReset, LibConfigure, LibClaim
<1> QED
  BY <1>3, <1>4, <1>5 DEF Onward

LEMMA WireOwners ==
  SeenTypes =>
      \A i \in DOMAIN wire : wire[i][1] # None => wire[i][1] \in Proc
<1> SUFFICES ASSUME SeenTypes, NEW i \in DOMAIN wire, wire[i][1] # None
             PROVE  wire[i][1] \in Proc
  OBVIOUS
<1>1. wire \in Seq((Proc \cup {None}) \X Block)
  BY DEF SeenTypes
<1>2. wire[i] \in (Proc \cup {None}) \X Block
  BY <1>1, ElementOfSeq, LenProperties
<1> QED
  BY <1>2

(* A step that puts nothing on the wire.                                    *)
LEMMA NothingMixed ==
  ASSUME SeenTypes, Unmixedness, Onward, wire' = wire, taken \subseteq taken'
  PROVE  Unmixedness'
<1>1. \A i \in DOMAIN wire : wire[i][1] # None => wire[i][1] \in Proc
  BY WireOwners
<1>2. OnTheWire'
  BY <1>1 DEF Unmixedness, OnTheWire, Onward
<1>3. Followed'
  <2> SUFFICES ASSUME NEW i \in DOMAIN wire, NEW j \in DOMAIN wire, i < j,
                      wire[i][1] # wire[j][1],
                      None \notin {wire[i][1], wire[j][1]}
               PROVE  Over(wire[i][1])'
    BY DEF Followed
  <2>1. Over(wire[i][1]) /\ wire[i][1] \in Proc
    BY <1>1 DEF Unmixedness, Followed
  <2> QED
    BY <2>1 DEF Onward
<1>4. Unmixed3(wire', taken')
  BY DEF Unmixedness, Unmixed3
<1> QED
  BY <1>2, <1>3, <1>4 DEF Unmixedness

(* A block of a process p, or of nobody, arrives: p is not through, and     *)
(* everybody else who has blocks on the wire is.                            *)
LEMMA OneBlockMore ==
  ASSUME SeenTypes, Unmixedness, Onward, taken \subseteq taken',
         NEW p \in Proc, NEW b,
         wire' = Append(wire, b), b \in (Proc \cup {None}) \X Block,
         b[1] \in {p, None}, ~Over(p) \/ p \in taken, pc'[p] \notin Before,
         \A q \in Proc \ {p} : pc[q] \notin Before => Over(q)
  PROVE  Unmixedness'
<1> DEFINE L == Len(wire)
<1>1. /\ L \in Nat /\ DOMAIN wire = 1..L /\ DOMAIN wire' = 1..(L + 1)
      /\ \A i \in 1..L : wire'[i] = wire[i]
      /\ wire'[L + 1] = b
  <2>1. wire \in Seq((Proc \cup {None}) \X Block)
    BY DEF SeenTypes
  <2> QED
    BY <2>1, AppendProperties, LenProperties
<1>2. \A i \in DOMAIN wire : wire[i][1] # None => wire[i][1] \in Proc
  BY WireOwners
<1> HIDE DEF L
<1>3. OnTheWire'
  <2> SUFFICES ASSUME NEW i \in DOMAIN wire', wire'[i][1] # None
               PROVE  pc'[wire'[i][1]] \notin Before
    BY DEF OnTheWire
  <2>1. CASE i \in 1..L
    BY <1>1, <1>2, <2>1 DEF Unmixedness, OnTheWire, Onward
  <2>2. CASE i = L + 1
    BY <1>1, <2>2
  <2> QED
    BY <1>1, <2>1, <2>2
<1>4. Followed'
  <2> SUFFICES ASSUME NEW i \in DOMAIN wire', NEW j \in DOMAIN wire', i < j,
                      wire'[i][1] # wire'[j][1],
                      None \notin {wire'[i][1], wire'[j][1]},
                      NEW q, q = wire'[i][1]
               PROVE  Over(q)'
    BY DEF Followed, Over
  <2>1. i \in 1..L /\ wire[i][1] = q /\ q \in Proc
    BY <1>1, <1>2
  <2>2. Over(q)
    <3>1. CASE j \in 1..L
      BY <1>1, <2>1, <3>1 DEF Unmixedness, Followed
    <3>2. CASE j = L + 1
      <4>1. q # p
        BY <1>1, <2>1, <3>2
      <4>2. pc[q] \notin Before
        BY <1>1, <2>1 DEF Unmixedness, OnTheWire
      <4> QED
        BY <2>1, <4>1, <4>2
    <3> QED
      BY <1>1, <3>1, <3>2
  <2> QED
    BY <2>1, <2>2 DEF Onward
<1>5. Unmixed3(wire', taken')
  <2> SUFFICES ASSUME NEW i \in DOMAIN wire', NEW j \in DOMAIN wire',
                      NEW k \in DOMAIN wire', i < j, j < k,
                      wire'[i][1] = wire'[k][1],
                      None \notin {wire'[i][1], wire'[j][1]},
                      wire'[i][1] \notin taken
               PROVE  wire'[j][1] = wire'[i][1]
    BY DEF Unmixed3
  <2>1. /\ i \in 1..L /\ wire'[i] = wire[i]
        /\ j \in 1..L /\ wire'[j] = wire[j]
    BY <1>1
  <2>2. CASE k \in 1..L
    BY <1>1, <2>1, <2>2 DEF Unmixedness, Unmixed3
  <2>3. CASE k = L + 1
    <3>1. wire[i][1] = p
      BY <1>1, <2>1, <2>3
    <3>2. wire[j][1] # p => Over(p)
      BY <1>1, <2>1, <3>1 DEF Unmixedness, Followed
    <3>3. p \notin taken
      BY <2>1, <3>1
    <3> QED
      BY <2>1, <3>1, <3>2, <3>3
  <2> QED
    BY <1>1, <2>2, <2>3
<1> QED
  BY <1>3, <1>4, <1>5 DEF Unmixedness

(* A process that writes through the driver holds the mutex of the struct   *)
(* the core points to, and one that writes through libusb has the claim, so *)
(* that nobody else writes whose claim has not been taken away.             *)
LEMMA WriterIsAlone ==
  ASSUME DeviceTypes, CorePointer, Devices, Claims, NEW p \in Proc,
         \/ pc[p] = "bulk" /\ Live(file[p])
         \/ p \in handles /\ ~minor /\ claimed \in {p, None},
         NEW q \in Proc \ {p}, pc[q] \notin Before
  PROVE  Over(q)
<1>1. /\ pc \in [Proc -> Pcs] /\ None \notin Proc /\ intfdata \in Nat
      /\ hub \in HubPcs
  BY DEF DeviceTypes, CoreTypes
<1>2. \A r \in Proc : Live(file[r]) => file[r] = intfdata /\ intfdata # 0
  BY DEF Devices, OneLive, Live, Dev
<1>3. claimed # None => intfdata = 0
  BY DEF CorePointer
<1>4. p \in handles /\ ~minor => intfdata = 0
  BY <1>1 DEF CorePointer, HubPcs, Probing
<1>5. pc[q] \in {"copy", "bulk"} => ~Live(file[q])
  <2> SUFFICES ASSUME pc[q] \in {"copy", "bulk"}, Live(file[q]) PROVE FALSE
    OBVIOUS
  <2>1. io_mutex[file[q]] = q /\ file[q] = intfdata /\ intfdata # 0
    BY <1>2 DEF Devices, OneLive, Holding
  <2>2. pc[p] = "bulk" /\ Live(file[p])
    BY <1>4, <2>1
  <2>3. io_mutex[file[p]] = p /\ file[p] = intfdata
    BY <1>2, <2>2 DEF Devices, OneLive, Holding
  <2> QED
    BY <2>1, <2>3
<1>6. pc[q] \in {"libwrite", "stalled"} /\ q \in handles => q \in taken
  <2> SUFFICES ASSUME claimed = q PROVE FALSE
    BY DEF Claims
  <2> QED
    BY <1>1, <1>2, <1>3
<1>7. pc[q] \in {"copy", "bulk", "libwrite", "stalled", "release", "unlock",
                 "spinning", "libclose", "done", "undefined"}
  BY <1>1 DEF Pcs, Before, Early
<1> QED
  BY <1>5, <1>6, <1>7 DEF Over

LEMMA UnmixednessKept ==
  ASSUME IInv, CorePointer, Devices, Claims, Unmixedness, Next
  PROVE  Unmixedness'
<1>1. SeenTypes /\ DeviceTypes
  BY TypesInParts, DeviceTyped DEF IInv
<1>2. CASE Plug \/ Unplug \/ Hub
  <2>1. wire' = wire
    BY <1>2, CoreStep
  <2>2. taken' = taken
    BY <1>2 DEF Plug, Unplug, Hub, ProbeAlloc, ProbeRegister, ProbeSetData,
                ProbeMutexInit, DisconnectFree, DisconnectDeregister, usbfs
  <2> QED
    BY <1>1, <1>2, <2>1, <2>2, CoreGoesOnward, NothingMixed DEF Devices
<1>3. ASSUME NEW p \in Proc, Tool(p) PROVE Unmixedness'
  <2>1. Onward /\ taken \subseteq taken'
    BY <1>1, <1>3, ToolGoesOnward, ToolUsbfs
  <2>2. CASE wire' = wire
    BY <1>1, <2>1, <2>2, NothingMixed
  <2>3. CASE /\ WriteBulk(p) /\ Live(file[p]) /\ BufferLive(file[p])
             /\ wire' = Append(wire, data[BufferOf(file[p])])
    <3> DEFINE b == data[BufferOf(file[p])]
    <3>1. pc[p] = "bulk" /\ pc'[p] \notin Before /\ (~Over(p) \/ p \in taken)
      BY <1>1, <2>3
      DEF WriteBulk, Goto, Before, Early, Over, DeviceTypes
    <3>2. /\ file[p] \in Dev /\ live[file[p]] /\ BufferOf(file[p]) \in Proc
          /\ io_mutex[file[p]] = p
      BY <1>1, <2>3, <3>1
      DEF Live, BufferLive, BufferOf, DeviceTypes, MemoryTypes, Devices,
          OneLive, Holding
    <3>3. b[1] \in {p, None} /\ b \in (Proc \cup {None}) \X Block
      <4>1. b[1] = None \/ b[1] = io_mutex[file[p]]
        BY <2>3, <3>2 DEF Devices, Content
      <4>2. b \in (Proc \cup {None}) \X Block
        BY <1>1, <3>2 DEF DeviceTypes, MemoryTypes
      <4> QED
        BY <3>2, <4>1, <4>2
    <3>4. \A q \in Proc \ {p} : pc[q] \notin Before => Over(q)
      BY <1>1, <2>3, <3>1, WriterIsAlone
    <3>5. wire' = Append(wire, b)
      BY <2>3
    <3> HIDE DEF b
    <3> QED
      BY <1>1, <2>1, <3>1, <3>3, <3>4, <3>5, OneBlockMore
  <2>4. CASE /\ LibWrite(p)
             /\ p \in handles /\ ~minor /\ claimed \in {p, None}
             /\ wire' = Append(wire, <<p, sent[p] + 1>>)
    <3> DEFINE b == <<p, sent[p] + 1>>
    <3>1. /\ pc[p] \in {"libwrite", "stalled"} /\ pc'[p] \notin Before
          /\ ~Over(p) \/ p \in taken
      BY <1>1, <2>4
      DEF LibWrite, Goto, Before, Early, Over, DeviceTypes
    <3>2. b[1] \in {p, None} /\ b \in (Proc \cup {None}) \X Block
      <4>1. sent[p] \in Block /\ sent[p] < Image
        BY <3>1, TypesInParts DEF IInv, SentInRange, ProcTypes
      <4> QED
        BY <4>1, Constants DEF Block
    <3>3. \A q \in Proc \ {p} : pc[q] \notin Before => Over(q)
      BY <1>1, <2>4, <3>1, WriterIsAlone
    <3>4. wire' = Append(wire, b)
      BY <2>4
    <3> HIDE DEF b
    <3> QED
      BY <1>1, <2>1, <3>1, <3>2, <3>3, <3>4, OneBlockMore
  <2>5. CASE LibWrite(p)
    BY <2>2, <2>4, <2>5 DEF LibWrite
  <2>6. CASE WriteBulk(p)
    BY <2>2, <2>3, <2>6 DEF WriteBulk
  <2> QED
    BY <1>3, <2>2, <2>5, <2>6
    DEF Tool, StartOpen, OpenFind, OpenAlloc, OpenTrylock, WriteCopy,
        ReleaseFree, ReleaseUnlock, LibOpen, LibDetach, LibReset,
        LibConfigure, LibClaim, LibClose
<1> QED
  BY <1>2, <1>3 DEF Next

Apartness == Punctual => CorePointer /\ Devices /\ Claims /\ Unmixedness

LEMMA UnmixedAlways == Spec => []Apartness
<1>1. Init => Apartness
  <2> SUFFICES ASSUME Init
               PROVE  CorePointer /\ Devices /\ Claims /\ Unmixedness
    BY DEF Apartness
  <2>1. CorePointer
    BY DEF Init, CorePointer, Probing
  <2>2. Devices /\ Claims
    BY Constants
    DEF Init, Devices, OneLive, Live, Fresh, BufferFile, MutexFile, Content,
        BufferLive, Dev, Holding, Claims
  <2>3. DOMAIN wire = {}
    BY DEF Init
  <2>4. Unmixedness
    BY <2>3 DEF Unmixedness, OnTheWire, Followed, Unmixed3
  <2> QED
    BY <2>1, <2>2, <2>4
<1>2. IInv /\ Apartness /\ [Next]_vars => Apartness'
  <2>1. CASE UNCHANGED vars
    BY <2>1
    DEF vars, hubVars, memory, dev, procVars, usbfs, Apartness, Punctual,
        CorePointer, Devices, OneLive, Live, Fresh, BufferFile, MutexFile,
        Content, BufferLive, BufferOf, Claims, Unmixedness, OnTheWire,
        Followed, Over, Unmixed3
  <2>2. CASE Next
    BY <2>2, PunctualStays, PointerKept, DevicesKept, ClaimsKept,
       UnmixednessKept DEF Apartness, Devices
  <2> QED
    BY <2>1, <2>2
<1> QED
  BY <1>1, <1>2, Always, PTL DEF Spec

(* Unless an open came before mutex_init: whatever is opened twice, pulled  *)
(* out or taken from the driver meanwhile, the device never receives blocks *)
(* of a second image between two blocks of a first, or else the process of  *)
(* the first lost its claim to the detach of another.                       *)
THEOREM Unmixed == Spec => []ImagesDoNotMix
<1>1. Apartness => ImagesDoNotMix
  BY DEF Apartness, Punctual, Unmixedness, Unmixed3, ImagesDoNotMix
<1> QED
  BY <1>1, UnmixedAlways, PTL
=============================================================================
