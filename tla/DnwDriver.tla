----------------------------- MODULE DnwDriver -----------------------------
(***************************************************************************)
(* The USB download driver (Linux_Dnw/kernel/dnw.c) and the processes that *)
(* run the download tool (Linux_Dnw/app/main.c) on it.                     *)
(*                                                                         *)
(* A device is plugged in, probed, used and pulled out.  Every plug-in     *)
(* makes a new struct dnwbulk_dev, named by its number.  A process opens   *)
(* the driver, writes its image block by block and closes it; when the     *)
(* driver refuses, it takes the device away from whoever has it, driver or *)
(* process, and writes through libusb.  A process runs the tool once, so   *)
(* that it names the buffer its open allocates as well.                    *)
(*                                                                         *)
(* A block is what one transfer takes: a short write of libusb makes two   *)
(* blocks of one.  What arrives of a transfer that fails is not counted.   *)
(*                                                                         *)
(* A step that touches memory that is not there or is freed ends in        *)
(* the place "undefined", after which the model says nothing more.         *)
(***************************************************************************)
EXTENDS Naturals, Sequences, FiniteSets

CONSTANTS Proc,    \* the processes that run the tool
          Image,   \* the blocks of a process's image
          Plugs,   \* bound: how often the device is plugged in
          None     \* no process, no buffer

ASSUME DnwAssumption == /\ Image \in Nat \ {0}
                        /\ Plugs \in Nat
                        /\ None \notin Proc

VARIABLES
    plugged,    \* the device is in its socket
    hub,        \* where the USB core is in dnwbulk_probe or _disconnect
    minor,      \* the minor number is registered
    intfdata,   \* usb_get_intfdata: a device number, 0 is NULL
    latest,     \* the number of the last struct, 0 before the first
    live,       \* per struct: allocated and not freed
    bulkout_buffer, io_mutex,  \* per struct: the buffer, the mutex's holder
    heap, data, \* per buffer: "none", "live" or "freed"; its content
    pc, file,   \* per process: its place, file->private_data
    sent,       \* per process: blocks written (total - remain)
    result,     \* per process: what the tool says at its end
    claimed,    \* the process that claimed the interface through usbfs
    handles,    \* the processes that have opened the device there now
    taken,      \* history: the processes that lost their claim to another
    wire,       \* what arrived at the devices: <<owner, block>>
    mishaps     \* history: what went on that the driver is not made for

hubVars  == <<plugged, hub, minor, intfdata, latest>>
dev      == <<live, bulkout_buffer, io_mutex>>
memory   == <<dev, heap, data>>
procVars == <<pc, file, sent, result>>
usbfs    == <<claimed, handles, taken>>
vars == <<hubVars, memory, procVars, usbfs, wire, mishaps>>

Dev    == 1..Plugs
Block  == 0..Image                       \* block 0 is a zeroed buffer
HubPcs == {"idle", "probe", "register", "setdata", "mutexinit", "free",
           "deregister"}
Pcs    == {"start", "find", "alloc", "trylock", "copy", "bulk", "release",
           "unlock", "spinning", "lib", "detach", "reset", "configure",
           "claim", "libwrite", "stalled", "libclose", "done", "undefined"}
Results  == {"none", "ok", "failed"}
Mishaps  == {"in use", "twice", "early"}

\* In dnwbulk_open: usb_open holds the lock of the minor numbers meanwhile.
Opening == {"find", "alloc", "trylock"}
\* Between a successful open and the end of the release.
Holding == {"copy", "bulk", "spinning", "release", "unlock"}

DnwTypeOK ==
    /\ plugged \in BOOLEAN /\ hub \in HubPcs /\ minor \in BOOLEAN
    /\ intfdata \in 0..Plugs /\ latest \in 0..Plugs
    /\ live \in [Dev -> BOOLEAN]
    /\ bulkout_buffer \in [Dev -> Proc \cup {None}]
    /\ io_mutex \in [Dev -> Proc \cup {None}]
    /\ heap \in [Proc -> {"none", "live", "freed"}]
    /\ data \in [Proc -> (Proc \cup {None}) \X Block]
    /\ pc \in [Proc -> Pcs]
    /\ file \in [Proc -> 0..Plugs]
    /\ sent \in [Proc -> Block]
    /\ result \in [Proc -> Results]
    /\ claimed \in Proc \cup {None}
    /\ handles \subseteq Proc /\ taken \subseteq Proc
    /\ wire \in Seq((Proc \cup {None}) \X Block)
    /\ mishaps \subseteq Mishaps

Init ==
    /\ plugged = FALSE /\ hub = "idle" /\ minor = FALSE /\ intfdata = 0
    /\ latest = 0 /\ live = [d \in Dev |-> FALSE]
    /\ bulkout_buffer = [d \in Dev |-> None]
    /\ io_mutex = [d \in Dev |-> None]
    /\ heap = [p \in Proc |-> "none"] /\ data = [p \in Proc |-> <<None, 0>>]
    /\ pc = [p \in Proc |-> "start"]
    /\ file = [p \in Proc |-> 0]
    /\ sent = [p \in Proc |-> 0]
    /\ result = [p \in Proc |-> "none"]
    /\ claimed = None /\ handles = {} /\ taken = {}
    /\ wire = << >> /\ mishaps = {}
-----------------------------------------------------------------------------
(* The USB core: it probes, and disconnects when the device is pulled out  *)
(* or taken from the driver.                                               *)

NobodyOpening == \A p \in Proc : pc[p] \notin Opening

Plug ==
    /\ ~plugged /\ hub = "idle" /\ latest < Plugs
    /\ plugged' = TRUE /\ hub' = "probe"
    /\ UNCHANGED <<minor, intfdata, latest, memory, procVars, usbfs, wire,
                   mishaps>>

\* kzalloc of the struct, the search for an endpoint, and the error path,
\* which frees nothing: the struct is either not there or lost.
ProbeAlloc ==
    /\ hub = "probe"
    /\ latest' = latest + 1
    /\ \/ live' = [live EXCEPT ![latest + 1] = TRUE]
          /\ hub' \in {"register", "idle"}
       \/ live' = live /\ hub' = "idle"
    /\ UNCHANGED <<plugged, minor, intfdata, bulkout_buffer, io_mutex, heap,
                   data, procVars, usbfs, wire, mishaps>>

\* usb_register_dev, which may fail
ProbeRegister ==
    /\ hub = "register" /\ NobodyOpening
    /\ \/ minor' = TRUE /\ hub' = "setdata"
       \/ minor' = minor /\ hub' = "idle"
    /\ UNCHANGED <<plugged, intfdata, latest, memory, procVars, usbfs, wire,
                   mishaps>>

\* usb_set_intfdata, until which the pointer is NULL, ...
ProbeSetData ==
    /\ hub = "setdata"
    /\ intfdata' = latest /\ hub' = "mutexinit"
    /\ UNCHANGED <<plugged, minor, latest, memory, procVars, usbfs, wire,
                   mishaps>>

\* ... and mutex_init, whoever has locked the zeroed mutex by then.
ProbeMutexInit ==
    /\ hub = "mutexinit"
    /\ io_mutex' = [io_mutex EXCEPT ![latest] = None] /\ hub' = "idle"
    /\ UNCHANGED <<plugged, minor, intfdata, latest, live, bulkout_buffer,
                   heap, data, procVars, usbfs, wire, mishaps>>

Unplug ==
    /\ plugged /\ hub = "idle"
    /\ plugged' = FALSE /\ claimed' = None /\ handles' = {}
    /\ hub' = IF minor THEN "free" ELSE "idle"
    /\ UNCHANGED <<minor, intfdata, latest, memory, procVars, taken, wire,
                   mishaps>>

\* dnwbulk_disconnect: kfree(dev), whoever uses it, ...
DisconnectFree ==
    /\ hub = "free"
    /\ live' = [live EXCEPT ![intfdata] = FALSE]
    /\ mishaps' = IF \E p \in Proc : /\ file[p] = intfdata
                                     /\ pc[p] \in Opening \cup Holding
                  THEN mishaps \cup {"in use"} ELSE mishaps
    /\ hub' = "deregister"
    /\ UNCHANGED <<plugged, minor, intfdata, latest, bulkout_buffer, io_mutex,
                   heap, data, procVars, usbfs, wire>>

\* ... and only then usb_deregister_dev; the core forgets the pointer.
DisconnectDeregister ==
    /\ hub = "deregister" /\ NobodyOpening
    /\ minor' = FALSE /\ intfdata' = 0 /\ hub' = "idle"
    /\ UNCHANGED <<plugged, latest, memory, procVars, usbfs, wire, mishaps>>

Hub == \/ ProbeAlloc \/ ProbeRegister \/ ProbeSetData \/ ProbeMutexInit
       \/ DisconnectFree \/ DisconnectDeregister
-----------------------------------------------------------------------------
(* The file operations of the driver, called by the tool.                  *)

Goto(p, place) == pc' = [pc EXCEPT ![p] = place]
Live(d) == d \in Dev /\ live[d]
BufferOf(d) == bulkout_buffer[d]
BufferLive(d) == BufferOf(d) # None /\ heap[BufferOf(d)] = "live"

\* open("/dev/dnwbulk0"): usb_open finds no minor, or calls dnwbulk_open
StartOpen(p) ==
    /\ pc[p] = "start"
    /\ Goto(p, IF minor THEN "find" ELSE "lib")
    /\ UNCHANGED <<hubVars, memory, file, sent, result, usbfs, wire,
                   mishaps>>

\* usb_find_interface, which finds an interface as soon as its probe and as
\* long as its disconnect has not returned, and usb_get_intfdata, whose
\* result is not tested
OpenFind(p) ==
    /\ pc[p] = "find"
    /\ file' = [file EXCEPT ![p] = intfdata]
    /\ mishaps' = mishaps \cup CASE hub = "setdata"    -> {"early"}
                                 [] hub = "deregister" -> {"in use"}
                                 [] OTHER              -> {}
    /\ Goto(p, "alloc")
    /\ UNCHANGED <<hubVars, memory, sent, result, usbfs, wire>>

(* Mutant: a failed kzalloc is not noticed. *)
OpenAllocUnchecked(p) ==
    /\ pc[p] = "alloc"
    /\ LET d == file[p] IN
       \E b \in {p, None} :
         IF ~Live(d)
         THEN Goto(p, "undefined") /\ UNCHANGED <<bulkout_buffer, heap>>
         ELSE /\ bulkout_buffer' = [bulkout_buffer EXCEPT ![d] = b]
              /\ heap' = [heap EXCEPT ![p] =
                                         IF b = p THEN "live" ELSE "none"]
              /\ Goto(p, "trylock")
    /\ UNCHANGED <<hubVars, live, io_mutex, data, file, sent, result, usbfs,
                   wire, mishaps>>

\* The new buffer replaces the one of whoever has the device open.
OpenAlloc(p) ==
    /\ pc[p] = "alloc"
    /\ LET d == file[p] IN
       /\ IF ~Live(d)
          THEN Goto(p, "undefined") /\ UNCHANGED <<bulkout_buffer, heap>>
          ELSE \/ /\ bulkout_buffer' = [bulkout_buffer EXCEPT ![d] = p]
                  /\ heap' = [heap EXCEPT ![p] = "live"]
                  /\ Goto(p, "trylock")
               \/ /\ bulkout_buffer' = [bulkout_buffer EXCEPT ![d] = None]
                  /\ heap' = heap
                  /\ Goto(p, "lib")
       /\ mishaps' = IF \E q \in Proc \ {p} :
                          /\ file[q] = d
                          /\ pc[q] \in Holding \cup {"trylock"}
                     THEN mishaps \cup {"twice"} ELSE mishaps
    /\ UNCHANGED <<hubVars, live, io_mutex, data, file, sent, result, usbfs,
                   wire>>

(* Mutant: the outcome of mutex_trylock is ignored. *)
OpenTrylockIgnored(p) ==
    /\ pc[p] = "trylock"
    /\ IF Live(file[p])
       THEN io_mutex' = [io_mutex EXCEPT ![file[p]] = p] /\ Goto(p, "copy")
       ELSE io_mutex' = io_mutex /\ Goto(p, "undefined")
    /\ UNCHANGED <<hubVars, live, bulkout_buffer, heap, data, file, sent,
                   result, usbfs, wire, mishaps>>

\* mutex_trylock; before mutex_init it is up to the kernel whether a zeroed
\* mutex counts as locked
OpenTrylock(p) ==
    /\ pc[p] = "trylock"
    /\ LET d == file[p] IN
       IF ~Live(d)
       THEN Goto(p, "undefined") /\ io_mutex' = io_mutex
       ELSE \/ /\ io_mutex[d] = None
               /\ io_mutex' = [io_mutex EXCEPT ![d] = p]
               /\ Goto(p, "copy")
            \/ /\ io_mutex[d] # None \/ hub = "mutexinit"
               /\ io_mutex' = io_mutex
               /\ Goto(p, "lib")                               \* -EBUSY
    /\ mishaps' = IF hub = "mutexinit" THEN mishaps \cup {"early"}
                  ELSE mishaps
    /\ UNCHANGED <<hubVars, live, bulkout_buffer, heap, data, file, sent,
                   result, usbfs, wire>>

\* dnwbulk_write of a block of the tool: it fits the buffer of the driver.
\* copy_from_user into bulkout_buffer ...
WriteCopy(p) ==
    /\ pc[p] = "copy"
    /\ IF Live(file[p]) /\ BufferLive(file[p])
       THEN /\ data' = [data EXCEPT ![BufferOf(file[p])] =
                                        <<p, sent[p] + 1>>]
            /\ Goto(p, "bulk")
       ELSE data' = data /\ Goto(p, "undefined")
    /\ UNCHANGED <<hubVars, dev, heap, file, sent, result, usbfs, wire,
                   mishaps>>

(* Mutants: actual_length is not compared; a failed transfer is repeated    *)
(* for ever.                                                                *)
WriteBulkShort(p) ==
    /\ pc[p] = "bulk"
    /\ IF ~(Live(file[p]) /\ BufferLive(file[p]))
       THEN Goto(p, "undefined") /\ UNCHANGED <<sent, result, wire>>
       ELSE /\ plugged
            /\ \/ wire' = Append(wire, data[BufferOf(file[p])])
               \/ wire' = wire
            /\ sent' = [sent EXCEPT ![p] = @ + 1]
            /\ IF sent[p] + 1 = Image
               THEN /\ result' = [result EXCEPT ![p] = "ok"]
                    /\ Goto(p, "release")
               ELSE result' = result /\ Goto(p, "copy")
    /\ UNCHANGED <<hubVars, memory, file, usbfs, mishaps>>
WriteBulkAgain(p) ==
    /\ pc[p] = "bulk"
    /\ \/ WriteBulkShort(p)
       \/ Goto(p, "copy") /\ UNCHANGED <<sent, result, wire>>
    /\ UNCHANGED <<hubVars, memory, file, usbfs, mishaps>>

\* ... and usb_bulk_msg from bulkout_buffer as it is by now.  A timeout
\* goes on reporting itself for ever, anything short ends the write.
WriteBulk(p) ==
    /\ pc[p] = "bulk"
    /\ IF ~(Live(file[p]) /\ BufferLive(file[p]))
       THEN Goto(p, "undefined") /\ UNCHANGED <<sent, result, wire>>
       ELSE \/ /\ plugged
               /\ wire' = Append(wire, data[BufferOf(file[p])])
               /\ sent' = [sent EXCEPT ![p] = @ + 1]
               /\ IF sent[p] + 1 = Image
                  THEN /\ result' = [result EXCEPT ![p] = "ok"]
                       /\ Goto(p, "release")
                  ELSE result' = result /\ Goto(p, "copy")
            \/ /\ result' = [result EXCEPT ![p] = "failed"]
               /\ Goto(p, "release")
               /\ UNCHANGED <<sent, wire>>
            \/ /\ Goto(p, "spinning")
               /\ UNCHANGED <<sent, result, wire>>
    /\ UNCHANGED <<hubVars, memory, file, usbfs, mishaps>>

(* Mutant: the buffer is not freed. *)
ReleaseFreeNot(p) ==
    /\ pc[p] = "release"
    /\ Goto(p, IF Live(file[p]) THEN "unlock" ELSE "undefined")
    /\ UNCHANGED <<hubVars, memory, file, sent, result, usbfs, wire,
                   mishaps>>

\* dnwbulk_release: kfree(bulkout_buffer), which may be another's, ...
ReleaseFree(p) ==
    /\ pc[p] = "release"
    /\ LET d == file[p] IN
       IF ~Live(d) \/ (BufferOf(d) # None /\ ~BufferLive(d))
       THEN heap' = heap /\ Goto(p, "undefined")
       ELSE /\ heap' = IF BufferOf(d) = None THEN heap
                       ELSE [heap EXCEPT ![BufferOf(d)] = "freed"]
            /\ Goto(p, "unlock")
    /\ UNCHANGED <<hubVars, dev, data, file, sent, result, usbfs, wire,
                   mishaps>>

\* ... and mutex_unlock.
ReleaseUnlock(p) ==
    /\ pc[p] = "unlock"
    /\ IF Live(file[p])
       THEN /\ io_mutex' = [io_mutex EXCEPT ![file[p]] = None]
            /\ Goto(p, "done")
       ELSE io_mutex' = io_mutex /\ Goto(p, "undefined")
    /\ UNCHANGED <<hubVars, live, bulkout_buffer, heap, data, file, sent,
                   result, usbfs, wire, mishaps>>
-----------------------------------------------------------------------------
(* The tool without the driver: dnw_open_libdev and usb_bulk_write.        *)

\* The tool gives up; its exit closes what it has opened.
Fail(p) == /\ Goto(p, "done") /\ result' = [result EXCEPT ![p] = "failed"]
           /\ handles' = handles \ {p}
GoOn(p, place) == Goto(p, place) /\ result' = result /\ handles' = handles

\* Nobody has the interface: neither the driver nor a process.
Unbound == ~minor /\ claimed = None

\* usb_open and the first usb_set_configuration, which the driver's or
\* another process's hold on the interface makes fail, and any error
LibOpen(p) ==
    /\ pc[p] = "lib" /\ hub = "idle"
    /\ \/ Fail(p)                                        \* no such device
       \/ /\ plugged
          /\ handles' = handles \cup {p}
          /\ Goto(p, "detach") \/ (Unbound /\ Goto(p, "claim"))
          /\ result' = result
    /\ UNCHANGED <<hubVars, memory, file, sent, claimed, taken, wire, mishaps>>

\* The process that has the interface, if one does, loses it.
TakeAway == claimed' = None /\ taken' = taken \cup ({claimed} \ {None})

\* usb_detach_kernel_driver_np: usbfs disconnects whatever has the
\* interface, and reports when nothing does.
LibDetach(p) ==
    /\ pc[p] = "detach" /\ hub = "idle"
    /\ \/ Fail(p) /\ UNCHANGED <<hub, claimed, taken>>
       \/ /\ p \in handles /\ ~Unbound
          /\ hub' = IF minor THEN "free" ELSE hub
          /\ TakeAway /\ GoOn(p, "reset")
    /\ UNCHANGED <<plugged, minor, intfdata, latest, memory, file, sent,
                   wire, mishaps>>

\* usb_reset, whose result is ignored: it takes the interface from a process
\* that has claimed it meanwhile, or fails
LibReset(p) ==
    /\ pc[p] = "reset" /\ hub = "idle"
    /\ \/ p \in handles /\ TakeAway
       \/ UNCHANGED <<claimed, taken>>
    /\ GoOn(p, "configure")
    /\ UNCHANGED <<hubVars, memory, file, sent, wire, mishaps>>

\* the second usb_set_configuration
LibConfigure(p) ==
    /\ pc[p] = "configure" /\ hub = "idle"
    /\ \/ Fail(p)
       \/ p \in handles /\ Unbound /\ GoOn(p, "claim")
    /\ UNCHANGED <<hubVars, memory, file, sent, claimed, taken, wire, mishaps>>

\* usb_claim_interface
LibClaim(p) ==
    /\ pc[p] = "claim" /\ hub = "idle"
    /\ \/ Fail(p) /\ claimed' = claimed
       \/ /\ p \in handles /\ Unbound
          /\ claimed' = p /\ GoOn(p, "libwrite")
    /\ UNCHANGED <<hubVars, memory, file, sent, taken, wire, mishaps>>

\* usb_bulk_write.  An urb of a process without the interface claims it.
\* Less than zero ends the tool; zero, of a stalled endpoint, is subtracted
\* from what remains and the call is repeated.
LibWrite(p) ==
    /\ pc[p] \in {"libwrite", "stalled"}
    /\ \/ /\ p \in handles /\ ~minor /\ claimed \in {p, None}
          /\ claimed' = p
          /\ \/ /\ wire' = Append(wire, <<p, sent[p] + 1>>)
                /\ sent' = [sent EXCEPT ![p] = @ + 1]
                /\ IF sent[p] + 1 = Image
                   THEN /\ result' = [result EXCEPT ![p] = "ok"]
                        /\ Goto(p, "libclose")
                   ELSE result' = result /\ Goto(p, "libwrite")
             \/ Goto(p, "stalled") /\ UNCHANGED <<sent, result, wire>>
       \/ /\ claimed' = claimed
          /\ result' = [result EXCEPT ![p] = "failed"]
          /\ Goto(p, "libclose")
          /\ UNCHANGED <<sent, wire>>
    /\ UNCHANGED <<hubVars, memory, file, handles, taken, mishaps>>

\* usb_release_interface and usb_close
LibClose(p) ==
    /\ pc[p] = "libclose"
    /\ claimed' = IF claimed = p THEN None ELSE claimed
    /\ handles' = handles \ {p}
    /\ Goto(p, "done")
    /\ UNCHANGED <<hubVars, memory, file, sent, result, taken, wire, mishaps>>

Tool(p) == \/ StartOpen(p) \/ OpenFind(p) \/ OpenAlloc(p) \/ OpenTrylock(p)
           \/ WriteCopy(p) \/ WriteBulk(p)
           \/ ReleaseFree(p) \/ ReleaseUnlock(p)
           \/ LibOpen(p) \/ LibDetach(p) \/ LibReset(p) \/ LibConfigure(p)
           \/ LibClaim(p) \/ LibWrite(p) \/ LibClose(p)

Defined == \A p \in Proc : pc[p] # "undefined"

Next == /\ Defined
        /\ Plug \/ Unplug \/ Hub \/ \E p \in Proc : Tool(p)

Spec == Init /\ [][Next]_vars

\* The core and the processes go on; nobody has to plug anything, and an
\* endpoint that is stalled may stay so.
Fairness ==
    /\ WF_vars(Defined /\ Hub)
    /\ \A p \in Proc : WF_vars(Defined /\ pc[p] # "stalled" /\ Tool(p))
FairSpec == Spec /\ Fairness
-----------------------------------------------------------------------------
(* What the driver and the tool promise.                                   *)

\* When the tool reports success the device has received the whole image,
\* in order and unchanged, through the driver or through libusb: unless the
\* driver was opened twice, which puts a zeroed buffer in the place of the
\* one dnwbulk_write has just filled.
SuccessIsDelivered ==
    \A p \in Proc : result[p] = "ok" /\ "twice" \notin mishaps =>
        /\ \A k \in 1..Image : \E i \in DOMAIN wire : wire[i] = <<p, k>>
        /\ \A i \in DOMAIN wire : wire[i][1] = p => wire[i][2] \in 1..Image
        /\ \A i, j \in DOMAIN wire :
               i < j /\ wire[i][1] = p /\ wire[j][1] = p =>
                   wire[i][2] < wire[j][2]

\* The images of two processes are not mixed on the wire, whatever is
\* opened twice, pulled out or taken from the driver: io_mutex keeps them
\* apart in the driver, and the detach and the claim keep those that go
\* through libusb apart from those.  Two exceptions: mutex_init may open the
\* mutex of one who was too early, and a process that lost its claim to the
\* detach of another goes on when the other is through.
ImagesDoNotMix ==
    "early" \notin mishaps =>
        \A i, j, k \in DOMAIN wire :
            /\ i < j /\ j < k
            /\ wire[i][1] = wire[k][1] /\ None \notin {wire[i][1], wire[j][1]}
            /\ wire[i][1] \notin taken
            => wire[j][1] = wire[i][1]

\* Memory is touched where none is, after it is freed, or freed twice only
\* if the device went away while it was open, or was opened before its probe
\* had returned or while another process had it open.
UndefinedHasCause == ~Defined => mishaps # {}

\* When nobody has the driver open and nothing of that kind has happened,
\* every buffer is freed and every mutex is free.
NothingLeaked ==
    mishaps = {} /\ (\A p \in Proc : pc[p] \notin Opening \cup Holding) =>
        /\ \A p \in Proc : heap[p] # "live"
        /\ \A d \in Dev : live[d] => io_mutex[d] = None

\* A tool that was started ends, whatever is plugged, pulled out or taken
\* away meanwhile: neither the lock of the minor numbers nor that of the
\* core is held for ever.  Two exceptions: a bulk transfer of the driver
\* that timed out, and an endpoint that is stalled when libusb writes.
ToolEnds ==
    \A p \in Proc : pc[p] # "start" ~>
        (pc[p] \in {"done", "spinning", "stalled"} \/ ~Defined)
=============================================================================
