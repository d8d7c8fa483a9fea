# Linux-C-Examples: a verification project

The repository is a collection of C programs for Linux. Most are single-file
exercises or vendored libraries; a few are small systems of their own, with
threads, shared buffers and protocols. This project models those in TLA+,
checks small instances with TLC and proves the properties that matter most
with TLAPS for every value of the parameters.

Paths below are relative to `src/`.

## 1. The system

### 1.1 Receiving servers (`Tcp_Transferring_Files/`)

A client (`client.c`) sends a video file over TCP; a server writes what all its
clients send into `test.h264`. The server is a main thread that runs a `select`
loop and a worker thread `write_data2file`; between them is one of three
buffers.

| part | state | operations |
| --- | --- | --- |
| loop buffer, `loop_buf.c` | storage of `LOOP_BUF_LEN` bytes, free-running unsigned `in`, `out`, a mutex | init, put, get, len, reset, lock, unlock |
| ring buffer, `ringbuff/ringbuff.c` | storage, pointers `rdp`, `wrp`, the count `data_size`, a mutex | init, read, write, reset, sizes |
| entry list, `list_buf.c` on the kernel's `list.h` | a doubly linked list of entries (data, size, position) | add, read_data, del |
| server, `server.c` | `is_connected`, the `select` set, the bytes just read | accept, read, close; poll, get, write |
| server, `ringbuff/test/server.c` | the same, around the ring buffer | the same |
| client, `client.c` | the position in its file | connect, wait for the welcome, send, hang up |

Interaction: main and worker share the buffer. `server.c` takes the mutex
around a put and around a get of the loop buffer, but not around the poll of
its length; the ring buffer takes its own mutex, but only after it has tested
`data_size`; the list is used without any lock. Clients interact with main
through sockets.

What is hard: the two threads crossing in the middle of an operation, indices
that wrap in two ways (at the end of the storage, at the width of an unsigned
int), a buffer that is full or empty, a file that takes only part of a write, a
client that hangs up with bytes still on the way.

What makes it correct: a buffer is a FIFO queue of bytes; what it accepted gets
out once and in order; the bytes of a client stay in order in the file; bytes
are dropped for want of room only; nobody is starved; list entries are not
touched after they are freed.

### 1.2 RTSP server (`rtsp/`)

An RTSP server that streams an H.264 file over RTP. It keeps `MAX_CONN`
channels `rtsp[n]` (`struct rtsp_buffer`), each with a semaphore
`rtspd_lock[n]`.

| thread | code | does |
| --- | --- | --- |
| acceptor | `vd_rtsp_procin`, `tcp_accept` (`src/socket.c`) | picks a channel whose `conn_status` is 0, accepts a client into its `cli_fd`, signals a condition variable |
| callback | `rtsp_callback` (`test/sample_rtspd.c`) on `test/rtspd.c` | waits for the signal, scans for a free channel, starts its command thread, waits on its semaphore, and if its status is 8 (PLAY granted) opens the RTP and RTCP sockets and starts the streaming threads |
| command thread, one per session | `vd_rtsp_proc` | reads a command, answers it, sets `rtspd_status`, `is_runing`, `conn_status`, posts the semaphore |
| RTP thread, one per stream | `vd_rtp_func`, `rtp_send_form_file` | sends the file while `is_runing` |
| RTCP thread, one per stream | `vd_rtcp_func` | sends a report every 3 s while `is_runing` |

What is hard: five kinds of threads meet in words that are neither locked nor
bound to a session; the channel a client is accepted on and the channel the
callback starts are found by two scans; a signal nobody waits for is lost;
posts are left over; sockets are closed by whoever sees the flag fall; a client
may hang up or be gone at any time; the wait for the signal may return without
one.

What makes it correct: a stream starts for a PLAY; a channel that is taken is
served; a stream that is stopped ends; a session that is torn down leaves no
thread and no socket; the callback comes back for the next client.

### 1.3 RTP packetizer (`rtsp/src/rtp_h264.c`)

The thread that streams reads its file a block of `READ_LEN` bytes at a time.
`abstr_nalu_indic` cuts the block at the start codes 00 00 00 01;
`build_rtp_nalu` sends a unit as one packet or as fragments (FU-A). A unit that
does not end in its block is read again with the next one: the state is
`bytes_consumed`, the place in the file, and what the loops keep of the block
and the unit they are in.

What is hard: a scan that skips up to four bytes at a time, a unit that ends
with the block, the last unit, a unit that fills its packets exactly.

What makes it correct: a receiver that follows the bits and numbers of the
packets gets the units of the file, each whole and once.

### 1.4 File transfer (`Tcp_Transferring_Files/client.c`, `file_transfer/`)

`client.c` sends a file to the receiving servers: it reads a piece, offers it to
the socket with `sendn`, and seeks back by what was not taken. `fileclient.c`
sends a name, a line break and a file; `fileserver.c` takes one client after the
other and writes each into the file of that name. They interact through a
connection that holds few bytes.

What is hard: short sends and writes, seeks that repeat or skip bytes, a name
that is cut at its last character, clients that die, everyone waiting for the
one client that is served.

### 1.5 USB download (`Linux_Dnw/`)

The driver `kernel/dnw.c` has one `struct dnwbulk_dev` per device plugged in,
with one buffer and one mutex; the tool `app/main.c` writes an image through it,
or detaches it and writes through libusb when it does not find it. Callbacks of
the USB core (probe, disconnect) run beside the calls of the tools (open, write,
release).

What is hard: two opens at once, an open before the probe has returned, a device
that goes away while it is open, a transfer that falls short or times out, a
tool that takes the device from another, out of the hands of the driver or of
another tool's libusb.

What makes it correct: a tool that reports success has delivered its image;
images do not mix; memory is not used after it is freed; nothing stays
allocated or locked.

### 1.6 Port scanner (`Network_Port_Scan/`)

`tcp_scan` sends a SYN to every port of every host of some address segments,
`REPEATS` times over, drains two nonblocking raw sockets as it goes, keeps what
it has reported in a tree, resets every connection a host accepted, and waits at
the end for what is still under way.

What is hard: segments are delayed, lost and overtaken, every round is answered
again, answers to an earlier scan turn up, `select` counts its timeout down and may
watch descriptors nobody put into its set, the last address of a segment may be
the last of all.

### 1.7 The rest

`PROJECT.json` lists every other component and why it is not modelled; section 7
sums it up.

## 2. The modules

| module | models | built on |
| --- | --- | --- |
| `ByteFifo` | what a byte buffer promises: a bounded FIFO queue; with `ShortGet` a get may hand out less than there is | |
| `LoopBuf` | `loop_buf.c`, one action per call | implements `ByteFifo` |
| `RingBuff` | `ringbuff/ringbuff.c`, one action per call | implements `ByteFifo` with `ShortGet` |
| `SelectLoop` | the clients and the `select` loop the servers share | |
| `LoopServer` | `server.c` built with `LOOP_BUF` (the default of `config.mk`) | `LoopBuf`, `SelectLoop` |
| `RingServer` | `ringbuff/test/server.c` | `RingBuff`, `SelectLoop` |
| `ListServer` | `server.c` built with `LIST_BUF`, `list_buf.c`, `list.h` | `SelectLoop` |
| `RtspServer` | the sessions of `rtsp/` | |
| `RtpSender` | the packetizer of `rtsp/` | |
| `FileClient` | `client.c` | |
| `FileTransfer` | `file_transfer/`, clients and server | |
| `DnwDriver` | `Linux_Dnw/`, the driver, the USB core and the tools | |
| `TcpScan` | `Network_Port_Scan/`, the scanner, the network and the hosts | |
| `MCRtspServer`, `MCRtpSender`, `MCFileTransfer`, `MCTcpScan` | instances: symmetry, files, names, address segments | their modules |
| `LoopBufProofs`, `RingBuffProofs` | theorems about the buffers and the servers around them | `LoopServer`, `RingServer` |
| `ListServerProofs`, `RtspServerProofs`, `RtpSenderProofs`, `DnwDriverProofs`, `TcpScanProofs` | theorems | their modules |
| `FileTransferProofs` | theorems about both file transfers | `FileTransfer`, `FileClient` |

How state and steps correspond to the code:

* `LoopBuf`, `RingBuff`: a variable per field of the struct, `got` for the
  caller's buffer after a read. Unsigned ints are taken modulo `WORD` (a
  multiple of `LOOP_BUF_LEN`, standing for 2^32); pointers of the ring buffer
  are offsets from `startp`, and may rest at `endp`.
* `SelectLoop`: `readfds` is what is left of the current pass over the
  descriptors; a byte of a client is a number of its own (`Id(c, k)`), so that
  order, loss and repetition can be told apart. What it takes for granted of a
  client, that its bytes come in order and once each, is what `FileClient`
  shows of `client.c`.
* `LoopServer`: `mpc` and `wpc` are program counters of the threads. A call of
  the buffer is split where the other thread could look: the copy, the change
  of the indices, the mutex before and after.
* `RingServer`: a call is split between the test of `data_size` and the body
  under the mutex. The body changes `data_size` once, at its end, so it is one
  step.
* `ListServer`: every load and store of a link is a step. The memory is
  sequentially consistent: what a compiler or a processor may reorder is not
  modelled, and the real code may do worse.
* `RtspServer`: one record per channel with the fields the sessions use, one
  program counter per thread. The stores of a call are one step where no other
  thread loads more than one of the words stored; a test of a flag and what
  follows it are separate steps wherever the flag may change in between. A
  packet that overruns `nalu_buffer` may turn the command that waits in
  `in_buffer` into any other. A client may break its connection off (`Break`);
  `read` then returns 0, which `tcp_read` does not take for an end, so that what
  `in_buffer` holds is answered again (`ReadEnds`), or it is an error and the
  thread ends with its channel still marked taken (`ReadFails`).
  `WakeSpuriously` is a return of `pthread_cond_wait` without a signal, which
  POSIX allows and `rtspd_freechn` takes for a client.
* `RtpSender`: `pc` is the place in the nested loops; a turn of
  `abstr_nalu_indic` is a step. A packet is an interval of the file with its
  bits, timestamp and number (modulo `SEQS`); the bytes that travel in headers
  (the start code, the first byte of a fragmented unit) are left out of it.
* `FileClient`: bytes are told apart by their place in the file; `taken` is what
  the socket has taken, `offset` the file's offset, `buffer` what is left of the
  piece.
* `FileTransfer`: `left[c]` is what a client's `writen` has still to write,
  `net[c]` what is on its connection; `readline` takes a character a step. The
  server's files are functions from names to bytes, written at an offset, so
  that what an open without `O_TRUNC` leaves behind is there.
* `DnwDriver`: structs and buffers are named, and are absent, live or freed; a
  step that touches one that is not live ends in the place `undefined`, after
  which nothing more is said (`Defined` guards `Next`). `hub` is where the USB
  core is in `dnwbulk_probe` or `dnwbulk_disconnect`; `pc[p]` goes through the
  driver's calls as the tool makes them. What the USB core does around them
  (its locks, `usb_find_interface`, minors) is external and mapped as such. The
  probe is four steps, so that an open may come between `usb_register_dev` (line
  173) and `usb_set_intfdata` (180), where it dereferences NULL, and between that
  and `mutex_init` (181), where the mutex it tries is not one yet. `claimed` is
  who has the interface through libusb, `handles` who has the device open there;
  `LibDetach` takes the interface from whoever has it, and a transfer of a tool
  that lost it claims it again, as usbfs does. A libusb write may be short (a
  block of its own), fail, or return 0, which `main.c:178` subtracts from what
  remains before it goes on (`stalled`).
* `TcpScan`: a segment in `net` has a target, a round and an age. What is out
  for longer than `MSL` is gone; `left` is what `select` has left of its
  timeout. A target is open, closed, unreachable or silent; an answer to an
  earlier scan has round 0. `stray` is what the `fd_set` of `__wait_response`,
  which is never cleared, has `select` watch besides the two sockets: nothing
  that matters, a descriptor that is readable or becomes so, or one that is not
  open. `resets` are calls of `__tcp_rst`: whether `sendto` fails there the
  code does not ask.
* `accepted`, `handed`, `plays`, `streams`, `closer`, `mishaps`, `taken`,
  `before`, `received`, `lost`, `probes` and `resets` are history that no guard
  of the code reads.

Abstractions worth knowing: descriptors are not reused in `RtspServer`, and
`accept` succeeds there; replies are granted or refused by choice; a server
killed by SIGPIPE, because it wrote to a connection that is gone, does nothing
more and is left out; `accept` succeeds in `SelectLoop` and clients fit the table
of `MAXSOCKFD` descriptors; a process runs the download tool once, what arrives
of a transfer that fails is not counted, and the core does not bind the driver
again after `usb_set_configuration` or `usb_reset`.

## 3. The runs

| run | instance | shows |
| --- | --- | --- |
| `loop_buf` | storage 4, indices modulo 8, transfers up to 3, two byte values | `loop_buf.c` never overruns and implements `ByteFifo` across every wrap of storage and indices |
| `loop_server` | storage 2, indices modulo 4, 2 clients with 2 bytes, faulty disk, fair threads | bytes are conserved between the threads, dropped only with the buffer full, get out, and stay in order per client; every client is read |
| `ring_server` | storage 3, transfers up to 2, 1 client with 8 bytes, faulty disk, fair threads | the test outside the mutex loses nothing; count and pointers agree; reads and writes implement `ByteFifo` with `ShortGet`; every byte taken gets out unless the buffer is stuck |
| `list_server` | 1 client with 4 bytes, pieces of 2, failing malloc and short writes | the worker reaches no freed entry, writes in order, frees nothing early |
| `list_server_race` | 1 client with 3 bytes | **violation**: see below |
| `rtsp` | 1 channel, 2 clients that may break off, 2 commands, PLAY and TEARDOWN in any order, 1 wait that returns without a signal | no stream without a PLAY although the sessions share the channel; a taken channel has a thread, or one that lost its connection |
| `rtsp_one` | 1 channel, 1 client that may break off, 3 commands of all kinds in any order, refusals and faults, fair threads | a stopped stream ends; a granted PLAY is streamed; a session leaves nothing behind |
| `rtp_sender` | 426 files of up to three units, units longer than a packet and than a block among them; blocks of 15 bytes, 4 bytes in a packet and 2 in a fragment, numbers modulo 3 | the packets are the units, their bits tell them apart, the stream ends |
| `file_client` | 7 bytes, pieces of 2 to 4, a socket for 3, faults | the socket takes the file from its beginning, each byte once; the client ends |
| `file_transfer` | 3 clients: one with the longest name, one whose file is there already and longer, one without a file; 2 bytes on a connection; clients that die, calls that fail | names and files arrive whole, nobody waits for ever |
| `dnw` | 2 tools, images of 2 blocks, 2 plug-ins | images arrive whole and unmixed; memory is misused only after a second open, an open that came too early, or a removal; nothing leaks; tools end; each with the exceptions below |
| `tcp_scan` | 2 hosts, the last address and the router among them, 1 port, 2 rounds, lifetime 1, 1 answer to an earlier scan, every kind of stray descriptor | everything that answered is reported once and truly, every accepted connection is reset, the scan ends unless a stray descriptor is readable |

Why the bounds are enough to be of interest.

* In the buffers the storage wraps, the indices wrap and the buffer is full,
  empty and both in turn. With transfers smaller than the storage the worker
  does not empty the buffer with every get, so `in` and `out` really run (with
  larger ones they are reset all the time). Eight bytes take the ring buffer
  round its storage more than twice, into every relation of pointers and count.
* In `list_server` the list holds several entries while the first is deleted.
* In `rtsp` up to three command threads (two clients, one wait that returned for
  nothing), their streams and their posts meet on one channel; a second channel
  adds no word they share. `rtsp_one` has three commands, counting those answered
  again at the end of a connection, so that a PLAY may be refused, repeated, and
  followed or preceded by any other; with one client there is one session, and
  the properties are about that one. What they say of sessions that share a
  channel, or of a callback woken for nothing, lies beyond the run. The clients of
  `rtsp` use PLAY and TEARDOWN only, since the other commands change nothing its
  two invariants speak of but the status, which TEARDOWN changes too; the proofs
  are for all commands.
* The files of `rtp_sender` are those in which a scan can go wrong: bytes 0 and
  1 in every order up to three long between start codes, longer ones that end in
  part of a start code, units of one packet, of a full last packet, and longer
  than a block.
* In `file_transfer` the longest file is longer than a block, a name and its
  line break do not fit the connection at once, and the longest name is one too
  long for the server.
* In `dnw` two tools and two plug-ins let a tool hold a device that is gone
  while the other opens the next one, and each take the interface from the
  other. In `tcp_scan` both hosts may be the
  router, and answers of two rounds overtake each other.

Deadlock is not checked where the clients may be done and the threads wait:
that is how these programs rest.

Each module's type invariant is part of an invariant that its run checks, except
in `LoopBuf`, `RtspServer`, `DnwDriver` and `TcpScan`; all of them are proved.

Fairness: weak fairness for each thread or process, and for what the code waits
on. The kernel keeps scheduling a thread that can run; nothing is assumed of
clients that have a choice, and nothing has to fail.

* Servers: `Main`, `Worker`. The mutex of `LoopServer` is free again and again
  but main could take it first each time: clients send finitely many bytes, so
  main stops asking.
* `RtspServer`: `Acceptor`, `Callback`, `Command(s)`, `Rtp(s)`, `Rtcp(s)`.
  `rtp_init` waits on a semaphore only the callback takes. No client has to ask or to break
  off, and a reader need not be told that its client is gone.
* `FileClient`: `Main`, and a peer that is still there reads.
* `FileTransfer`: the server and every client.
* `DnwDriver`: the core in its callbacks and every process in its calls; nobody
  has to plug anything, and an endpoint that is stalled may stay so.
* `TcpScan`: the scanner, time, and that a segment arrives or is lost.

### What the code does wrong, as the models show it

`list_server_race` (`AddedIsQueued`) is a run of its own: `list_add_tail` of main
and `list_del` of the worker cross on the last entry, the new entry hangs on the
freed one, and the list is empty for the worker. `list.h` promises that the
entry is put before the head, "useful for implementing queues".

The other defects are in the properties, as the exceptions they name, or at the
edge of the models:

* `ringbuff.c:83`: `ringbuff_read` takes `wrp >= rdp` for `wrp - rdp` bytes. When
  a write fills the buffer after a wrap, `wrp = rdp` and the read returns 0,
  while `ringbuff_write` refuses everything: neither thread can go on
  (`Stuck`, the exception of `AcceptedIsHanded`).
* `socket.c:189`: a TEARDOWN posts no semaphore; without a PLAY before it the
  callback stays in `rtp_init`, and no later client is served.
* `rtspd.c:75`: `rtspd_freechn` waits on the condition variable without a
  predicate; a client accepted before the callback waits (again) gets no command
  thread, and a wait that returns without a signal starts one for no client. No
  property promises a client a thread, or a thread a client.
* `socket.c:304`: `tcp_accept` picks a channel before it blocks, and it is marked
  taken only after the first command; a second client can be put on the channel
  of the first, whose descriptor is then lost. `TakenIsServed` holds all the same;
  that each client is answered does not.
* `socket.c:229`: a command thread whose connection is reset, or closed under it
  by another session, ends and leaves its channel taken for good: the two
  exceptions of `TakenIsServed`. One whose client hangs up answers its last
  command again, or runs `get_rtsp_method` on an empty buffer, whose method is
  uninitialised.
* `sample_rtspd.c:24`: with all channels taken the callback uses channel -1.
* `rtsp.h:97`: packets are up to 1460 bytes, `nalu_buffer` has 1448; the end of a
  full packet lands in `in_buffer`. `PlayIsStreamed` and `TakenIsServed` hold in
  spite of it.
* `rtp_h264.c:354`: a unit longer than `READ_LEN` is read again for ever
  (`FitsBlocks`, the exception of `StreamEnds`).
* `fileserver.c`: no `O_TRUNC`, so the end of a longer file stays behind the new
  one (`ReceivedIsSent` says so); a name of `BUFFERSIZE - 1` characters loses its
  last; a client that ends without a name has the server exit; a client that
  dies is reported as received.
* `dnw.c`: an open replaces the buffer of the process that holds the device
  ("twice", line 102), disconnect frees the struct under an open file ("in use",
  line 39), an open while the probe has not returned finds a NULL pointer, which
  it dereferences (lines 101, 102), or a mutex that is not initialised ("early"):
  `mishaps` records these, and `UndefinedHasCause` and `NothingLeaked` are about
  what else could go wrong. A transfer that times out reports it for ever
  (line 75); `ToolEnds` excepts it.
* `main.c:120`: the tool detaches whoever has the interface. Another tool that
  writes through libusb then claims it again with its next transfer and goes on
  with its image, perhaps after the other's: `ImagesDoNotMix` excepts the images
  of tools that lost their claim (`taken`).
* `main.c:178`: `usb_bulk_write` may return 0, and the loop goes on for ever
  (`stalled`, the other exception of `ToolEnds`).
* `tcp_scan.c:606`: the `fd_set` is never cleared. A stray descriptor that is
  readable keeps `select` from ever timing out (the exception of `ScanEnds`); one
  that is not open makes it fail, and with it a scan whose probes are all sent.
* `tcp_scan.c:509`: the tree is searched with port 0, so no host is ever found in
  it and all are probed again in every round: this costs probes and nothing else.

## 4. The proofs

| module | theorem | states | for every |
| --- | --- | --- | --- |
| `LoopBufProofs` | `LoopBufNeverOverrun` | types; `in - out`, in unsigned arithmetic, never exceeds the storage | storage, index width that is a multiple of it, transfer size, set of bytes |
| | `LoopBufImplementsFifo` | `loop_buf.c` implements `ByteFifo` | the same |
| | `LoopServerLosesNothing` | `NothingLostInside` of `LoopServer` | the same, clients, bytes they send, disk |
| | `LoopServerDropsOnlyWhenFull` | `DropsOnlyWhenFull` | the same |
| | `LoopServerKeepsOrder` | `ClientOrderKept` of `LoopServer` | the same |
| `RingBuffProofs` | `RingBuffCount` | types; `CountMatchesPointers` | storage, transfer size, set of bytes |
| | `RingBuffKeepsBytes` | `ringbuff.c` implements `ByteFifo` with `ShortGet` | the same |
| | `RingServerLosesNothing` | `NothingLostInside` of `RingServer` | the same, clients, bytes they send, disk |
| `ListServerProofs` | `TheWalkIsSafe` | `WalkIsSafe` | clients, bytes they send, size of a read and of a write |
| | `OrderIsKept` | `ClientOrderKept` of `ListServer` | the same |
| | `WrittenWhenFreed` | `FreedIsWritten` | the same |
| `RtspServerProofs` | `RtspTypes` | types; the callback leaves the channels only by the scan that found none | channels, clients, commands, waits without a signal, faults or not |
| | `RtspStreamsHavePlays` | `StreamsHavePlays` | the same |
| | `RtspTakenIsServed` | `TakenIsServed` | the same |
| `RtpSenderProofs` | `SendsUnits` | `PacketsAreUnits` | file, block size, packet size |
| | `BitsTell` | `BitsTellUnits` | the same, and range of numbers |
| `FileTransferProofs` | `ServerTakesTheName` | `NameIsWhole` | clients, names, files, files the server has, size of the buffer and of a connection |
| | `NothingLost` | `NothingLostOnTheWay` | the same |
| | `ReceivedWhole` | `ReceivedIsSent` | the same |
| | `ClientSendsPrefix` | `SocketHasPrefix` of `FileClient` | file, pieces, room in the socket |
| `DnwDriverProofs` | `Typed`, `Caused`, `Tidy` | types, `UndefinedHasCause`, `NothingLeaked` | processes, blocks, plug-ins |
| | `Delivered` | `SuccessIsDelivered` | the same |
| | `Unmixed` | `ImagesDoNotMix` | the same |
| `TcpScanProofs` | `Typed`, `ReportsAreOnce`, `ReportsAreTrue`, `AnswersAreReported`, `AcceptedAreReset`, `ScopesAreProbed` | every safety property of the scan | scope, ports, rounds, lifetime |

Assumptions are the named ones of the modules (`...Assumption`): sizes are
positive, `WORD` is a multiple of the storage and larger, the bytes the clients
send are bytes, the packets have room for a byte, a client or process is not
`None`, segments are intervals of addresses.

*Buffers.* The invariants are inductive as they are checked. The refinement maps
the queue to the bytes between the indices; each step case shows that the copy
lands where the queue continues (lemmas of their own state the split of a
transfer at the end of the storage and the arithmetic of the unsigned
difference), a reset of both indices to 0 is a stutter on an empty queue, and a
read that hands out less than it could is a short get.

*Servers.* A call under way is the hard part. For the loop buffer the invariant
(`Hands`) says who holds the mutex and that what its holder computed is still
true: main's `mlen` is what `put_loop_buf` would put now, and `buffer` already
holds the copy; the worker's `got` is what `get_loop_buf` would copy now. So the
step that changes the indices is the whole call, and the lemmas about the calls
apply; the other half (`MainCopyStep`) writes places that are not in the queue.
For the ring buffer (`WriteAhead`) main's test outside the mutex only ages in the
good direction: the buffer it found with room is never full when it gets the
mutex, since nobody else writes. With that, `accepted = handed \o Queue` is kept
because a put appends to both sides and a get moves bytes from one term to the
next. `ClientOrderKept` says something of the file only; its invariant (`Way`)
follows a byte from the read into `chunk`, the buffer, the piece in the worker's
hand and the file: each of these four is in order per client and behind the ones
further on, and nothing in them is younger than what was read of its client.

*List.* Main adds at the tail while the worker deletes at the head, a load or a
store at a time, and what the links say halfway is the invariant: `Chain`, every
entry that is not freed leads to the one added after it or back to the head;
`AddState`, the tail main has read is the last entry or the head, and the head
only when the list is empty or about to be; `HeadState`, the first entry leads
back to the head and whatever was freed was in front of it; `HandState`, the
worker has the first entry in hand until it unlinks it. So an entry may get lost
(`list_server_race` shows how: main hangs it on a tail that is being freed), but
none that was freed is reached. That there is a free place for a new entry is a
pigeonhole: the entries' first bytes are different. `Forward`, the walk of
`WalkIsSafe` along the links, is a recursive function; that it stays among the
entries is shown of the least step at which it would not. `DataState`,
`Progress` and `FileState` tie entries to the order of the reads, positions to
entries, and the file to the positions.

*RTSP.* `StreamsHavePlays` (`streams[n] <= plays[n]`) is not inductive: the
callback sets a stream up two steps after it saw the status. The inductive
invariant adds that a stream which may still be set up has its PLAY to itself:
`streams[n] + Pending(n) <= plays[n]`, where `Pending(n)` is 1 while the status
is that of a granted PLAY or the callback is about to open the socket. Every
step that is not a grant or an opened socket leaves the channel owed nothing new
(`Quiet`); a grant raises `plays` with `Pending`; opening the socket overwrites
the status and so pays the debt, which is where a change of the order of the
stores in `rtp_init` would break the proof. `TakenIsServed` is about a thread that ends in `tcp_read` and leaves its channel
taken. The invariant (`Served`) is that whoever marked a channel taken is still
at work on it or has parted from it that way (`TakenIsHeld`): marking it free is
the last thing a thread does, so that only one that holds the channel can be
missing when it is not free. Two parts carry the second exception: a closed
connection was closed by a session (`ClosedBySomeone`), and that session is past
its reads (`ClosersLeave`), so that a thread which finds its client closed finds
it closed by another. A session not yet started marks nothing (`Started`). A step
either leaves all of this alone (`Bystands`), starts a session, or moves one
(`Moves(s)`). Nothing is assumed of how many clients share a channel or when they
break off.

*Packetizer.* What the packets say of the file depends on what the scan has ruled
out, so the invariant follows the thread: `Place` says that the thread stands at
the beginning of a unit and that no unit begins in the bytes the scan has passed
(`Clear`; the skips are justified by the bytes that rule a start code out);
`Rest`, how much of the unit is left in each place; `Chain`, that each packet
follows from the one before; `Seam`, that the thread goes on where the last
packet stopped. The work is in the four skips of `abstr_nalu_indic` and in the
last fragment of `build_rtp_nalu`.

*File transfer.* What a client has to say is its name, a line break and its file
(`All`). A byte of it on its way (`Way`) is with the client's `writen`, on the
connection, or in the server's buffer, in this order, and the invariant (`OnWay`)
is that what is on its way goes on where the server stopped and ends where the
client has come to. `Stage` and `Turn` say what there can be at each place of
the two programs, `LineRead` that `readline` stops at the line break, and
`Written` that the file is what was there, overlaid with the beginning of the
client's. Every step moves bytes from the front of one place to the end of the
next, so the work is in cutting sequences in two and joining them.

*Client.* The invariant of `client.c` ties the three places together: what the
socket has taken is 1, 2, 3, ...; the piece in hand goes on there; and the file's
offset is where the piece ends, which is what the seek back restores.

*Driver.* `UndefinedHasCause` and `NothingLeaked` say what holds as long as nothing
of the kind the driver is not made for has happened, and the invariant
(`Orderly`) is what the driver relies on until then: a process inside works on a
live struct, alone from `mutex_trylock` to `mutex_unlock`, with its own buffer in
it. `CoreIsCareful` is about the core's pointer and holds always; `OpenFinds`,
that the pointer is set when a minor is registered and the probe is past
`usb_set_intfdata`, so that only an open that is too early finds NULL.
`Delivery` carries that on to the data: until the driver is opened twice the
processes at work in it have a struct each (`Apart`) with their own buffer in it
(`Own`), the buffer holds the next block (`NextBlock`), and what a process has
sent has arrived, in order (`SentArrived`, `OkIsAll`). `ImagesDoNotMix` holds
whatever is opened twice, pulled out or taken away, and needs less: of the
structs that are open at most the core's is live, who is past `mutex_trylock` on
it holds its mutex, and a buffer in use holds zeroes or a block of the mutex's
holder (`CorePointer`, `Devices`). All of that is said of behaviours in which
nobody was too early (`Punctual`), since `mutex_init` would open the mutex again.
A tool that is past its claim has the interface or is one of those that lost it
(`Claims`), so a process whose block has been followed by another's writes no
more, unless it lost its claim (`Over`), and never will (`Onward`).

*Scanner.* `Fresh` is the heart of `AnswersAreReported`: age plus what is left of
`select`'s timeout is at least the lifetime of a probe and its answer, for
everything under way, so that nothing can come any more when the wait is over. It
needs that `select` counts its timeout down, and that a scan ends well only after
a `select` that timed out, whatever stray descriptors it watched meanwhile. `Accounted` follows each probe: it
is lost, under way, in a socket, or told. `Recorded` ties the reports to the
tree, `PassedAreProbed` the probes to the loops.

Every safety property that a passing run checks is stated by a theorem. Only
model-checked: every liveness property, since fairness and ENABLED are out of the
prover's reach. Induction over data is too: order in a sequence is proved through
index arithmetic and chains of neighbours, not by recursion, and the one walk
that is recursive (`Forward`) by its least counterexample.

## 5. What was built, in which order

1. `ByteFifo`, `LoopBuf`, `LoopServer`, `RingBuff`, `RingServer`, `ListServer`,
   `RtspServer`, with the proofs of the buffers and of `RtspServer`.
2. `DnwDriver`, `TcpScan`, `RtpSender`, `FileClient`, `FileTransfer`, with the
   proofs of the first four; `RtspServer` with every command in any order, the
   overrun of `nalu_buffer` and the closing of sockets; liveness of the buffers
   to the last byte handed out; the buffers' proofs carried on to the servers.
3. The proofs of `ListServer`, `FileTransfer`, `SuccessIsDelivered` and
   `ImagesDoNotMix` of `DnwDriver`, and `TakenIsServed` of `RtspServer`.
   The two properties of `DnwDriver` are stated with quantifiers since, and
   mean what they meant.
4. `RtspServer` with connections that clients break off and waits that return
   without a signal; `DnwDriver` with the windows of the probe, detaches that take
   a claim away, zero and short returns; `TcpScan` with stray descriptors; a
   `FileTransfer` whose client may write to a server that has just gone.
   `TakenIsServed` was restated and proved without a restriction on the clients;
   a property that counted sessions against clients was dropped, since the code
   does not keep it.

## 6. What is left to do

In order: the shutdown of the RTSP server on SIGINT; the rotation of the log of
the HTTP server.

## 7. Not modelled

Most of the repository cannot be modelled to any use: of its 172,000 lines the
bulk is vendored (x264, minilzo, libinifile, libusb, tstools, goahead,
h264bitstream, MD5) or independent single-file exercises out of a book. The map
covers the small systems written for this repository that have state worth a
model, and stays below two percent of all lines for that reason. The rest:

* `sendfile/`: one loop over one socket; the receiver writes 512 bytes to its
  file whatever it has read and stores the byte that ends a read one place behind
  its buffer, so that there is nothing to state that holds of it.
* `datapush/`, `audio-video/wave`, `Camera/src`, `Multicast_Test`: one thread of
  input and output, paced by a device.
* `library/libconffile`, `Desktop_Entry_Utility`: tables of lines edited by one
  thread; what is hard in them is parsing text.
* `Http_Server_BaseOn_LibEvent`: callbacks of one event loop, each of which
  answers one request.
* `h264/`, `audio-video/esmerge/aac_h264`: byte formats.
* In components that are modelled: the IPv6 build of the scanner (the same code on
  other sockets), `read_seek` of the ring buffer (an empty body), the list macros
  nobody calls, requests and replies as text, RTCP reports as data, `accept`
  failures (in the RTSP server as well) and a table of descriptors that overflows
  in the receiving servers, the reuse of a closed descriptor, SIGPIPE and the
  teardown on SIGINT in the RTSP server, a driver that the core binds again while
  a tool configures or resets the device.
