----------------------------- MODULE ListServer -----------------------------
(***************************************************************************)
(* Tcp_Transferring_Files/server.c built with LIST_BUF: main appends one   *)
(* entry per read to the list of list_buf.c, the thread write_data2file    *)
(* writes the first entry out piece by piece and deletes it.  No lock is   *)
(* taken, so the loads and stores of list_add_tail and list_del (list.h)   *)
(* are steps of their own.  Node 0 is the list head; the k-th entry added  *)
(* is node k, and no two entries share memory.                             *)
(***************************************************************************)
EXTENDS Integers, Sequences

CONSTANTS Clients, Stream, BUFFER_SIZE,
          PIECE,    \* what one read_data writes at most (325)
          Faults    \* TRUE: malloc may fail, write may fall short

ASSUME ListServerAssumption ==
  /\ {Clients, Stream, BUFFER_SIZE, PIECE} \subseteq Nat \ {0}
  /\ Faults \in BOOLEAN

VARIABLES peer, sent, gone, taken, is_connected, readfds, chunk,
          next, prev,     \* the links of every node
          data,           \* per entry: the bytes it holds
          position,       \* per entry: the bytes already written
          freed,          \* the entries deleted and freed
          added,          \* how many entries were allocated
          mpc,            \* main: "loop", "tail", or the next store
          tail,           \* list_add_tail's head->prev
          wpc,            \* where the worker is
          entry,          \* the worker's entry
          e_prev, e_next, \* list_del's entry->prev and entry->next
          file            \* the bytes in test.h264

Net == INSTANCE SelectLoop

netVars == <<peer, sent, gone, taken, is_connected, readfds>>
listVars == <<next, prev, data, position, freed>>
mainVars == <<added, mpc, tail>>
workerVars == <<wpc, entry, e_prev, e_next, file>>
vars == <<netVars, chunk, listVars, mainVars, workerVars>>

MaxEntry == Clients * Stream
Entry == 1 .. MaxEntry
Node == {0} \cup Entry
NULL == -1
min(a, b) == IF a < b THEN a ELSE b

Init ==
  /\ Net!NetInit
  /\ next = [n \in Node |-> IF n = 0 THEN 0 ELSE NULL]
  /\ prev = [n \in Node |-> IF n = 0 THEN 0 ELSE NULL]
  /\ data = [e \in Entry |-> <<>>]
  /\ position = [e \in Entry |-> 0]
  /\ freed = {}
  /\ added = 0 /\ mpc = "loop" /\ tail = NULL
  /\ wpc = "poll" /\ entry = NULL /\ e_prev = NULL /\ e_next = NULL
  /\ file = <<>>

Clientele == Net!ClientStep /\ UNCHANGED <<listVars, mainVars, workerVars>>

MainLoop ==
  /\ mpc = "loop"
  /\ Net!ServerStep
  /\ UNCHANGED <<listVars, mainVars, workerVars>>

(* add_data_to_list: the entry is filled before it is linked. *)
Allocate ==
  /\ mpc = "loop" /\ chunk # <<>>
  /\ added' = added + 1
  /\ data' = [data EXCEPT ![added + 1] = chunk]
  /\ mpc' = "tail"
  /\ UNCHANGED <<netVars, chunk, next, prev, position, freed, tail,
                 workerVars>>

(* No memory: the bytes read are dropped. *)
AllocateFails ==
  /\ mpc = "loop" /\ chunk # <<>> /\ Faults
  /\ chunk' = <<>>
  /\ UNCHANGED <<netVars, listVars, mainVars, workerVars>>

LoadTail ==
  /\ mpc = "tail"
  /\ tail' = prev[0]
  /\ mpc' = "head_prev"
  /\ UNCHANGED <<netVars, chunk, listVars, added, workerVars>>

(* The stores of __list_add(new, tail, head), each named for the link it   *)
(* sets, and the store that comes after it.                                *)
Stores == [head_prev |-> "new_next", new_next |-> "new_prev",
           new_prev |-> "tail_next", tail_next |-> "loop"]

SetLink(store) ==
  \/ store = "head_prev" /\ prev' = [prev EXCEPT ![0] = added]
                         /\ UNCHANGED next
  \/ store = "new_next"  /\ next' = [next EXCEPT ![added] = 0]
                         /\ UNCHANGED prev
  \/ store = "new_prev"  /\ prev' = [prev EXCEPT ![added] = tail]
                         /\ UNCHANGED next
  \/ store = "tail_next" /\ next' = [next EXCEPT ![tail] = added]
                         /\ UNCHANGED prev

(* Mutant: the entry is made reachable before its own links are set. *)
LinkStoreHasty ==
  LET hasty == [head_prev |-> "tail_next", new_next |-> "head_prev",
                new_prev |-> "new_next", tail_next |-> "new_prev"]
  IN  /\ mpc \in DOMAIN Stores
      /\ SetLink(hasty[mpc])
      /\ mpc' = Stores[mpc]
      /\ chunk' = (IF mpc' = "loop" THEN <<>> ELSE chunk)
      /\ UNCHANGED <<netVars, data, position, freed, added, tail, workerVars>>

LinkStore ==
  /\ mpc \in DOMAIN Stores
  /\ SetLink(mpc)
  /\ mpc' = Stores[mpc]
  /\ chunk' = (IF mpc' = "loop" THEN <<>> ELSE chunk)
  /\ UNCHANGED <<netVars, data, position, freed, added, tail, workerVars>>

(* list_empty, then list_first_entry. *)
Poll ==
  /\ wpc = "poll" /\ next[0] # 0
  /\ wpc' = "first"
  /\ UNCHANGED <<netVars, chunk, listVars, mainVars, entry, e_prev, e_next,
                 file>>

First ==
  /\ wpc = "first"
  /\ entry' = next[0]
  /\ wpc' = "read"
  /\ UNCHANGED <<netVars, chunk, listVars, mainVars, e_prev, e_next, file>>

Rest(e) == Len(data[e]) - position[e]

(* Mutant: position advanced by what was asked for, not what was written. *)
ReadDataOver ==
  /\ wpc = "read"
  /\ LET size == min(Rest(entry), PIECE)
     IN  \E n \in 0 .. size :
           /\ n = size \/ Faults
           /\ file' = file \o SubSeq(data[entry], position[entry] + 1,
                                     position[entry] + n)
           /\ position' = [position EXCEPT ![entry] = @ + PIECE]
           /\ wpc' = (IF PIECE >= Rest(entry) THEN "del" ELSE "poll")
  /\ UNCHANGED <<netVars, chunk, next, prev, data, freed, mainVars, entry,
                 e_prev, e_next>>

(* Mutant: a short write offered again from its start. *)
ReadDataAgain ==
  /\ wpc = "read"
  /\ LET size == min(Rest(entry), PIECE)
     IN  \E n \in 0 .. size :
           /\ n = size \/ Faults
           /\ file' = file \o SubSeq(data[entry], position[entry] + 1,
                                     position[entry] + n)
           /\ position' = [position EXCEPT ![entry] =
                             IF n = size THEN @ + n ELSE @]
           /\ wpc' = (IF n = Rest(entry) THEN "del" ELSE "poll")
  /\ UNCHANGED <<netVars, chunk, next, prev, data, freed, mainVars, entry,
                 e_prev, e_next>>

(* read_data: what the write takes is not offered again; a failed write    *)
(* leaves the entry for the next turn.                                     *)
ReadData ==
  /\ wpc = "read"
  /\ LET size == min(Rest(entry), PIECE)
     IN  \E n \in 0 .. size :
           /\ n = size \/ Faults
           /\ file' = file \o SubSeq(data[entry], position[entry] + 1,
                                     position[entry] + n)
           /\ position' = [position EXCEPT ![entry] = @ + n]
           /\ wpc' = (IF n = Rest(entry) THEN "del" ELSE "poll")
  /\ UNCHANGED <<netVars, chunk, next, prev, data, freed, mainVars, entry,
                 e_prev, e_next>>

(* list_del: load both links, __list_del in two stores, clear and free. *)
LoadLinks ==
  /\ wpc = "del"
  /\ e_prev' = prev[entry] /\ e_next' = next[entry]
  /\ wpc' = "unlink_prev"
  /\ UNCHANGED <<netVars, chunk, listVars, mainVars, entry, file>>

UnlinkPrev ==
  /\ wpc = "unlink_prev"
  /\ prev' = [prev EXCEPT ![e_next] = e_prev]
  /\ wpc' = "unlink_next"
  /\ UNCHANGED <<netVars, chunk, next, data, position, freed, mainVars, entry,
                 e_prev, e_next, file>>

UnlinkNext ==
  /\ wpc = "unlink_next"
  /\ next' = [next EXCEPT ![e_prev] = e_next]
  /\ wpc' = "free"
  /\ UNCHANGED <<netVars, chunk, prev, data, position, freed, mainVars, entry,
                 e_prev, e_next, file>>

Free ==
  /\ wpc = "free"
  /\ next' = [next EXCEPT ![entry] = NULL]
  /\ prev' = [prev EXCEPT ![entry] = NULL]
  /\ freed' = freed \cup {entry}
  /\ wpc' = "poll"
  /\ UNCHANGED <<netVars, chunk, data, position, mainVars, entry, e_prev,
                 e_next, file>>

Main == MainLoop \/ Allocate \/ AllocateFails \/ LoadTail \/ LinkStore
Worker == Poll \/ First \/ ReadData \/ LoadLinks \/ UnlinkPrev \/ UnlinkNext
            \/ Free
Next == Clientele \/ Main \/ Worker
Spec == Init /\ [][Next]_vars
-----------------------------------------------------------------------------
TypeOK ==
  /\ Net!NetTypeOK
  /\ next \in [Node -> Node \cup {NULL}]
  /\ prev \in [Node -> Node \cup {NULL}]
  /\ data \in [Entry -> Seq(Net!AllBytes)]
  /\ position \in [Entry -> 0 .. BUFFER_SIZE]
  /\ freed \subseteq Entry
  /\ added \in 0 .. MaxEntry
  /\ mpc \in {"loop", "tail"} \cup DOMAIN Stores
  /\ tail \in Node \cup {NULL}
  /\ wpc \in {"poll", "first", "read", "del", "unlink_prev", "unlink_next",
              "free"}
  /\ {entry, e_prev, e_next} \subseteq Node \cup {NULL}
  /\ file \in Seq(Net!AllBytes)

(* The nodes on the way from the head along next, the k-th one first. *)
Forward[k \in Node] ==
  IF k = 0 THEN next[0]
  ELSE IF Forward[k - 1] \in Entry THEN next[Forward[k - 1]]
  ELSE Forward[k - 1]

(* Without a lock the worker is still safe from itself: walking the list   *)
(* from its head always comes back to the head, and meets no entry that    *)
(* was freed, so no entry is read after it is freed or freed twice.  (And  *)
(* all variables are typed.)                                               *)
WalkIsSafe ==
  /\ TypeOK
  /\ Forward[MaxEntry] = 0
  /\ \A k \in Node : Forward[k] \notin freed

(* The bytes of one client reach the file in the order it sent them and at *)
(* most once, with short and failed writes resumed where they stopped.     *)
ClientOrderKept ==
  \A i, j \in 1 .. Len(file) :
    i < j /\ (file[i] - 1) \div Stream = (file[j] - 1) \div Stream
      => file[i] < file[j]

(* An entry leaves the list only when all its bytes are in the file.       *)
FreedIsWritten ==
  \A e \in freed : \A i \in 1 .. Len(data[e]) :
    \E j \in 1 .. Len(file) : file[j] = data[e][i]

(* "Insert a new entry before the specified head.  This is useful for      *)
(* implementing queues." (list.h:72-73): an entry that was added is in the *)
(* list until it is deleted.                                               *)
AddedIsQueued ==
  mpc = "loop" =>
    \A e \in 1 .. added : \/ \E k \in Node : Forward[k] = e
                          \/ e \in freed
                          \/ e = entry /\ wpc \in {"unlink_next", "free"}
=============================================================================
