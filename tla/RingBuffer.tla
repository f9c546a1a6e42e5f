----------------------------- MODULE RingBuffer -----------------------------
(***************************************************************************)
(* The output ring buffer of xmcomp (ringbuffer.c) with the threads that   *)
(* use it: the workers, which write whole stanzas (worker_send), the       *)
(* writer thread, which sends chunks of the buffer (writer.c), and main(), *)
(* which switches the buffer offline, waits for the writer thread and      *)
(* clears the buffer between two sessions (mukite.c).                      *)
(*                                                                         *)
(* Addresses count from 0, the start of the memory area, to Size, its end. *)
(* The mutex is a variable of its own because it does not protect all of   *)
(* the state: ringbuffer_get_chunk loads data_size and online without it,  *)
(* and ringbuffer_offline and ringbuffer_clear store without it.           *)
(*                                                                         *)
(* A byte is identified by the worker that wrote it and its place in the   *)
(* stanza.  Memory that was released is Junk, so that reading it again     *)
(* would show, and a local that is not used any more is 0.                 *)
(***************************************************************************)
EXTENDS Integers, Sequences, FiniteSets

CONSTANTS
    Size,         \* writer.buffer: the size of the memory area
    Workers,      \* worker threads
    Lengths,      \* lengths of the stanzas they write
    ReloadsSize,  \* does the build load data_size again for each use in
                  \* ringbuffer_get_chunk (-g), or once (-O2)?
    MaxSessions,  \* bound on the number of connections
    MaxBacklog,   \* bound on data_size, which grows without limit once a
                  \* failed send has moved read_position before the start
    None          \* not a worker

ASSUME RingAssumption ==
    /\ Size \in Nat \ {0}
    /\ Lengths \subseteq Nat \ {0}
    /\ ReloadsSize \in BOOLEAN
    /\ MaxSessions \in Nat \ {0}
    /\ MaxBacklog \in Nat /\ MaxBacklog >= Size
    /\ None \notin Workers

Addresses == 0..Size - 1
\* A byte that no worker wrote: fresh memory, or memory outside the area.
Junk == <<None, 0>>
Bytes == {<<w, k>> : w \in Workers, k \in UNION {1..n : n \in Lengths}}

VARIABLES
    mem,             \* the memory area
    read_position,
    write_position,
    data_size,
    online,
    mutex,           \* the worker that holds ringbuffer_mutex, or None
    worker_pc,
    length,          \* length of the stanza a worker writes
    written,         \* bytes of it that are in the buffer
    write_size,      \* ringbuffer_write's local of that name
    writer_pc,
    size,            \* the local of writer_thread_entry
    connected,       \* socket.connected
    main_pc,
    session,
    out,             \* history: the bytes of the last send
    last,            \* history: the worker whose bytes were accepted last
    overflowed,      \* history: did the worker wait for space in its stanza?
    raced            \* history: was there a write after the writer thread
                     \* found the buffer empty and before it slept?

ring == <<mem, read_position, write_position, data_size, online>>
workers == <<worker_pc, length, written, write_size>>
writer == <<writer_pc, size, connected>>
main == <<main_pc, session>>
history == <<out, last, overflowed, raced>>
vars == <<ring, mutex, workers, writer, main, history>>

Smaller(a, b) == IF a < b THEN a ELSE b

-----------------------------------------------------------------------------
Init ==
    /\ mem = [a \in Addresses |-> Junk]
    /\ read_position = 0
    /\ write_position = 0
    /\ data_size = 0
    /\ online = TRUE
    /\ mutex = None
    /\ worker_pc = [w \in Workers |-> "idle"]
    /\ length = [w \in Workers |-> 0]
    /\ written = [w \in Workers |-> 0]
    /\ write_size = [w \in Workers |-> 0]
    /\ writer_pc = "check"
    /\ size = 0
    /\ connected = TRUE
    /\ main_pc = "join_reader"
    /\ session = 1
    /\ out = <<>>
    /\ last = None
    /\ overflowed = [w \in Workers |-> FALSE]
    /\ raced = FALSE

-----------------------------------------------------------------------------
(* pthread_cond_signal on the two condition variables.                     *)

SignalData ==
    /\ writer_pc' = IF writer_pc = "wait" THEN "relock" ELSE writer_pc
    /\ raced' = (raced \/ writer_pc \in {"online", "lock"})

Sleeping == {w \in Workers : worker_pc[w] = "wait"}

SignalFree ==
    IF Sleeping = {}
    THEN UNCHANGED worker_pc
    ELSE \E w \in Sleeping : worker_pc' = [worker_pc EXCEPT ![w] = "relock"]

-----------------------------------------------------------------------------
(* ringbuffer_write, called by a worker for each stanza it sends.          *)

WriteLock(w) ==
    /\ worker_pc[w] = "idle"
    /\ mutex = None
    /\ data_size <= MaxBacklog
    /\ mutex' = w
    /\ \E n \in Lengths : length' = [length EXCEPT ![w] = n]
    /\ worker_pc' = [worker_pc EXCEPT ![w] = "copy"]
    /\ UNCHANGED <<ring, written, write_size, writer, main, history>>

\* A full buffer taken for an empty one.
BlockMutant ==
    IF write_position < read_position /\ data_size > 0
    THEN read_position - write_position
    ELSE Size - write_position

continuous_block_size ==
    IF write_position <= read_position /\ data_size > 0
    THEN read_position - write_position
    ELSE Size - write_position

WriteWait(w) ==
    /\ worker_pc[w] = "copy"
    /\ continuous_block_size = 0
    /\ worker_pc' = [worker_pc EXCEPT ![w] = "wait"]
    /\ overflowed' = [overflowed EXCEPT ![w] = TRUE]
    /\ mutex' = None
    /\ UNCHANGED <<ring, length, written, write_size, writer, main, out, last,
                   raced>>

WriteSpuriousWakeup(w) ==
    /\ worker_pc[w] = "wait"
    /\ worker_pc' = [worker_pc EXCEPT ![w] = "relock"]
    /\ UNCHANGED <<ring, mutex, length, written, write_size, writer, main,
                   history>>

WriteRelock(w) ==
    /\ worker_pc[w] = "relock"
    /\ mutex = None
    /\ mutex' = w
    /\ worker_pc' = [worker_pc EXCEPT ![w] = "copy"]
    /\ UNCHANGED <<ring, length, written, write_size, writer, main, history>>

\* memcpy and the new write_position ...
WriteCopy(w) ==
    /\ worker_pc[w] = "copy"
    /\ continuous_block_size # 0
    /\ LET n == Smaller(continuous_block_size, length[w] - written[w]) IN
       /\ mem' = [a \in Addresses |->
                    IF a \in write_position..write_position + n - 1
                    THEN <<w, written[w] + (a - write_position) + 1>>
                    ELSE mem[a]]
       /\ write_position' = IF write_position + n = Size
                            THEN 0 ELSE write_position + n
       /\ write_size' = [write_size EXCEPT ![w] = n]
    /\ worker_pc' = [worker_pc EXCEPT ![w] = "account"]
    /\ UNCHANGED <<read_position, data_size, online, mutex, length, written,
                   writer, main, history>>

\* A ringbuffer_write that lets the mutex go between two chunks of a stanza.
WriteAccountUnlocks(w) ==
    /\ worker_pc[w] = "account"
    /\ data_size' = data_size + write_size[w]
    /\ written' = [written EXCEPT ![w] = @ + write_size[w]]
    /\ last' = w
    /\ worker_pc' = [worker_pc EXCEPT
                       ![w] = IF written'[w] = length[w] THEN "idle" ELSE "relock"]
    /\ mutex' = None
    /\ SignalData
    /\ UNCHANGED <<mem, read_position, write_position, online, length,
                   write_size, size, connected, main, out, overflowed>>

\* A ringbuffer_write that forgets to signal.
WriteAccountNoSignal(w) ==
    /\ worker_pc[w] = "account"
    /\ data_size' = data_size + write_size[w]
    /\ write_size' = [write_size EXCEPT ![w] = 0]
    /\ last' = w
    /\ \/ /\ written[w] + write_size[w] < length[w]
          /\ written' = [written EXCEPT ![w] = @ + write_size[w]]
          /\ worker_pc' = [worker_pc EXCEPT ![w] = "copy"]
          /\ UNCHANGED <<mutex, length, overflowed>>
       \/ /\ written[w] + write_size[w] = length[w]
          /\ written' = [written EXCEPT ![w] = 0]
          /\ length' = [length EXCEPT ![w] = 0]
          /\ overflowed' = [overflowed EXCEPT ![w] = FALSE]
          /\ worker_pc' = [worker_pc EXCEPT ![w] = "idle"]
          /\ mutex' = None
    /\ UNCHANGED <<mem, read_position, write_position, online, writer, main, out,
                   raced>>

\* ... then the new data_size, the signal, and the next chunk or the unlock.
WriteAccount(w) ==
    /\ worker_pc[w] = "account"
    /\ data_size' = data_size + write_size[w]
    /\ write_size' = [write_size EXCEPT ![w] = 0]
    /\ last' = w
    /\ \/ /\ written[w] + write_size[w] < length[w]
          /\ written' = [written EXCEPT ![w] = @ + write_size[w]]
          /\ worker_pc' = [worker_pc EXCEPT ![w] = "copy"]
          /\ UNCHANGED <<mutex, length, overflowed>>
       \/ /\ written[w] + write_size[w] = length[w]
          /\ written' = [written EXCEPT ![w] = 0]
          /\ length' = [length EXCEPT ![w] = 0]
          /\ overflowed' = [overflowed EXCEPT ![w] = FALSE]
          /\ worker_pc' = [worker_pc EXCEPT ![w] = "idle"]
          /\ mutex' = None
    /\ SignalData
    /\ UNCHANGED <<mem, read_position, write_position, online, size, connected,
                   main, out>>

-----------------------------------------------------------------------------
(* ringbuffer_get_chunk and the loop of the writer thread.                 *)

\* while (!ringbuffer->data_size): a load without the mutex.
GetCheck ==
    /\ writer_pc = "check"
    /\ size' = data_size
    /\ writer_pc' = IF data_size = 0 THEN "online" ELSE "measure"
    /\ raced' = FALSE
    /\ UNCHANGED <<ring, mutex, workers, connected, main, out, last, overflowed>>

\* An empty buffer: 0 is returned, and the thread ends, if it is offline.
GetOnline ==
    /\ writer_pc = "online"
    /\ writer_pc' = IF online THEN "lock" ELSE "done"
    /\ UNCHANGED <<ring, mutex, workers, size, connected, main, history>>

\* The mutex is locked and given up again by pthread_cond_wait, which is
\* called without another look at data_size.
GetWait ==
    /\ writer_pc = "lock"
    /\ mutex = None
    /\ writer_pc' = "wait"
    /\ UNCHANGED <<ring, mutex, workers, size, connected, main, history>>

GetSpuriousWakeup ==
    /\ writer_pc = "wait"
    /\ writer_pc' = "relock"
    /\ UNCHANGED <<ring, mutex, workers, size, connected, main, history>>

GetRelock ==
    /\ writer_pc = "relock"
    /\ mutex = None
    /\ writer_pc' = "check"
    /\ UNCHANGED <<ring, mutex, workers, size, connected, main, history>>

\* A chunk that is not cut at the end of the memory area.
GetMeasureMutant ==
    /\ writer_pc = "measure"
    /\ writer_pc' = "send"
    /\ UNCHANGED <<ring, mutex, workers, size, connected, main, history>>

\* The chunk ends at the end of the data or of the memory area.  A build that
\* loads data_size again compares one value and returns the next one.
GetMeasure ==
    /\ writer_pc = "measure"
    /\ LET end_buffer_delta == Size - read_position
           data == IF ReloadsSize THEN data_size ELSE size
       IN  /\ size' = Smaller(end_buffer_delta, data)
           /\ writer_pc' = IF ReloadsSize /\ end_buffer_delta > data
                           THEN "reload" ELSE "send"
    /\ UNCHANGED <<ring, mutex, workers, connected, main, history>>

GetReload ==
    /\ writer_pc = "reload"
    /\ size' = data_size
    /\ writer_pc' = "send"
    /\ UNCHANGED <<ring, mutex, workers, connected, main, history>>

ByteAt(a) == IF a \in Addresses THEN mem[a] ELSE Junk

\* net_send: some of the bytes are sent; nothing, with result 0, on a socket
\* that is not connected any more; nothing, with result -1, on an error.
NetSend ==
    /\ writer_pc = "send"
    /\ \/ /\ connected
          /\ \E n \in 1..size :
                /\ size' = n
                /\ out' = [i \in 1..n |-> ByteAt(read_position + i - 1)]
       \/ /\ connected
          /\ size' = -1
          /\ UNCHANGED out
       \/ /\ ~connected
          /\ size' = 0
          /\ UNCHANGED out
    /\ writer_pc' = "release"
    /\ UNCHANGED <<ring, mutex, workers, connected, main, last, overflowed,
                   raced>>

\* A release that forgets to signal.
release_chunkMutant ==
    /\ writer_pc = "release"
    /\ mutex = None
    /\ read_position' = IF read_position + size = Size
                        THEN 0 ELSE read_position + size
    /\ data_size' = data_size - size
    /\ UNCHANGED worker_pc
    /\ writer_pc' = IF size < 0 \/ ~connected THEN "done" ELSE "check"
    /\ size' = 0
    /\ mem' = [a \in Addresses |->
                 IF a \in read_position..read_position + size - 1
                 THEN Junk ELSE mem[a]]
    /\ out' = <<>>
    /\ UNCHANGED <<write_position, online, mutex, length, written, write_size,
                   connected, main, last, overflowed, raced>>

ringbuffer_release_chunk ==
    /\ writer_pc = "release"
    /\ mutex = None
    /\ read_position' = IF read_position + size = Size
                        THEN 0 ELSE read_position + size
    /\ data_size' = data_size - size
    /\ SignalFree
    /\ writer_pc' = IF size < 0 \/ ~connected THEN "done" ELSE "check"
    /\ size' = 0
    /\ mem' = [a \in Addresses |->
                 IF a \in read_position..read_position + size - 1
                 THEN Junk ELSE mem[a]]
    /\ out' = <<>>
    /\ UNCHANGED <<write_position, online, mutex, length, written, write_size,
                   connected, main, last, overflowed, raced>>

-----------------------------------------------------------------------------
(* The reader thread and main().                                           *)

\* net_recv got the end of the stream.
Disconnect ==
    /\ main_pc = "join_reader"
    /\ connected
    /\ connected' = FALSE
    /\ UNCHANGED <<ring, mutex, workers, writer_pc, size, main, history>>

\* The reader thread ended, for whatever reason.  ringbuffer_offline: a store
\* without the mutex ...
Offline ==
    /\ main_pc = "join_reader"
    /\ online' = FALSE
    /\ main_pc' = "signal"
    /\ UNCHANGED <<mem, read_position, write_position, data_size, mutex,
                   workers, writer, session, history>>

\* ... and a signal.
OfflineSignal ==
    /\ main_pc = "signal"
    /\ writer_pc' = IF writer_pc = "wait" THEN "relock" ELSE writer_pc
    /\ main_pc' = "join_writer"
    /\ UNCHANGED <<ring, mutex, workers, size, connected, session, history>>

\* ringbuffer_clear, without the mutex, once the writer thread has ended: the
\* positions first ...
ClearPositions ==
    /\ main_pc = "join_writer"
    /\ writer_pc = "done"
    /\ read_position' = 0
    /\ write_position' = 0
    /\ main_pc' = "clear"
    /\ UNCHANGED <<mem, data_size, online, mutex, workers, writer, session,
                   history>>

\* ... then the size.
ClearSize ==
    /\ main_pc = "clear"
    /\ data_size' = 0
    /\ online' = TRUE
    /\ main_pc' = "connect"
    /\ UNCHANGED <<mem, read_position, write_position, mutex, workers, writer,
                   session, history>>

\* A new connection and a new writer thread.
Reconnect ==
    /\ main_pc = "connect"
    /\ session < MaxSessions
    /\ session' = session + 1
    /\ connected' = TRUE
    /\ writer_pc' = "check"
    /\ main_pc' = "join_reader"
    /\ UNCHANGED <<ring, mutex, workers, size, history>>

-----------------------------------------------------------------------------
WorkerStep(w) ==
    WriteWait(w) \/ WriteRelock(w) \/ WriteCopy(w) \/ WriteAccount(w)

WriterStep ==
    \/ GetCheck \/ GetOnline \/ GetWait \/ GetRelock \/ GetMeasure \/ GetReload
    \/ NetSend \/ ringbuffer_release_chunk

MainStep == OfflineSignal \/ ClearPositions \/ ClearSize \/ Reconnect

Next ==
    \/ \E w \in Workers : WriteLock(w) \/ WorkerStep(w) \/ WriteSpuriousWakeup(w)
    \/ WriterStep
    \/ GetSpuriousWakeup
    \/ Disconnect
    \/ Offline
    \/ MainStep

Spec == Init /\ [][Next]_vars

\* Threads that can run are scheduled and send() returns.  Nothing makes a
\* worker write, the connection end or a sleeping thread wake up without a
\* signal.  The mutex is granted to the writer thread even if workers keep
\* locking it.
Fairness ==
    /\ \A w \in Workers : WF_vars(WorkerStep(w))
    /\ SF_vars(WriterStep)
    /\ WF_vars(MainStep)

FairSpec == Spec /\ Fairness
-----------------------------------------------------------------------------
(* Properties.                                                             *)

WorkerPC == {"idle", "copy", "account", "wait", "relock"}
WriterPC == {"check", "online", "lock", "wait", "relock", "measure", "reload",
             "send", "release", "done"}
MainPC == {"join_reader", "signal", "join_writer", "clear", "connect"}

\* Every variable has its type, and the mutex is held exactly by the worker
\* that is inside ringbuffer_write and not waiting there.
TypeOK ==
    /\ mem \in [Addresses -> Bytes \cup {Junk}]
    /\ read_position \in Int
    /\ write_position \in Addresses
    /\ data_size \in Int
    /\ online \in BOOLEAN
    /\ mutex \in Workers \cup {None}
    /\ worker_pc \in [Workers -> WorkerPC]
    /\ \A w \in Workers : worker_pc[w] \in {"copy", "account"} <=> mutex = w
    /\ length \in [Workers -> Lengths \cup {0}]
    /\ written \in [Workers -> Nat]
    /\ write_size \in [Workers -> Nat]
    /\ writer_pc \in WriterPC
    /\ size \in Int
    /\ connected \in BOOLEAN
    /\ main_pc \in MainPC
    /\ session \in 1..MaxSessions
    /\ last \in Workers \cup {None}
    /\ overflowed \in [Workers -> BOOLEAN]
    /\ raced \in BOOLEAN

\* Bytes that are in memory and not yet in data_size.
Pending == IF mutex # None /\ worker_pc[mutex] = "account"
           THEN write_size[mutex] ELSE 0

\* ringbuffer.h:24-42: both positions are addresses of the memory area, no
\* more than the area is used, and write_position is "In fact, cycled
\* (read_position+data_size)".
PositionsAgree ==
    writer_pc # "done" =>
        /\ read_position \in Addresses
        /\ data_size >= 0 /\ data_size + Pending <= Size
        /\ \/ write_position = read_position + data_size + Pending
           \/ write_position = read_position + data_size + Pending - Size

\* What ringbuffer_get_chunk hands to send() is inside the memory area and
\* holds bytes that were accounted for, whatever the workers add meanwhile.
ChunkInside ==
    writer_pc = "send" =>
        size > 0 /\ size <= data_size /\ read_position + size <= Size

\* Whatever is between the two positions can be sent, and nothing else is.
RingSound == TypeOK /\ PositionsAgree /\ ChunkInside

\* The writer thread sleeps while there is data only if that data was written
\* between its look at data_size, which holds no lock, and its wait.
SleepsOnlyByRace ==
    writer_pc = "wait" /\ data_size > 0 => raced

\* A worker that sleeps for space is never forgotten while the writer thread
\* lives: either there is data, whose release will wake a worker, or another
\* worker is on its way to write some.
SleepingWorkersHaveHope ==
    Sleeping # {} /\ writer_pc # "done" =>
        \/ data_size > 0
        \/ \E w \in Workers : worker_pc[w] \in {"relock", "copy", "account"}

\* The bytes of a stanza are contiguous in the stream unless the buffer was
\* full while it was written: only then may another worker's bytes come in
\* between.
TornOnlyByOverflow ==
    \A w \in Workers :
        0 < written[w] /\ written[w] < length[w] /\ ~overflowed[w] => last = w

\* The bytes accepted and not yet sent.  Those of a chunk that send() took are
\* still in the buffer until the chunk is released.
Taken == IF writer_pc = "release" /\ size > 0 THEN size ELSE 0
Unsent == IF writer_pc = "done"
          THEN <<>>
          ELSE [i \in 1..data_size - Taken |->
                   mem[(read_position + Taken + i - 1) % Size]]

\* The connection as the writer thread finds it (writer.c:17-25): it gives up
\* when the buffer is offline, send() failed or the socket is not connected.
Line == IF writer_pc = "done" THEN "over"
        ELSE IF connected /\ online /\ ~(writer_pc = "release" /\ size < 0)
        THEN "up" ELSE "down"

\* What goes to the network is the stream of the bytes of the stanzas that the
\* workers wrote, each stanza from its first byte to its last: nothing lost
\* before the line is down and the writer thread ends, and nothing repeated,
\* reordered or overwritten, however the positions wrap, send() stops short
\* and the workers get in between.
Stream == INSTANCE OutputStream WITH
    Capacity <- Size,
    unsent <- Unsent,
    stanza <- length,
    accepted <- written,
    line <- Line

ImplementsStream == Stream!Spec

\* Data in the buffer is eventually sent, except when the writer thread has
\* slept through its arrival.
BytesAreSent ==
    data_size > 0 ~> \/ writer_pc \in {"release", "done"}
                     \/ writer_pc = "wait" /\ raced
=============================================================================
