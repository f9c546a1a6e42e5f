-------------------------- MODULE RingBufferProofs --------------------------
(***************************************************************************)
(* Proofs about the output ring buffer, for every buffer size, number of   *)
(* workers and stanza lengths.  SleepsOnlyByRace and TornOnlyByOverflow    *)
(* hold for every build and number of sessions.  The others are about one  *)
(* session (MaxSessions = 1) and the build that loads data_size once       *)
(* (ReloadsSize = FALSE): TLC finds RingSound violated without either.     *)
(*                                                                         *)
(* PositionsAgree is not inductive: what a worker adds and what the writer *)
(* thread removes fit only because of what their locals were computed      *)
(* from.  LocalsFit says so.  The refinement of OutputStream also needs    *)
(* that what a worker copied and did not account for yet is in memory,     *)
(* behind the data, until it does (PendingWritten), and that no copy       *)
(* touches a place between the positions (CopyPlace).                      *)
(***************************************************************************)
EXTENDS RingBuffer, TLAPS

\* The locals of the threads agree with the shared state at each pc.
LocalsFit ==
    /\ \A w \in Workers :
          /\ worker_pc[w] # "idle" => written[w] < length[w]
          /\ worker_pc[w] = "idle" => written[w] = 0 /\ length[w] = 0
          /\ worker_pc[w] = "account" =>
                write_size[w] > 0 /\ written[w] + write_size[w] <= length[w]
    /\ writer_pc = "measure" => size > 0 /\ size <= data_size
    /\ writer_pc = "release" =>
          size >= -1 /\ size <= data_size /\ read_position + size <= Size
    /\ writer_pc # "reload"
    /\ read_position >= -1 /\ read_position < Size
    /\ main_pc \in {"clear", "connect"} => writer_pc = "done"

RingInv == TypeOK /\ PositionsAgree /\ ChunkInside /\ LocalsFit

-----------------------------------------------------------------------------
\* The state main() hands to the threads satisfies the invariant.
LEMMA RingInit == Init => RingInv
<1> SUFFICES ASSUME Init PROVE RingInv
  OBVIOUS
<1> USE RingAssumption DEF Init
<1>1. TypeOK
  BY DEF TypeOK, Addresses, WorkerPC, WriterPC, MainPC
<1>2. Pending = 0
  BY DEF Pending
<1>3. PositionsAgree /\ ChunkInside /\ LocalsFit
  BY <1>2 DEF PositionsAgree, ChunkInside, LocalsFit, Addresses
<1> QED
  BY <1>1, <1>3 DEF RingInv

\* A worker's locals are numbers, and it holds the mutex where it copies.
LEMMA WorkerFacts ==
    ASSUME TypeOK, NEW w \in Workers
    PROVE  /\ length[w] \in Nat /\ length[w] \in Lengths \cup {0}
           /\ written[w] \in Nat
           /\ write_size[w] \in Nat
           /\ worker_pc[w] \in WorkerPC
           /\ worker_pc[w] \in {"copy", "account"} <=> mutex = w
<1>1. /\ length \in [Workers -> Lengths \cup {0}]
      /\ written \in [Workers -> Nat]
      /\ write_size \in [Workers -> Nat]
      /\ worker_pc \in [Workers -> WorkerPC]
  BY DEF TypeOK
<1>2. length[w] \in Nat
  <2>1. Lengths \cup {0} \subseteq Nat
    BY RingAssumption
  <2> QED
    BY <1>1, <2>1
<1>3. worker_pc[w] \in {"copy", "account"} <=> mutex = w
  BY DEF TypeOK
<1> QED
  BY <1>1, <1>2, <1>3 DEF WorkerPC

\* A worker starts a stanza under the mutex.
LEMMA WriteLockInv ==
    ASSUME RingInv, NEW w \in Workers, WriteLock(w)
    PROVE  RingInv'
<1> USE RingAssumption DEF RingInv
<1>1. PICK n \in Lengths : length' = [length EXCEPT ![w] = n]
  BY DEF WriteLock
<1>2. /\ worker_pc[w] = "idle" /\ mutex = None /\ mutex' = w
      /\ worker_pc' = [worker_pc EXCEPT ![w] = "copy"]
      /\ UNCHANGED <<mem, read_position, write_position, data_size, online,
                     written, write_size, writer_pc, size, connected, main_pc,
                     session, out, last, overflowed, raced>>
  BY DEF WriteLock, ring, writer, main, history
<1>3. TypeOK'
  BY <1>1, <1>2 DEF TypeOK, WorkerPC
<1>4. Pending = 0 /\ Pending' = 0
  BY <1>2 DEF Pending, TypeOK
<1>5. PositionsAgree' /\ ChunkInside'
  BY <1>2, <1>4 DEF PositionsAgree, ChunkInside
<1>6. n > 0 /\ n \in Nat
  OBVIOUS
<1>7. LocalsFit'
  BY <1>1, <1>2, <1>6 DEF LocalsFit, TypeOK
<1> QED
  BY <1>3, <1>5, <1>7

\* Waiting for space, waking up and locking again only move the mutex.
LEMMA WriteWaitInv ==
    ASSUME RingInv, NEW w \in Workers,
           WriteWait(w) \/ WriteSpuriousWakeup(w) \/ WriteRelock(w)
    PROVE  RingInv'
<1> USE RingAssumption DEF RingInv
<1>1. /\ UNCHANGED <<mem, read_position, write_position, data_size, online,
                     length, written, write_size, writer_pc, size, connected,
                     main_pc, session, out, last, raced>>
      /\ overflowed' \in [Workers -> BOOLEAN]
  BY DEF WriteWait, WriteSpuriousWakeup, WriteRelock, ring, writer, main,
         history, TypeOK
<1>2. /\ worker_pc[w] \in {"copy", "wait", "relock"}
      /\ \/ /\ worker_pc[w] = "copy" /\ mutex' = None
            /\ worker_pc' = [worker_pc EXCEPT ![w] = "wait"]
         \/ /\ worker_pc[w] = "wait" /\ mutex' = mutex
            /\ worker_pc' = [worker_pc EXCEPT ![w] = "relock"]
         \/ /\ worker_pc[w] = "relock" /\ mutex = None /\ mutex' = w
            /\ worker_pc' = [worker_pc EXCEPT ![w] = "copy"]
  BY DEF WriteWait, WriteSpuriousWakeup, WriteRelock
<1>3. TypeOK'
  BY <1>1, <1>2 DEF TypeOK, WorkerPC
<1>4. Pending' = Pending
  BY <1>1, <1>2 DEF Pending, TypeOK
<1>5. PositionsAgree' /\ ChunkInside'
  BY <1>1, <1>4 DEF PositionsAgree, ChunkInside
<1>6. LocalsFit'
  BY <1>1, <1>2 DEF LocalsFit, TypeOK
<1> QED
  BY <1>3, <1>5, <1>6

\* The copy of a chunk: it fits between write_position and the data or the
\* end of the area, and it is what Pending counts.
LEMMA WriteCopyInv ==
    ASSUME RingInv, NEW w \in Workers, WriteCopy(w)
    PROVE  RingInv'
<1> USE RingAssumption DEF RingInv
<1> DEFINE n == Smaller(continuous_block_size, length[w] - written[w])
<1>0. mutex = w
  BY WorkerFacts DEF WriteCopy
<1>1. /\ worker_pc[w] = "copy" /\ mutex = w
      /\ worker_pc' = [worker_pc EXCEPT ![w] = "account"]
      /\ write_size' = [write_size EXCEPT ![w] = n]
      /\ write_position' = IF write_position + n = Size
                           THEN 0 ELSE write_position + n
      /\ UNCHANGED <<read_position, data_size, online, mutex, length, written,
                     writer_pc, size, connected, main_pc, session, out, last,
                     overflowed, raced>>
  BY <1>0 DEF WriteCopy, writer, main, history
<1>2. /\ continuous_block_size \in Int /\ continuous_block_size > 0
      /\ write_position + continuous_block_size <= Size
  BY DEF WriteCopy, continuous_block_size, TypeOK, LocalsFit, Addresses
<1>3. /\ length[w] \in Lengths /\ length[w] \in Nat /\ written[w] \in Nat
      /\ written[w] < length[w]
  BY <1>1, WorkerFacts DEF LocalsFit
<1>4. /\ n \in Nat /\ n > 0 /\ n <= continuous_block_size
      /\ written[w] + n <= length[w]
  BY <1>2, <1>3 DEF Smaller
<1>5. write_position' \in Addresses
  BY <1>1, <1>2, <1>4 DEF TypeOK, Addresses
<1>6. mem' \in [Addresses -> Bytes \cup {Junk}]
  <2> SUFFICES ASSUME NEW a \in Addresses,
                      a \in write_position..write_position + n - 1
               PROVE  <<w, written[w] + (a - write_position) + 1>> \in Bytes
    BY DEF WriteCopy, TypeOK
  <2>1. written[w] + (a - write_position) + 1 \in 1..length[w]
    <3>1. write_position \in Int /\ a \in Int /\ a - write_position \in 0..n - 1
      BY <1>4 DEF Addresses, TypeOK
    <3> QED
      BY <1>3, <1>4, <3>1
  <2>2. written[w] + (a - write_position) + 1 \in UNION {1..m : m \in Lengths}
    BY <2>1, <1>3
  <2> QED
    BY <2>2 DEF Bytes
<1>7. TypeOK'
  BY <1>1, <1>4, <1>5, <1>6 DEF TypeOK, WorkerPC
<1>8. Pending = 0 /\ Pending' = n
  BY <1>1 DEF Pending, TypeOK
<1>9. PositionsAgree'
  <2> SUFFICES ASSUME writer_pc # "done"
               PROVE  /\ read_position \in Addresses
                      /\ data_size >= 0 /\ data_size + n <= Size
                      /\ \/ write_position' = read_position + data_size + n
                         \/ write_position' = read_position + data_size + n - Size
    BY <1>1, <1>8 DEF PositionsAgree
  <2>1. /\ read_position \in Addresses
        /\ data_size >= 0 /\ data_size <= Size
        /\ \/ write_position = read_position + data_size
           \/ write_position = read_position + data_size - Size
    BY <1>8 DEF PositionsAgree, TypeOK
  <2>2. CASE write_position <= read_position /\ data_size > 0
    <3>1. n <= read_position - write_position
      BY <2>2, <1>4 DEF continuous_block_size
    <3>2. write_position = read_position + data_size - Size
      BY <2>1, <2>2 DEF TypeOK, Addresses
    <3> QED
      BY <2>1, <3>1, <3>2, <1>1, <1>4 DEF TypeOK, Addresses
  <2>3. CASE ~(write_position <= read_position /\ data_size > 0)
    <3>1. n <= Size - write_position
      BY <2>3, <1>4 DEF continuous_block_size
    <3>2. write_position = read_position + data_size
      BY <2>1, <2>3 DEF TypeOK, Addresses
    <3> QED
      BY <2>1, <3>1, <3>2, <1>1, <1>4 DEF TypeOK, Addresses
  <2> QED
    BY <2>2, <2>3
<1>10. ChunkInside'
  BY <1>1 DEF ChunkInside
<1>11. LocalsFit'
  BY <1>1, <1>4 DEF LocalsFit, TypeOK
<1> QED
  BY <1>7, <1>9, <1>10, <1>11

\* Accounting for the chunk: data_size takes over what Pending counted.
LEMMA WriteAccountInv ==
    ASSUME RingInv, NEW w \in Workers, WriteAccount(w)
    PROVE  RingInv'
<1> USE RingAssumption DEF RingInv
<1>1. /\ worker_pc[w] = "account" /\ mutex = w
      /\ data_size' = data_size + write_size[w]
      /\ write_size' = [write_size EXCEPT ![w] = 0]
      /\ last' = w
      /\ UNCHANGED <<mem, read_position, write_position, online, size,
                     connected, main_pc, session, out>>
  BY WorkerFacts DEF WriteAccount, main
<1>2. /\ writer_pc' = IF writer_pc = "wait" THEN "relock" ELSE writer_pc
      /\ raced' \in BOOLEAN
  BY DEF WriteAccount, SignalData, TypeOK
<1>3. /\ write_size[w] \in Nat /\ write_size[w] > 0
      /\ length[w] \in Nat /\ written[w] \in Nat
  BY <1>1, WorkerFacts DEF LocalsFit
<1>4. \/ /\ written[w] + write_size[w] < length[w]
         /\ written' = [written EXCEPT ![w] = written[w] + write_size[w]]
         /\ worker_pc' = [worker_pc EXCEPT ![w] = "copy"]
         /\ UNCHANGED <<mutex, length, overflowed>>
      \/ /\ written' = [written EXCEPT ![w] = 0]
         /\ length' = [length EXCEPT ![w] = 0]
         /\ overflowed' = [overflowed EXCEPT ![w] = FALSE]
         /\ worker_pc' = [worker_pc EXCEPT ![w] = "idle"]
         /\ mutex' = None
  BY DEF WriteAccount
<1>5. TypeOK'
  <2>1. /\ worker_pc' \in [Workers -> WorkerPC]
        /\ \A u \in Workers : worker_pc'[u] \in {"copy", "account"} <=> mutex' = u
        /\ mutex' \in Workers \cup {None}
    BY <1>1, <1>4 DEF TypeOK, WorkerPC
  <2>2. /\ length' \in [Workers -> Lengths \cup {0}]
        /\ written' \in [Workers -> Nat] /\ write_size' \in [Workers -> Nat]
        /\ overflowed' \in [Workers -> BOOLEAN] /\ last' \in Workers \cup {None}
    <3>1. written' \in [Workers -> Nat] /\ write_size' \in [Workers -> Nat]
      BY <1>1, <1>3, <1>4 DEF TypeOK
    <3>2. length' \in [Workers -> Lengths \cup {0}]
      BY <1>4 DEF TypeOK
    <3>3. overflowed' \in [Workers -> BOOLEAN] /\ last' \in Workers \cup {None}
      BY <1>1, <1>4 DEF TypeOK
    <3> QED
      BY <3>1, <3>2, <3>3
  <2>3. writer_pc' \in WriterPC /\ data_size' \in Int
    BY <1>1, <1>2, <1>3 DEF TypeOK, WriterPC
  <2> QED
    BY <2>1, <2>2, <2>3, <1>1, <1>2 DEF TypeOK
<1>6. Pending = write_size[w]
  BY <1>1 DEF Pending, TypeOK
<1>7. Pending' = 0
  BY <1>1, <1>4 DEF Pending, TypeOK
<1>8. PositionsAgree'
  BY <1>1, <1>2, <1>3, <1>6, <1>7 DEF PositionsAgree, TypeOK, Addresses
<1>9. ChunkInside'
  BY <1>1, <1>2, <1>3 DEF ChunkInside, TypeOK
<1>10. LocalsFit'
  <2>1. \A u \in Workers :
          /\ worker_pc'[u] # "idle" => written'[u] < length'[u]
          /\ worker_pc'[u] = "idle" => written'[u] = 0 /\ length'[u] = 0
          /\ worker_pc'[u] = "account" =>
                write_size'[u] > 0 /\ written'[u] + write_size'[u] <= length'[u]
    BY <1>1, <1>3, <1>4 DEF LocalsFit, TypeOK
  <2> QED
    BY <2>1, <1>1, <1>2, <1>3 DEF LocalsFit, TypeOK
<1> QED
  BY <1>5, <1>8, <1>9, <1>10

-----------------------------------------------------------------------------
\* The writer thread before it sends: the value of data_size it works with is
\* at most the real one, since only the writer thread itself makes it smaller.
LEMMA GetChunkInv ==
    ASSUME RingInv, ReloadsSize = FALSE,
           GetCheck \/ GetOnline \/ GetWait \/ GetSpuriousWakeup \/ GetRelock
             \/ GetMeasure \/ GetReload
    PROVE  RingInv'
<1> USE RingAssumption DEF RingInv
<1>1. /\ UNCHANGED <<mem, read_position, write_position, data_size, online,
                     mutex, worker_pc, length, written, write_size, connected,
                     main_pc, session, out, last, overflowed>>
      /\ raced' \in BOOLEAN
      /\ writer_pc # "done"
  BY DEF GetCheck, GetOnline, GetWait, GetSpuriousWakeup, GetRelock, GetMeasure,
         GetReload, ring, workers, main, history, TypeOK
<1>2. Pending' = Pending
  BY <1>1 DEF Pending
<1>3. PositionsAgree'
  BY <1>1, <1>2 DEF PositionsAgree
<1>4. read_position \in Addresses /\ data_size >= 0 /\ data_size \in Int
  BY <1>1 DEF PositionsAgree, TypeOK
<1>5. \/ /\ writer_pc' = "measure" /\ size' = data_size /\ data_size # 0
      \/ /\ writer_pc' \in {"online", "lock", "wait", "relock", "check", "done"}
         /\ size' \in Int
      \/ /\ writer_pc' = "send" /\ writer_pc = "measure"
         /\ size' = Smaller(Size - read_position, size)
  BY DEF GetCheck, GetOnline, GetWait, GetSpuriousWakeup, GetRelock, GetMeasure,
         GetReload, LocalsFit, TypeOK
<1>6. size' \in Int /\ writer_pc' \in WriterPC
  BY <1>4, <1>5 DEF TypeOK, WriterPC, Smaller, Addresses
<1>7. TypeOK'
  BY <1>1, <1>6 DEF TypeOK
<1>8. ChunkInside'
  BY <1>1, <1>4, <1>5 DEF ChunkInside, LocalsFit, Smaller, TypeOK, Addresses
<1>9. LocalsFit'
  <2>1. writer_pc' = "measure" => size' > 0 /\ size' <= data_size'
    BY <1>1, <1>4, <1>5
  <2>2. writer_pc' # "release" /\ writer_pc' # "reload"
    BY <1>5
  <2>3. ~(main_pc \in {"clear", "connect"})
    BY <1>1 DEF LocalsFit
  <2> QED
    BY <2>1, <2>2, <2>3, <1>1 DEF LocalsFit
<1> QED
  BY <1>3, <1>7, <1>8, <1>9

\* send() takes at most the chunk.
LEMMA NetSendInv ==
    ASSUME RingInv, NetSend
    PROVE  RingInv'
<1> USE RingAssumption DEF RingInv
<1>1. /\ UNCHANGED <<mem, read_position, write_position, data_size, online,
                     mutex, worker_pc, length, written, write_size, connected,
                     main_pc, session, last, overflowed, raced>>
      /\ writer_pc = "send" /\ writer_pc' = "release"
      /\ \/ \E n \in 1..size : size' = n
         \/ size' \in {-1, 0}
  BY DEF NetSend, ring, workers, main
<1>2. /\ size \in Int /\ data_size \in Int /\ read_position \in Int
      /\ size > 0 /\ size <= data_size
      /\ read_position + size <= Size
  BY <1>1 DEF ChunkInside, TypeOK
<1>3. PICK k \in Int : size' = k /\ k >= -1 /\ k <= size
  BY <1>1, <1>2
<1>4. TypeOK'
  BY <1>1, <1>3 DEF TypeOK, WriterPC
<1>5. Pending' = Pending
  BY <1>1 DEF Pending
<1>6. PositionsAgree' /\ ChunkInside'
  BY <1>1, <1>5 DEF PositionsAgree, ChunkInside
<1>7. LocalsFit'
  <2>1. k >= -1 /\ k <= data_size /\ read_position + k <= Size
    BY <1>2, <1>3
  <2>2. size' >= -1 /\ size' <= data_size' /\ read_position' + size' <= Size
    BY <2>1, <1>1, <1>3
  <2> QED
    BY <2>2, <1>1 DEF LocalsFit
<1> QED
  BY <1>4, <1>6, <1>7

\* The release of what was sent.  After an error (-1) the writer thread ends.
LEMMA ReleaseInv ==
    ASSUME RingInv, ringbuffer_release_chunk
    PROVE  RingInv'
<1> USE RingAssumption DEF RingInv
<1>1. /\ writer_pc = "release" /\ mutex = None
      /\ read_position' = IF read_position + size = Size
                          THEN 0 ELSE read_position + size
      /\ data_size' = data_size - size
      /\ size' = 0
      /\ writer_pc' \in {"done", "check"}
      /\ size < 0 => writer_pc' = "done"
      /\ UNCHANGED <<write_position, online, mutex, length, written, write_size,
                     connected, main_pc, session, last, overflowed, raced>>
  BY DEF ringbuffer_release_chunk, main
<1>2. /\ size \in Int /\ size >= -1 /\ size <= data_size
      /\ read_position + size <= Size
      /\ data_size \in Int /\ read_position \in Int
  BY <1>1 DEF LocalsFit, TypeOK
<1>3. mem' \in [Addresses -> Bytes \cup {Junk}]
  BY DEF ringbuffer_release_chunk, TypeOK
<1>4. /\ worker_pc' \in [Workers -> WorkerPC]
      /\ \A w \in Workers : \/ worker_pc'[w] = worker_pc[w]
                            \/ worker_pc[w] = "wait" /\ worker_pc'[w] = "relock"
  BY DEF ringbuffer_release_chunk, SignalFree, Sleeping, TypeOK, WorkerPC
<1>5. TypeOK'
  <2>1. \A w \in Workers : worker_pc'[w] \in {"copy", "account"} <=> mutex' = w
    BY <1>1, <1>4, WorkerFacts
  <2>2. read_position' \in Int /\ data_size' \in Int /\ size' \in Int
    BY <1>1, <1>2
  <2> QED
    BY <2>1, <2>2, <1>1, <1>3, <1>4 DEF TypeOK, WriterPC
<1>6. Pending = 0 /\ Pending' = 0
  BY <1>1 DEF Pending
<1>7. /\ read_position \in Addresses /\ data_size >= 0 /\ data_size <= Size
      /\ \/ write_position = read_position + data_size
         \/ write_position = read_position + data_size - Size
  BY <1>1, <1>2, <1>6 DEF PositionsAgree
<1>8. PositionsAgree'
  <2> SUFFICES ASSUME size >= 0
               PROVE  /\ read_position' \in Addresses
                      /\ data_size' >= 0 /\ data_size' <= Size
                      /\ \/ write_position = read_position' + data_size'
                         \/ write_position = read_position' + data_size' - Size
    BY <1>1, <1>2, <1>5, <1>6 DEF PositionsAgree, TypeOK
  <2>1. write_position \in Addresses
    BY DEF TypeOK
  <2> QED
    BY <2>1, <1>1, <1>2, <1>7 DEF Addresses
<1>9. ChunkInside'
  BY <1>1 DEF ChunkInside
<1>10. LocalsFit'
  <2>1. read_position' >= -1 /\ read_position' < Size
    BY <1>1, <1>2, <1>7 DEF Addresses
  <2>2. \A w \in Workers :
          /\ worker_pc'[w] # "idle" => written[w] < length[w]
          /\ worker_pc'[w] = "idle" => written[w] = 0 /\ length[w] = 0
          /\ worker_pc'[w] = "account" =>
                write_size[w] > 0 /\ written[w] + write_size[w] <= length[w]
    BY <1>4 DEF LocalsFit
  <2>3. ~(main_pc \in {"clear", "connect"})
    BY <1>1 DEF LocalsFit
  <2> QED
    BY <2>1, <2>2, <2>3, <1>1 DEF LocalsFit
<1> QED
  BY <1>5, <1>8, <1>9, <1>10

\* The end of the session.
LEMMA MainInv ==
    ASSUME RingInv, MaxSessions = 1, Disconnect \/ Offline \/ MainStep
    PROVE  RingInv'
<1> USE RingAssumption DEF RingInv
<1>1. CASE Disconnect
  <2>1. /\ UNCHANGED <<mem, read_position, write_position, data_size, online,
                       mutex, worker_pc, length, written, write_size, writer_pc,
                       size, main_pc, session, last, overflowed, raced>>
        /\ connected' = FALSE
    BY <1>1 DEF Disconnect, ring, workers, main, history
  <2> QED
    BY <2>1 DEF TypeOK, PositionsAgree, Pending, ChunkInside, LocalsFit
<1>2. CASE Offline \/ OfflineSignal
  <2>1. /\ UNCHANGED <<mem, read_position, write_position, data_size, mutex,
                       worker_pc, length, written, write_size, size, connected,
                       session, last, overflowed, raced>>
        /\ main_pc' \in {"signal", "join_writer"}
        /\ online' = FALSE \/ online' = online
        /\ writer_pc' = IF Offline THEN writer_pc
                        ELSE IF writer_pc = "wait" THEN "relock" ELSE writer_pc
    BY <1>2 DEF Offline, OfflineSignal, ring, workers, writer, history
  <2>2. TypeOK'
    BY <2>1 DEF TypeOK, MainPC, WriterPC
  <2>3. PositionsAgree' /\ ChunkInside'
    BY <2>1 DEF PositionsAgree, Pending, ChunkInside
  <2>4. LocalsFit'
    BY <2>1 DEF LocalsFit
  <2> QED
    BY <2>2, <2>3, <2>4
<1>3. CASE ClearPositions
  <2>1. /\ UNCHANGED <<mem, data_size, online, mutex, worker_pc, length, written,
                       write_size, writer_pc, size, connected, session, last,
                       overflowed, raced>>
        /\ main_pc' = "clear" /\ writer_pc = "done"
        /\ read_position' = 0 /\ write_position' = 0
    BY <1>3 DEF ClearPositions, workers, writer, history
  <2>2. TypeOK'
    BY <2>1 DEF TypeOK, MainPC, Addresses
  <2>3. PositionsAgree' /\ ChunkInside' /\ LocalsFit'
    BY <2>1 DEF PositionsAgree, ChunkInside, LocalsFit
  <2> QED
    BY <2>2, <2>3
<1>4. CASE ClearSize
  <2>1. /\ UNCHANGED <<mem, read_position, write_position, mutex, worker_pc,
                       length, written, write_size, writer_pc, size, connected,
                       session, last, overflowed, raced>>
        /\ main_pc = "clear" /\ main_pc' = "connect"
        /\ data_size' = 0 /\ online' = TRUE
    BY <1>4 DEF ClearSize, workers, writer, history
  <2>2. writer_pc = "done"
    BY <2>1 DEF LocalsFit
  <2>3. TypeOK'
    BY <2>1 DEF TypeOK, MainPC
  <2>4. PositionsAgree' /\ ChunkInside' /\ LocalsFit'
    BY <2>1, <2>2 DEF PositionsAgree, ChunkInside, LocalsFit
  <2> QED
    BY <2>3, <2>4
<1>5. ~Reconnect
  BY DEF Reconnect, TypeOK
<1> QED
  BY <1>1, <1>2, <1>3, <1>4, <1>5 DEF MainStep

\* A step that changes no variable.
LEMMA RingStutter == RingInv /\ UNCHANGED vars => RingInv'
<1> SUFFICES ASSUME RingInv, UNCHANGED vars PROVE RingInv'
  OBVIOUS
<1> USE DEF RingInv, vars, ring, workers, writer, main, history
<1>1. TypeOK'
  BY DEF TypeOK
<1>2. PositionsAgree' /\ ChunkInside' /\ LocalsFit'
  BY DEF PositionsAgree, Pending, ChunkInside, LocalsFit
<1> QED
  BY <1>1, <1>2

\* Every step of the session preserves the invariant.
LEMMA RingStep ==
    ASSUME ReloadsSize = FALSE, MaxSessions = 1, RingInv, [Next]_vars
    PROVE  RingInv'
<1>1. ASSUME NEW w \in Workers,
             WriteLock(w) \/ WorkerStep(w) \/ WriteSpuriousWakeup(w)
      PROVE  RingInv'
  BY <1>1, WriteLockInv, WriteWaitInv, WriteCopyInv, WriteAccountInv
     DEF WorkerStep
<1>2. CASE WriterStep \/ GetSpuriousWakeup
  BY <1>2, GetChunkInv, NetSendInv, ReleaseInv DEF WriterStep
<1>3. CASE Disconnect \/ Offline \/ MainStep
  BY <1>3, MainInv
<1>4. CASE UNCHANGED vars
  BY <1>4, RingStutter
<1> QED
  BY <1>1, <1>2, <1>3, <1>4 DEF Next

\* The invariant holds in every reachable state.
LEMMA RingAlways ==
    ASSUME ReloadsSize = FALSE, MaxSessions = 1
    PROVE  Spec => []RingInv
<1>1. Init => RingInv
  BY RingInit
<1>2. RingInv /\ [Next]_vars => RingInv'
  BY RingStep
<1> QED
  BY <1>1, <1>2, PTL DEF Spec

\* The type invariant, with the mutual exclusion of the workers.
THEOREM RingTypeCorrect ==
    ASSUME ReloadsSize = FALSE, MaxSessions = 1
    PROVE  Spec => []TypeOK
BY RingAlways, PTL DEF RingInv

\* For as long as the writer thread lives, the positions and data_size of the
\* ring buffer describe one and the same interval of the memory area.
THEOREM PositionsAlwaysAgree ==
    ASSUME ReloadsSize = FALSE, MaxSessions = 1
    PROVE  Spec => []PositionsAgree
BY RingAlways, PTL DEF RingInv

\* send() is never given memory outside the area or bytes that no worker has
\* written, although its chunk is computed without the mutex.
THEOREM ChunkAlwaysInside ==
    ASSUME ReloadsSize = FALSE, MaxSessions = 1
    PROVE  Spec => []ChunkInside
BY RingAlways, PTL DEF RingInv

\* All of this at once: the memory area of ringbuffer.h is used as its comments
\* say while workers write, the writer thread reads and nobody clears it.
THEOREM RingAlwaysSound ==
    ASSUME ReloadsSize = FALSE, MaxSessions = 1
    PROVE  Spec => []RingSound
BY RingAlways, PTL DEF RingInv, RingSound

-----------------------------------------------------------------------------
(* The next two hold for both builds and through any number of sessions:   *)
(* they do not need the positions to be right.                             *)

\* From its look at data_size to its wait, data means that it was outrun.
RaceSeen == writer_pc \in {"online", "lock", "wait"} /\ data_size > 0 => raced

\* A writer that goes to sleep on data has met the race.
LEMMA RaceSeenStep == RaceSeen /\ [Next]_vars => RaceSeen'
<1> SUFFICES ASSUME RaceSeen, [Next]_vars PROVE RaceSeen'
  OBVIOUS
<1> USE DEF RaceSeen, ring, workers, writer, main, history
<1>1. ASSUME NEW w \in Workers, WriteAccount(w) PROVE RaceSeen'
  BY <1>1 DEF WriteAccount, SignalData
<1>2. ASSUME NEW w \in Workers,
             WriteLock(w) \/ WriteWait(w) \/ WriteSpuriousWakeup(w)
               \/ WriteRelock(w) \/ WriteCopy(w)
      PROVE  RaceSeen'
  BY <1>2 DEF WriteLock, WriteWait, WriteSpuriousWakeup, WriteRelock, WriteCopy
<1>3. CASE GetCheck
  BY <1>3 DEF GetCheck
<1>4. CASE GetOnline \/ GetWait \/ GetSpuriousWakeup \/ GetRelock
  BY <1>4 DEF GetOnline, GetWait, GetSpuriousWakeup, GetRelock
<1>5. CASE GetMeasure \/ GetReload \/ NetSend \/ ringbuffer_release_chunk
  BY <1>5 DEF GetMeasure, GetReload, NetSend, ringbuffer_release_chunk
<1>6. CASE Disconnect \/ Offline \/ OfflineSignal \/ ClearPositions \/ Reconnect
  BY <1>6 DEF Disconnect, Offline, OfflineSignal, ClearPositions, Reconnect
<1>7. CASE ClearSize
  BY <1>7 DEF ClearSize
<1>8. CASE UNCHANGED vars
  BY <1>8 DEF vars
<1> QED
  BY <1>1, <1>2, <1>3, <1>4, <1>5, <1>6, <1>7, <1>8
     DEF Next, WorkerStep, WriterStep, MainStep

\* The writer thread sleeps over data only if the data came between its look
\* at data_size, which takes no lock, and its wait: the signal of
\* ringbuffer_write (ringbuffer.c) reaches it in every other case.
THEOREM AlwaysSleepsOnlyByRace == Spec => []SleepsOnlyByRace
<1>1. Init => RaceSeen
  BY DEF Init, RaceSeen
<1>2. RaceSeen => SleepsOnlyByRace
  BY DEF RaceSeen, SleepsOnlyByRace
<1> QED
  BY <1>1, <1>2, RaceSeenStep, PTL DEF Spec

\* A worker inside a stanza holds the mutex or has waited for space since it
\* began it.
StanzaHeld ==
    /\ worker_pc \in [Workers -> WorkerPC]
    /\ overflowed \in [Workers -> BOOLEAN]
    /\ DOMAIN written = Workers
    /\ mutex \in Workers \cup {None}
    /\ \A w \in Workers :
          /\ worker_pc[w] \in {"copy", "account"} <=> mutex = w
          /\ worker_pc[w] \in {"wait", "relock"} => overflowed[w] = TRUE
          /\ worker_pc[w] = "idle" => written[w] = 0

\* A stanza is torn only by a full buffer.
LEMMA StanzaHeldStep == StanzaHeld /\ [Next]_vars => StanzaHeld'
<1> SUFFICES ASSUME StanzaHeld, [Next]_vars PROVE StanzaHeld'
  OBVIOUS
<1> USE RingAssumption DEF StanzaHeld, WorkerPC, ring, workers, writer, main, history
<1>1. ASSUME NEW w \in Workers, WriteLock(w) PROVE StanzaHeld'
  BY <1>1 DEF WriteLock
<1>2. ASSUME NEW w \in Workers, WriteWait(w) PROVE StanzaHeld'
  BY <1>2 DEF WriteWait
<1>3. ASSUME NEW w \in Workers, WriteSpuriousWakeup(w) \/ WriteRelock(w)
      PROVE  StanzaHeld'
  BY <1>3 DEF WriteSpuriousWakeup, WriteRelock
<1>4. ASSUME NEW w \in Workers, WriteCopy(w) PROVE StanzaHeld'
  BY <1>4 DEF WriteCopy
<1>5. ASSUME NEW w \in Workers, WriteAccount(w) PROVE StanzaHeld'
  <2>1. worker_pc[w] = "account" /\ mutex = w
    BY <1>5 DEF WriteAccount
  <2>2. CASE /\ worker_pc' = [worker_pc EXCEPT ![w] = "copy"]
             /\ written' = [written EXCEPT ![w] = @ + write_size[w]]
             /\ UNCHANGED <<mutex, overflowed>>
    BY <2>1, <2>2
  <2>3. CASE /\ worker_pc' = [worker_pc EXCEPT ![w] = "idle"] /\ mutex' = None
             /\ written' = [written EXCEPT ![w] = 0]
             /\ overflowed' = [overflowed EXCEPT ![w] = FALSE]
    BY <2>1, <2>3
  <2> QED
    BY <1>5, <2>2, <2>3 DEF WriteAccount
<1>6. CASE ringbuffer_release_chunk
  BY <1>6 DEF ringbuffer_release_chunk, SignalFree, Sleeping
<1>7. CASE UNCHANGED <<worker_pc, overflowed, written, mutex>>
  BY <1>7
<1>8. CASE \/ GetCheck \/ GetOnline \/ GetWait \/ GetSpuriousWakeup \/ GetRelock
           \/ GetMeasure \/ GetReload \/ NetSend
  BY <1>7, <1>8 DEF GetCheck, GetOnline, GetWait, GetSpuriousWakeup, GetRelock,
     GetMeasure, GetReload, NetSend
<1>9. CASE Disconnect \/ Offline \/ MainStep
  BY <1>7, <1>9 DEF Disconnect, Offline, MainStep, OfflineSignal, ClearPositions,
     ClearSize, Reconnect
<1>10. CASE UNCHANGED vars
  BY <1>7, <1>10 DEF vars
<1> QED
  BY <1>1, <1>2, <1>3, <1>4, <1>5, <1>6, <1>8, <1>9, <1>10
     DEF Next, WorkerStep, WriterStep

\* While a worker is inside a stanza it never waited in, the last bytes
\* accounted for are its own.
LEMMA TornStep ==
  StanzaHeld /\ StanzaHeld' /\ TornOnlyByOverflow /\ [Next]_vars => TornOnlyByOverflow'
<1> SUFFICES ASSUME StanzaHeld, StanzaHeld', TornOnlyByOverflow, [Next]_vars,
                    NEW w \in Workers,
                    0 < written'[w], written'[w] < length'[w], ~overflowed'[w]
             PROVE  last' = w
  BY DEF TornOnlyByOverflow
<1>1. worker_pc'[w] \in {"copy", "account"} /\ mutex' = w
  BY DEF StanzaHeld, WorkerPC
<1>2. ASSUME NEW u \in Workers, WriteAccount(u) PROVE last' = w
  <2>1. mutex = u
    BY <1>2 DEF WriteAccount, StanzaHeld
  <2>2. mutex' \in {u, None} /\ last' = u
    BY <1>2, <2>1 DEF WriteAccount
  <2> QED
    BY <1>1, <2>2, RingAssumption
<1>3. ASSUME NEW u \in Workers, WriteLock(u) PROVE last' = w
  <2>1. u = w
    BY <1>1, <1>3 DEF WriteLock
  <2>2. written'[w] = 0
    BY <1>3, <2>1 DEF WriteLock, StanzaHeld
  <2> QED
    BY <2>2
<1>4. CASE UNCHANGED <<written, length, last>> /\ overflowed'[w] = overflowed[w]
  BY <1>4 DEF TornOnlyByOverflow
<1>5. ASSUME NEW u \in Workers, WriteWait(u) PROVE last' = w
  <2>1. mutex' = None
    BY <1>5 DEF WriteWait
  <2> QED
    BY <1>1, <2>1, RingAssumption
<1>6. ASSUME NEW u \in Workers,
             WriteSpuriousWakeup(u) \/ WriteRelock(u) \/ WriteCopy(u)
      PROVE  last' = w
  BY <1>4, <1>6 DEF WriteSpuriousWakeup, WriteRelock, WriteCopy, writer, main, history
<1>7. CASE WriterStep \/ GetSpuriousWakeup
  BY <1>4, <1>7 DEF WriterStep, GetCheck, GetOnline, GetWait, GetSpuriousWakeup,
     GetRelock, GetMeasure, GetReload, NetSend, ringbuffer_release_chunk, workers, history
<1>8. CASE Disconnect \/ Offline \/ MainStep \/ UNCHANGED vars
  BY <1>4, <1>8 DEF Disconnect, Offline, MainStep, OfflineSignal, ClearPositions,
     ClearSize, Reconnect, vars, workers, history
<1> QED
  BY <1>2, <1>3, <1>5, <1>6, <1>7, <1>8 DEF Next, WorkerStep

\* ringbuffer_write keeps the mutex from the first byte of a stanza to its last
\* unless the buffer fills up on the way (pthread_cond_wait): without that no
\* other worker's bytes come between those of a stanza, even across sessions.
THEOREM AlwaysTornOnlyByOverflow == Spec => []TornOnlyByOverflow
<1>1. Init => StanzaHeld /\ TornOnlyByOverflow
  BY RingAssumption DEF Init, StanzaHeld, WorkerPC, TornOnlyByOverflow
<1>2. StanzaHeld /\ TornOnlyByOverflow /\ [Next]_vars
        => (StanzaHeld /\ TornOnlyByOverflow)'
  BY StanzaHeldStep, TornStep
<1> QED
  BY <1>1, <1>2, PTL DEF Spec

-----------------------------------------------------------------------------
\* A buffer without room has data to release.
LEMMA FullHasData ==
  ASSUME RingInv, continuous_block_size = 0
  PROVE  data_size > 0
  BY RingAssumption DEF RingInv, TypeOK, continuous_block_size, Addresses

\* A worker that goes to sleep leaves data behind; the release of the last data
\* wakes a sleeper; a worker that was on its way arrives.
LEMMA HopeStep ==
  ASSUME MaxSessions = 1, RingInv, SleepingWorkersHaveHope, [Next]_vars
  PROVE  SleepingWorkersHaveHope'
<1> SUFFICES ASSUME Sleeping' # {}, writer_pc' # "done"
             PROVE  \/ data_size' > 0
                    \/ \E w \in Workers : worker_pc'[w] \in {"relock", "copy", "account"}
  BY DEF SleepingWorkersHaveHope
<1>0. worker_pc \in [Workers -> WorkerPC]
  BY DEF RingInv, TypeOK
<1>1. ASSUME NEW w \in Workers, NEW pc \in {"relock", "copy", "account"},
             worker_pc' = [worker_pc EXCEPT ![w] = pc]
      PROVE  worker_pc'[w] \in {"relock", "copy", "account"}
  BY <1>0, <1>1
<1>2. ASSUME NEW w \in Workers,
             WriteLock(w) \/ WriteSpuriousWakeup(w) \/ WriteRelock(w) \/ WriteCopy(w)
      PROVE  worker_pc'[w] \in {"relock", "copy", "account"}
  BY <1>1, <1>2 DEF WriteLock, WriteSpuriousWakeup, WriteRelock, WriteCopy
<1>3. ASSUME NEW w \in Workers, WriteWait(w) PROVE data_size' > 0
  BY <1>3, FullHasData DEF WriteWait, ring
<1>4. ASSUME NEW w \in Workers, WriteAccount(w) PROVE data_size' > 0
  <2>1. worker_pc[w] = "account" /\ data_size' = data_size + write_size[w]
        /\ writer_pc # "done"
    BY <1>4 DEF WriteAccount, SignalData
  <2> QED
    BY <2>1, WorkerFacts DEF RingInv, PositionsAgree, LocalsFit, TypeOK
<1>5. CASE ringbuffer_release_chunk
  <2>1. PICK w \in Workers : worker_pc'[w] = "wait"
    BY DEF Sleeping
  <2>2. Sleeping # {}
    BY <1>0, <1>5, <2>1 DEF ringbuffer_release_chunk, SignalFree, Sleeping
  <2> QED
    BY <1>0, <1>5, <2>2 DEF ringbuffer_release_chunk, SignalFree, Sleeping
<1>6. CASE UNCHANGED <<worker_pc, data_size>> /\ writer_pc # "done"
  BY <1>6 DEF SleepingWorkersHaveHope, Sleeping
<1>7. CASE \/ GetCheck \/ GetOnline \/ GetWait \/ GetSpuriousWakeup \/ GetRelock
           \/ GetMeasure \/ GetReload \/ NetSend
  BY <1>6, <1>7 DEF GetCheck, GetOnline, GetWait, GetSpuriousWakeup, GetRelock,
     GetMeasure, GetReload, NetSend, ring, workers
<1>8. CASE Disconnect \/ Offline \/ OfflineSignal \/ ClearPositions \/ UNCHANGED vars
  BY <1>6, <1>8 DEF Disconnect, Offline, OfflineSignal, ClearPositions, vars, ring,
     workers, writer
<1>9. ~ClearSize
  BY DEF ClearSize, RingInv, LocalsFit, writer
<1>10. ~Reconnect
  BY DEF Reconnect, RingInv, TypeOK
<1> QED
  BY <1>2, <1>3, <1>4, <1>5, <1>7, <1>8, <1>9, <1>10
     DEF Next, WorkerStep, WriterStep, MainStep

\* The signal of ringbuffer_release_chunk (ringbuffer.c) wakes one worker only:
\* the others may sleep on, for the one it woke will write and so be released
\* itself, or finds the buffer full again.
THEOREM SleepingWorkersAlwaysHaveHope ==
  ASSUME ReloadsSize = FALSE, MaxSessions = 1
  PROVE  Spec => []SleepingWorkersHaveHope
<1>1. Init => SleepingWorkersHaveHope
  BY DEF Init, SleepingWorkersHaveHope, Sleeping
<1>2. RingInv /\ SleepingWorkersHaveHope /\ [Next]_vars => SleepingWorkersHaveHope'
  BY HopeStep
<1> QED
  BY <1>1, <1>2, RingAlways, PTL DEF Spec

-----------------------------------------------------------------------------
(* The stream of bytes.  The mapping of ImplementsStream reads the memory   *)
(* between the positions, so the invariant adds what a copy leaves behind   *)
(* them: the next bytes of the stanza of the worker that holds the mutex.   *)

At(i) == mem[(read_position + i) % Size]

Copied == mutex # None /\ worker_pc[mutex] = "account"

PendingWritten ==
    writer_pc # "done" /\ Copied =>
        \A j \in 1..Pending : At(data_size + j - 1) = <<mutex, written[mutex] + j>>

\* What send() took is held exactly until it is released.
OutHeld ==
    IF writer_pc = "release" /\ size > 0 THEN out # <<>> ELSE out = <<>>

StreamInv == RingInv /\ PendingWritten /\ OutHeld

\* An address that passes the end of the area once.
LEMMA Wrap ==
  ASSUME NEW k \in 0..2 * Size - 1
  PROVE  k % Size = (IF k < Size THEN k ELSE k - Size) /\ k % Size \in Addresses
<1>1. CASE k < Size
  <2>1. k % Size = k
    BY <1>1, RingAssumption
  <2> QED
    BY <1>1, <2>1, RingAssumption DEF Addresses
<1>2. CASE k >= Size
  <2>1. k % Size = k - Size
    BY <1>2, RingAssumption
  <2> QED
    BY <1>2, <2>1, RingAssumption DEF Addresses
<1> QED
  BY <1>1, <1>2, RingAssumption

\* What the positions say while the writer thread lives.
LEMMA Interval ==
  ASSUME RingInv, writer_pc # "done"
  PROVE  /\ read_position \in 0..Size - 1 /\ write_position \in 0..Size - 1
         /\ data_size \in Nat /\ Pending \in Nat /\ data_size + Pending <= Size
         /\ \/ write_position = read_position + data_size + Pending
            \/ write_position = read_position + data_size + Pending - Size
<1>1. Pending \in Nat
  BY WorkerFacts, RingAssumption DEF RingInv, TypeOK, Pending
<1> QED
  BY <1>1 DEF RingInv, PositionsAgree, TypeOK, Addresses

\* WriteCopy fills the gap behind the data and nothing else.
LEMMA CopyPlace ==
  ASSUME RingInv, NEW w \in Workers, WriteCopy(w), writer_pc # "done"
  PROVE  /\ Pending = 0 /\ Pending' \in Nat /\ data_size + Pending' <= Size
         /\ \A i \in 0..data_size - 1 :
               mem'[(read_position + i) % Size] = mem[(read_position + i) % Size]
         /\ \A j \in 1..Pending' :
               mem'[(read_position + (data_size + j - 1)) % Size] = <<w, written[w] + j>>
<1> USE RingAssumption
<1> DEFINE n == Smaller(continuous_block_size, length[w] - written[w])
<1>1. /\ mutex = w /\ mutex' = w /\ worker_pc[w] = "copy" /\ worker_pc'[w] = "account"
      /\ write_size'[w] = n
      /\ UNCHANGED <<read_position, data_size, writer_pc>>
  BY WorkerFacts DEF RingInv, TypeOK, WriteCopy, writer
<1>2. RingInv'
  BY WriteCopyInv
<1>3. Pending = 0 /\ Pending' = n
  BY <1>1, RingAssumption DEF Pending
<1>4. n \in Nat /\ data_size + n <= Size
  <2>1. write_size'[w] \in Nat
    BY <1>2 DEF RingInv, TypeOK
  <2>2. data_size' + Pending' <= Size
    BY <1>1, <1>2 DEF RingInv, PositionsAgree
  <2> QED
    BY <1>1, <1>3, <2>1, <2>2
<1>5. /\ continuous_block_size \in Int /\ write_position + n <= Size
      /\ length[w] \in Lengths /\ length[w] \in Nat /\ written[w] \in Nat
      /\ written[w] + n <= length[w]
  <2>1. length[w] \in Nat /\ written[w] \in Nat /\ written[w] < length[w] /\ length[w] \in Lengths
    BY <1>1, WorkerFacts DEF RingInv, LocalsFit
  <2>2. continuous_block_size \in Int /\ write_position + continuous_block_size <= Size
    BY DEF RingInv, continuous_block_size, TypeOK, LocalsFit, Addresses
  <2>3. n <= length[w] - written[w] /\ n <= continuous_block_size
    BY <2>1, <2>2 DEF Smaller
  <2> HIDE DEF n
  <2>4. write_position \in Int
    BY DEF RingInv, TypeOK, Addresses
  <2> QED
    BY <2>1, <2>2, <2>3, <2>4, <1>4
<1>6. /\ read_position \in 0..Size - 1 /\ write_position \in 0..Size - 1
      /\ data_size \in Nat
      /\ \/ write_position = read_position + data_size
         \/ write_position = read_position + data_size - Size
  BY <1>3, Interval
<1>7. mem' = [a \in Addresses |->
                IF a \in write_position..write_position + n - 1
                THEN <<w, written[w] + (a - write_position) + 1>> ELSE mem[a]]
  BY DEF WriteCopy
<1>8. ASSUME NEW i \in 0..data_size - 1
      PROVE  mem'[(read_position + i) % Size] = mem[(read_position + i) % Size]
  <2>1. /\ (read_position + i) % Size \in Addresses
        /\ (read_position + i) % Size = IF read_position + i < Size
                                        THEN read_position + i ELSE read_position + i - Size
    <3>1. read_position + i \in 0..2 * Size - 1
      BY <1>4, <1>6
    <3> QED
      BY <3>1, <1>4, <1>6, Wrap
  <2>2. (read_position + i) % Size \notin write_position..write_position + n - 1
    BY <2>1, <1>4, <1>5, <1>6
  <2> QED
    BY <2>1, <2>2, <1>7
<1>9. ASSUME NEW j \in 1..n
      PROVE  mem'[(read_position + (data_size + j - 1)) % Size] = <<w, written[w] + j>>
  <2> DEFINE a == (read_position + (data_size + j - 1)) % Size
  <2>1. j \in Nat /\ j > 0 /\ j <= n
    BY <1>4
  <2>2. a \in Addresses /\ a = IF read_position + (data_size + j - 1) < Size
                               THEN read_position + (data_size + j - 1)
                               ELSE read_position + (data_size + j - 1) - Size
    <3>1. read_position + (data_size + j - 1) \in 0..2 * Size - 1
      BY <1>4, <1>6, <2>1
    <3> QED
      BY <3>1, <1>4, <1>6, Wrap
  <2> HIDE DEF a
  <2>3. a = write_position + j - 1
    BY <2>1, <2>2, <1>4, <1>5, <1>6
  <2>4. a \in write_position..write_position + n - 1 /\ (a - write_position) + 1 = j
    BY <2>1, <2>3, <1>4, <1>6
  <2>5. mem'[a] = <<w, written[w] + (a - write_position) + 1>>
    BY <2>2, <2>4, <1>7
  <2>6. written[w] + (a - write_position) + 1 = written[w] + j
    BY <2>1, <2>3, <1>5, <1>6
  <2> QED
    BY <2>5, <2>6 DEF a
<1> QED
  BY <1>3, <1>4, <1>8, <1>9

\* A release moves read_position behind what was sent.
LEMMA ReleasePlace ==
  ASSUME RingInv, ringbuffer_release_chunk, writer_pc' # "done"
  PROVE  /\ size \in Nat /\ size <= data_size /\ data_size' = data_size - size
         /\ data_size \in Nat /\ data_size <= Size
         /\ Pending = 0 /\ Pending' = 0
         /\ \A i \in 0..data_size - size - 1 :
               mem'[(read_position' + i) % Size] = mem[(read_position + size + i) % Size]
<1> USE RingAssumption
<1>1. /\ writer_pc = "release" /\ mutex = None /\ mutex' = None
      /\ read_position' = IF read_position + size = Size
                          THEN 0 ELSE read_position + size
      /\ data_size' = data_size - size /\ ~(size < 0)
  BY DEF ringbuffer_release_chunk
<1>2. /\ size \in Nat /\ size <= data_size /\ read_position + size <= Size
      /\ data_size \in Nat /\ data_size <= Size /\ read_position \in 0..Size - 1
  BY <1>1, Interval DEF RingInv, LocalsFit, TypeOK
<1>3. Pending = 0 /\ Pending' = 0
  BY <1>1 DEF Pending
<1>4. mem' = [a \in Addresses |-> IF a \in read_position..read_position + size - 1
                                  THEN Junk ELSE mem[a]]
  BY DEF ringbuffer_release_chunk
<1>5. ASSUME NEW i \in 0..data_size - size - 1
      PROVE  mem'[(read_position' + i) % Size] = mem[(read_position + size + i) % Size]
  <2>1. /\ read_position' + i \in 0..2 * Size - 1
        /\ read_position + size + i \in 0..2 * Size - 1
    BY <1>1, <1>2
  <2>2. (read_position' + i) % Size = (read_position + size + i) % Size
    BY <1>1, <1>2, <2>1, Wrap
  <2>3. /\ (read_position + size + i) % Size \in Addresses
        /\ (read_position + size + i) % Size \notin read_position..read_position + size - 1
    <3>1. (read_position + size + i) % Size \in Addresses
      BY <2>1, Wrap
    <3>2. (read_position + size + i) % Size =
             IF read_position + size + i < Size THEN read_position + size + i
             ELSE read_position + size + i - Size
      BY <1>2, <2>1, Wrap
    <3> QED
      BY <1>2, <3>1, <3>2
  <2> QED
    BY <2>2, <2>3, <1>4
<1> QED
  BY <1>1, <1>2, <1>3, <1>5

\* The steps that leave the stored bytes and their number alone.
Still == UNCHANGED <<mem, read_position, data_size, Pending>>

\* Of the steps that keep the writer thread alive, these three touch the data.
LEMMA OthersStill ==
  ASSUME RingInv, MaxSessions = 1, [Next]_vars, writer_pc' # "done",
         \A w \in Workers : ~WriteCopy(w) /\ ~WriteAccount(w),
         ~ringbuffer_release_chunk
  PROVE  Still /\ writer_pc # "done"
<1> USE RingAssumption DEF Still, ring, workers, writer, main, history
<1>0. worker_pc \in [Workers -> WorkerPC] /\ mutex \in Workers \cup {None}
  BY DEF RingInv, TypeOK
<1>1. ASSUME NEW w \in Workers, WriteLock(w) PROVE Still /\ writer_pc # "done"
  BY <1>0, <1>1 DEF WriteLock, Pending
<1>2. ASSUME NEW w \in Workers, WriteWait(w) PROVE Still /\ writer_pc # "done"
  BY <1>0, <1>2, WorkerFacts DEF WriteWait, Pending, RingInv
<1>3. ASSUME NEW w \in Workers, WriteSpuriousWakeup(w) PROVE Still /\ writer_pc # "done"
  BY <1>0, <1>3 DEF WriteSpuriousWakeup, Pending
<1>4. ASSUME NEW w \in Workers, WriteRelock(w) PROVE Still /\ writer_pc # "done"
  BY <1>0, <1>4 DEF WriteRelock, Pending
<1>5. CASE \/ GetCheck \/ GetOnline \/ GetWait \/ GetSpuriousWakeup \/ GetRelock
           \/ GetMeasure \/ GetReload \/ NetSend
  BY <1>5 DEF GetCheck, GetOnline, GetWait, GetSpuriousWakeup, GetRelock, GetMeasure,
     GetReload, NetSend, Pending
<1>6. CASE Disconnect \/ Offline \/ OfflineSignal \/ UNCHANGED vars
  BY <1>6 DEF Disconnect, Offline, OfflineSignal, Pending, vars
<1>7. ~ClearPositions /\ ~ClearSize /\ ~Reconnect
  BY DEF ClearPositions, ClearSize, Reconnect, RingInv, LocalsFit, TypeOK
<1> QED
  BY <1>1, <1>2, <1>3, <1>4, <1>5, <1>6, <1>7 DEF Next, WorkerStep, WriterStep, MainStep

\* Accounting moves bytes from Pending to data_size.
LEMMA AccountMoves ==
  ASSUME RingInv, NEW w \in Workers, WriteAccount(w)
  PROVE  /\ UNCHANGED <<mem, read_position, size, out>>
         /\ Pending \in Nat \ {0} /\ Pending' = 0 /\ data_size' = data_size + Pending
         /\ (writer_pc' = "done") <=> (writer_pc = "done")
         /\ (writer_pc' = "release") <=> (writer_pc = "release")
<1>1. worker_pc[w] = "account" /\ mutex = w
  BY WorkerFacts DEF WriteAccount, RingInv
<1>2. Pending = write_size[w] /\ write_size[w] \in Nat \ {0}
  BY <1>1, WorkerFacts, RingAssumption DEF Pending, RingInv, LocalsFit
<1>3. Pending' = 0
  BY <1>1, RingAssumption DEF WriteAccount, Pending, RingInv, TypeOK
<1> QED
  BY <1>2, <1>3 DEF WriteAccount, SignalData

\* What was copied stays in its place until it is accounted for.
LEMMA PendingWrittenStep ==
  ASSUME RingInv, PendingWritten, MaxSessions = 1, [Next]_vars
  PROVE  PendingWritten'
<1> USE DEF ring, workers, writer, main, history
<1> SUFFICES ASSUME writer_pc' # "done", Copied'
             PROVE  \A j \in 1..Pending' :
                      At(data_size + j - 1)' = <<mutex', written'[mutex'] + j>>
  BY DEF PendingWritten
<1>1. ASSUME NEW w \in Workers, WriteCopy(w)
      PROVE  \A j \in 1..Pending' :
               At(data_size + j - 1)' = <<mutex', written'[mutex'] + j>>
  <2>1. /\ UNCHANGED <<read_position, data_size, writer_pc, mutex, written>>
        /\ writer_pc # "done" /\ mutex = w
    BY <1>1, WorkerFacts DEF WriteCopy, RingInv
  <2>2. \A j \in 1..Pending' :
          mem'[(read_position + (data_size + j - 1)) % Size] = <<w, written[w] + j>>
    BY <1>1, <2>1, CopyPlace
  <2> QED
    BY <2>1, <2>2 DEF At
<1>2. ASSUME NEW w \in Workers, WriteAccount(w) PROVE FALSE
  <2>1. worker_pc \in [Workers -> WorkerPC] /\ mutex = w
    BY <1>2, WorkerFacts DEF WriteAccount, RingInv, TypeOK
  <2> QED
    BY <1>2, <2>1, RingAssumption DEF WriteAccount, Copied
<1>3. CASE ringbuffer_release_chunk
  BY <1>3 DEF ringbuffer_release_chunk, Copied
<1>4. CASE /\ \A w \in Workers : ~WriteCopy(w) /\ ~WriteAccount(w)
           /\ ~ringbuffer_release_chunk
  <2>1. Still /\ writer_pc # "done"
    BY <1>4, OthersStill
  <2>2. worker_pc \in [Workers -> WorkerPC] /\ mutex \in Workers \cup {None}
    BY DEF RingInv, TypeOK
  <2>3. UNCHANGED mutex /\ Copied /\ UNCHANGED written
    <3>1. ASSUME NEW w \in Workers,
                 WriteLock(w) \/ WriteWait(w) \/ WriteSpuriousWakeup(w) \/ WriteRelock(w)
          PROVE  UNCHANGED mutex /\ Copied /\ UNCHANGED written
      BY <2>2, <3>1, RingAssumption DEF WriteLock, WriteWait, WriteSpuriousWakeup, WriteRelock, Copied
    <3>2. CASE \/ GetCheck \/ GetOnline \/ GetWait \/ GetSpuriousWakeup \/ GetRelock
               \/ GetMeasure \/ GetReload \/ NetSend
      BY <3>2 DEF GetCheck, GetOnline, GetWait, GetSpuriousWakeup, GetRelock,
         GetMeasure, GetReload, NetSend, Copied
    <3>3. CASE MainStep \/ Disconnect \/ Offline \/ UNCHANGED vars
      BY <3>3 DEF MainStep, Disconnect, Offline, OfflineSignal, ClearPositions,
         ClearSize, Reconnect, Copied, vars
    <3> QED
      BY <1>4, <3>1, <3>2, <3>3 DEF Next, WorkerStep, WriterStep
  <2> QED
    BY <2>1, <2>3 DEF Still, PendingWritten, At
<1> QED
  BY <1>1, <1>2, <1>3, <1>4

\* The history variable out follows the writer thread.
LEMMA OutHeldStep ==
  ASSUME RingInv, OutHeld, MaxSessions = 1, [Next]_vars
  PROVE  OutHeld'
<1> USE DEF OutHeld, ring, workers, writer, main, history
<1>1. CASE NetSend
  <2>1. writer_pc' = "release" /\ writer_pc = "send" /\ out = <<>>
    BY <1>1 DEF NetSend
  <2>2. CASE size' \in {-1, 0} /\ UNCHANGED out
    BY <2>1, <2>2
  <2>3. ASSUME NEW n \in 1..size, size' = n,
               out' = [i \in 1..n |-> ByteAt(read_position + i - 1)]
        PROVE  OutHeld'
    <3>1. size \in Int
      BY DEF RingInv, TypeOK
    <3>2. 1 \in DOMAIN out'
      BY <2>3, <3>1
    <3> QED
      BY <2>1, <2>3, <3>1, <3>2
  <2> QED
    BY <1>1, <2>2, <2>3 DEF NetSend
<1>2. CASE ringbuffer_release_chunk
  BY <1>2 DEF ringbuffer_release_chunk
<1>3. CASE \/ GetCheck \/ GetOnline \/ GetWait \/ GetSpuriousWakeup \/ GetRelock
           \/ GetMeasure \/ GetReload
  BY <1>3 DEF GetCheck, GetOnline, GetWait, GetSpuriousWakeup, GetRelock, GetMeasure,
     GetReload
<1>4. ASSUME NEW w \in Workers, WriteAccount(w) PROVE OutHeld'
  BY <1>4, AccountMoves
<1>5. ASSUME NEW w \in Workers,
             WriteLock(w) \/ WriteWait(w) \/ WriteSpuriousWakeup(w)
               \/ WriteRelock(w) \/ WriteCopy(w)
      PROVE  OutHeld'
  BY <1>5 DEF WriteLock, WriteWait, WriteSpuriousWakeup, WriteRelock, WriteCopy
<1>6. CASE Disconnect \/ Offline \/ OfflineSignal \/ ClearPositions \/ ClearSize
           \/ UNCHANGED vars
  BY <1>6 DEF Disconnect, Offline, OfflineSignal, ClearPositions, ClearSize, vars
<1>7. ~Reconnect
  BY DEF Reconnect, RingInv, TypeOK
<1> QED
  BY <1>1, <1>2, <1>3, <1>4, <1>5, <1>6, <1>7 DEF Next, WorkerStep, WriterStep, MainStep

\* The two parts of a finite sequence.
LEMMA Prefixes ==
  ASSUME NEW m \in Nat, NEW n \in 0..m, NEW f
  PROVE  LET s == [i \in 1..m |-> f[i]] IN
         /\ Len(s) = m
         /\ Len([i \in 1..n |-> f[i]]) = n
         /\ SubSeq(s, 1, n) = [i \in 1..n |-> f[i]]
         /\ SubSeq(s, n + 1, m) = [i \in 1..m - n |-> f[n + i]]
  OBVIOUS

\* What was taken is part of the data, and held while it is not released.
LEMMA TakenFits ==
  ASSUME StreamInv, writer_pc # "done"
  PROVE  Taken \in Nat /\ Taken <= data_size
  BY Interval DEF StreamInv, RingInv, LocalsFit, TypeOK, Taken

\* A finite sequence is its first m elements and the others.
LEMMA Joined ==
  ASSUME NEW m \in Nat, NEW n \in Nat, NEW f
  PROVE  /\ [i \in 1..m + n |-> f[i]] = [i \in 1..m |-> f[i]] \o [i \in 1..n |-> f[m + i]]
         /\ Len([i \in 1..m + n |-> f[i]]) = m + n
  OBVIOUS

\* Other steps leave also what was taken.
LEMMA OthersTake ==
  ASSUME RingInv, MaxSessions = 1, [Next]_vars, writer_pc' # "done",
         \A w \in Workers : ~WriteCopy(w) /\ ~WriteAccount(w),
         ~NetSend, ~ringbuffer_release_chunk
  PROVE  Taken' = Taken /\ out' = out
<1> USE DEF Taken, ring, workers, writer, main, history
<1>1. ASSUME NEW w \in Workers,
             WriteLock(w) \/ WriteWait(w) \/ WriteSpuriousWakeup(w) \/ WriteRelock(w)
      PROVE  Taken' = Taken /\ out' = out
  BY <1>1 DEF WriteLock, WriteWait, WriteSpuriousWakeup, WriteRelock
<1>2. CASE \/ GetCheck \/ GetOnline \/ GetWait \/ GetSpuriousWakeup \/ GetRelock
           \/ GetMeasure \/ GetReload
  BY <1>2 DEF GetCheck, GetOnline, GetWait, GetSpuriousWakeup, GetRelock, GetMeasure,
     GetReload
<1>3. CASE Disconnect \/ Offline \/ OfflineSignal \/ UNCHANGED vars
  BY <1>3 DEF Disconnect, Offline, OfflineSignal, vars
<1>4. ~ClearPositions /\ ~ClearSize /\ ~Reconnect
  BY DEF ClearPositions, ClearSize, Reconnect, RingInv, LocalsFit, TypeOK
<1> QED
  BY <1>1, <1>2, <1>3, <1>4 DEF Next, WorkerStep, WriterStep, MainStep

\* Only a new stanza and accounting change what a worker has handed in.
LEMMA ProgressStill ==
  ASSUME [Next]_vars, \A w \in Workers : ~WriteLock(w) /\ ~WriteAccount(w)
  PROVE  UNCHANGED <<length, written>>
<1> USE DEF ring, workers, writer, main, history
<1>1. ASSUME NEW w \in Workers,
             WriteWait(w) \/ WriteSpuriousWakeup(w) \/ WriteRelock(w) \/ WriteCopy(w)
      PROVE  UNCHANGED <<length, written>>
  BY <1>1 DEF WriteWait, WriteSpuriousWakeup, WriteRelock, WriteCopy
<1>2. CASE WriterStep \/ GetSpuriousWakeup
  BY <1>2 DEF WriterStep, GetCheck, GetOnline, GetWait, GetSpuriousWakeup, GetRelock,
     GetMeasure, GetReload, NetSend, ringbuffer_release_chunk
<1>3. CASE MainStep \/ Disconnect \/ Offline \/ UNCHANGED vars
  BY <1>3 DEF MainStep, Disconnect, Offline, OfflineSignal, ClearPositions, ClearSize,
     Reconnect, vars
<1> QED
  BY <1>1, <1>2, <1>3 DEF Next, WorkerStep

\* The writer thread ends when the buffer is offline or the line is broken, and
\* never starts again in this session.
LEMMA EndOfLine ==
  ASSUME RingInv, MaxSessions = 1, [Next]_vars
  PROVE  /\ writer_pc = "done" => writer_pc' = "done"
         /\ writer_pc # "done" /\ writer_pc' = "done" =>
               Line = "down" /\ UNCHANGED <<length, written>>
<1> USE DEF ring, workers, writer, main, history
<1>1. ASSUME NEW w \in Workers,
             WriteLock(w) \/ WriteWait(w) \/ WriteSpuriousWakeup(w)
               \/ WriteRelock(w) \/ WriteCopy(w)
      PROVE  writer_pc' = writer_pc
  BY <1>1 DEF WriteLock, WriteWait, WriteSpuriousWakeup, WriteRelock, WriteCopy
<1>2. ASSUME NEW w \in Workers, WriteAccount(w)
      PROVE  writer_pc' = "done" <=> writer_pc = "done"
  BY <1>2, AccountMoves
<1>3. CASE \/ GetCheck \/ GetWait \/ GetSpuriousWakeup \/ GetRelock \/ GetMeasure
           \/ GetReload \/ NetSend
  BY <1>3 DEF GetCheck, GetWait, GetSpuriousWakeup, GetRelock, GetMeasure, GetReload,
     NetSend
<1>4. CASE GetOnline
  BY <1>4 DEF GetOnline, Line
<1>5. CASE ringbuffer_release_chunk
  BY <1>5 DEF ringbuffer_release_chunk, Line
<1>6. CASE Disconnect \/ Offline \/ OfflineSignal \/ ClearPositions \/ ClearSize
           \/ UNCHANGED vars
  BY <1>6 DEF Disconnect, Offline, OfflineSignal, ClearPositions, ClearSize, vars
<1>7. ~Reconnect
  BY DEF Reconnect, RingInv, TypeOK
<1> QED
  BY <1>1, <1>2, <1>3, <1>4, <1>5, <1>6, <1>7 DEF Next, WorkerStep, WriterStep, MainStep

\* While the writer thread lives, only a failed send, the end of the stream and
\* the switch to offline change the line, and it never comes up again.
LEMMA LineStep ==
  ASSUME RingInv, MaxSessions = 1, [Next]_vars, writer_pc' # "done"
  PROVE  /\ Line' # Line => /\ Line = "up" /\ Line' = "down"
                            /\ Disconnect \/ Offline \/ NetSend
         /\ (\E w \in Workers : WriteLock(w) \/ WriteAccount(w)) \/ ringbuffer_release_chunk
               => Line' = Line
<1> USE DEF Line, ring, workers, writer, main, history
<1>1. ASSUME NEW w \in Workers,
             WriteLock(w) \/ WriteWait(w) \/ WriteSpuriousWakeup(w)
               \/ WriteRelock(w) \/ WriteCopy(w)
      PROVE  Line' = Line
  BY <1>1 DEF WriteLock, WriteWait, WriteSpuriousWakeup, WriteRelock, WriteCopy
<1>2. ASSUME NEW w \in Workers, WriteAccount(w)
      PROVE  Line' = Line
  <2>1. UNCHANGED <<connected, online, size>>
    BY <1>2 DEF WriteAccount
  <2> QED
    BY <1>2, <2>1, AccountMoves
<1>3. CASE \/ GetCheck \/ GetOnline \/ GetWait \/ GetSpuriousWakeup \/ GetRelock
           \/ GetMeasure \/ GetReload
  <2>1. /\ UNCHANGED <<connected, online>>
        /\ writer_pc \notin {"done", "release"} /\ writer_pc' \notin {"done", "release"}
    BY <1>3 DEF GetCheck, GetOnline, GetWait, GetSpuriousWakeup, GetRelock, GetMeasure,
       GetReload
  <2>2. Line' = Line
    BY <2>1
  <2> QED
    BY <1>3, <2>2, EndOfLine
<1>4. ringbuffer_release_chunk => Line' = Line
  BY DEF ringbuffer_release_chunk
<1>5. CASE NetSend
  <2>1. /\ writer_pc = "send" /\ writer_pc' = "release"
        /\ UNCHANGED <<connected, online>>
    BY <1>5 DEF NetSend
  <2>2. Line' # Line => Line = "up" /\ Line' = "down"
    BY <2>1
  <2> QED
    BY <1>1, <1>2, <1>4, <1>5, <2>2
<1>6. CASE Disconnect \/ Offline
  <2>1. /\ UNCHANGED <<writer_pc, size>>
        /\ \/ connected' = FALSE /\ online' = online
           \/ online' = FALSE /\ connected' = connected
    BY <1>6 DEF Disconnect, Offline
  <2>2. Line' # Line => Line = "up" /\ Line' = "down"
    BY <2>1
  <2> QED
    BY <1>1, <1>2, <1>4, <1>6, <2>2
<1>7. CASE OfflineSignal \/ UNCHANGED vars
  BY <1>7 DEF OfflineSignal, vars
<1>8. ~ClearPositions /\ ~ClearSize /\ ~Reconnect
  BY DEF ClearPositions, ClearSize, Reconnect, RingInv, LocalsFit, TypeOK
<1> QED
  BY <1>1, <1>2, <1>3, <1>4, <1>5, <1>6, <1>7, <1>8
     DEF Next, WorkerStep, WriterStep, MainStep

\* A worker starts a stanza.
LEMMA LockBegins ==
  ASSUME StreamInv, NEW w \in Workers, WriteLock(w),
         UNCHANGED <<Unsent, out, Line>>
  PROVE  Stream!Begin(w)
  BY DEF WriteLock, Stream!Begin, StreamInv, RingInv, LocalsFit

\* After the end of the writer thread bytes are accepted for nobody.
LEMMA AfterEnd ==
  ASSUME StreamInv, StreamInv', MaxSessions = 1, [Next]_vars, writer_pc = "done"
  PROVE  [Stream!Next]_(Stream!vars)
<1> USE DEF Stream!Next, Stream!vars
<1>1. writer_pc' = "done"
  BY EndOfLine DEF StreamInv
<1>2. /\ Unsent = <<>> /\ Unsent' = <<>> /\ out = <<>> /\ out' = <<>>
      /\ Line = "over" /\ Line' = "over"
  BY <1>1 DEF StreamInv, OutHeld, Unsent, Line
<1>3. ASSUME NEW w \in Workers, WriteLock(w) PROVE Stream!Begin(w)
  BY <1>2, <1>3, LockBegins
<1>4. ASSUME NEW w \in Workers, WriteAccount(w) PROVE Stream!Accept(w)
  <2>1. /\ length[w] \in Nat /\ written[w] \in Nat
        /\ write_size[w] \in 1..length[w] - written[w]
    BY <1>4, WorkerFacts DEF WriteAccount, StreamInv, RingInv, LocalsFit
  <2>2. Len(Unsent') <= Size
    BY <1>2, RingAssumption
  <2>3. \/ /\ written[w] + write_size[w] < length[w]
           /\ written' = [written EXCEPT ![w] = @ + write_size[w]]
           /\ length' = length
        \/ /\ written[w] + write_size[w] = length[w]
           /\ written' = [written EXCEPT ![w] = 0]
           /\ length' = [length EXCEPT ![w] = 0]
    BY <1>4 DEF WriteAccount
  <2> QED
    BY <1>2, <2>1, <2>2, <2>3 DEF Stream!Accept
<1>5. CASE \A w \in Workers : ~WriteLock(w) /\ ~WriteAccount(w)
  BY <1>2, <1>5, ProgressStill
<1> QED
  BY <1>3, <1>4, <1>5

\* The end of the writer thread drops what was not sent.
LEMMA EndDrops ==
  ASSUME StreamInv, StreamInv', MaxSessions = 1, [Next]_vars,
         writer_pc # "done", writer_pc' = "done"
  PROVE  Stream!Drop
<1>1. Line = "down" /\ UNCHANGED <<length, written>>
  BY EndOfLine DEF StreamInv
<1>2. Unsent' = <<>> /\ out' = <<>> /\ Line' = "over"
  BY DEF StreamInv, OutHeld, Unsent, Line
<1> QED
  BY <1>1, <1>2 DEF Stream!Drop

\* A copy is not accepted yet.
LEMMA CopyStutters ==
  ASSUME StreamInv, StreamInv', NEW w \in Workers, WriteCopy(w), writer_pc # "done"
  PROVE  UNCHANGED <<Unsent, out>>
<1>1. UNCHANGED <<read_position, data_size, writer_pc, size, out>>
  BY DEF WriteCopy, writer, history
<1>2. Taken' = Taken
  BY <1>1 DEF Taken
<1>3. Taken \in Nat /\ Taken <= data_size /\ data_size \in Nat /\ read_position \in Int
  BY TakenFits, Interval DEF StreamInv
<1>4. ASSUME NEW i \in 1..data_size - Taken
      PROVE  mem'[(read_position + Taken + i - 1) % Size]
               = mem[(read_position + Taken + i - 1) % Size]
  <2>1. Taken + i - 1 \in 0..data_size - 1
    BY <1>3
  <2>2. read_position + (Taken + i - 1) = read_position + Taken + i - 1
    BY <1>3
  <2> QED
    BY <2>1, <2>2, CopyPlace DEF StreamInv
<1>5. [i \in 1..data_size - Taken |-> mem'[(read_position + Taken + i - 1) % Size]]
        = [i \in 1..data_size - Taken |-> mem[(read_position + Taken + i - 1) % Size]]
  BY <1>4
<1> QED
  BY <1>1, <1>2, <1>5 DEF Unsent

\* Accounting appends the piece that was copied.
LEMMA AccountAccepts ==
  ASSUME StreamInv, StreamInv', NEW w \in Workers, WriteAccount(w),
         writer_pc # "done", Line' = Line
  PROVE  Stream!Accept(w)
<1>1. /\ UNCHANGED <<mem, read_position, size, out>>
      /\ Pending \in Nat \ {0} /\ data_size' = data_size + Pending
      /\ writer_pc' # "done" /\ Taken' = Taken
  BY AccountMoves DEF StreamInv, Taken
<1>2. /\ Taken \in Nat /\ Taken <= data_size /\ data_size \in Nat
      /\ data_size + Pending <= Size /\ read_position \in Int
  BY TakenFits, Interval DEF StreamInv
<1>3. mutex = w /\ Copied /\ Pending = write_size[w]
  BY WorkerFacts, RingAssumption DEF WriteAccount, StreamInv, RingInv, Copied, Pending
<1>4. /\ length[w] \in Nat /\ written[w] \in Nat
      /\ Pending \in 1..length[w] - written[w]
  BY <1>1, <1>3, WorkerFacts DEF WriteAccount, StreamInv, RingInv, LocalsFit
<1> DEFINE n == data_size - Taken
           F == [i \in 1..n + Pending |-> mem[(read_position + Taken + i - 1) % Size]]
<1>5. n \in Nat /\ Pending \in Nat /\ n + Pending <= Size
  BY <1>1, <1>2, RingAssumption DEF RingAssumption
<1>6. Unsent = [i \in 1..n |-> F[i]]
  <2>1. Unsent = [i \in 1..n |-> mem[(read_position + Taken + i - 1) % Size]]
    BY DEF Unsent
  <2>2. \A i \in 1..n : i \in 1..n + Pending
    BY <1>5
  <2> QED
    BY <2>1, <2>2
<1>7. Unsent' = [i \in 1..n + Pending |-> F[i]]
  <2>1. Unsent' = [i \in 1..data_size' - Taken' |->
                     mem'[(read_position' + Taken' + i - 1) % Size]]
    BY <1>1 DEF Unsent
  <2>2. Taken' = Taken /\ mem' = mem /\ read_position' = read_position
    BY <1>1
  <2>3. data_size' - Taken' = n + Pending
    BY <1>1, <1>2, <2>2
  <2> QED
    BY <2>1, <2>2, <2>3
<1>8. Stream!Piece(w, written[w], Pending) = [i \in 1..Pending |-> F[n + i]]
  <2> SUFFICES ASSUME NEW i \in 1..Pending
               PROVE  F[n + i] = <<w, written[w] + i>>
    BY DEF Stream!Piece
  <2>1. n + i \in 1..n + Pending
    BY <1>5
  <2>2. read_position + Taken + (n + i) - 1 = read_position + (data_size + i - 1)
    BY <1>2, <1>5
  <2>3. F[n + i] = At(data_size + i - 1)
    BY <2>1, <2>2 DEF At
  <2>4. At(data_size + i - 1) = <<w, written[w] + i>>
    BY <1>3 DEF StreamInv, PendingWritten
  <2> QED
    BY <2>3, <2>4
<1> HIDE DEF F, n
<1>9. /\ Unsent' = Unsent \o Stream!Piece(w, written[w], Pending)
      /\ Len(Unsent') <= Size
  <2>1. /\ [i \in 1..n + Pending |-> F[i]]
             = [i \in 1..n |-> F[i]] \o [i \in 1..Pending |-> F[n + i]]
        /\ Len([i \in 1..n + Pending |-> F[i]]) = n + Pending
    BY <1>5, Joined
  <2> QED
    BY <1>5, <1>6, <1>7, <1>8, <2>1
<1>10. \/ /\ written[w] + Pending < length[w]
          /\ written' = [written EXCEPT ![w] = @ + Pending]
          /\ length' = length
       \/ /\ written[w] + Pending = length[w]
          /\ written' = [written EXCEPT ![w] = 0]
          /\ length' = [length EXCEPT ![w] = 0]
  BY <1>3 DEF WriteAccount
<1>11. Line # "over"
  BY DEF Line
<1> QED
  BY <1>1, <1>4, <1>9, <1>10, <1>11 DEF Stream!Accept

\* send() takes a prefix of the data, or nothing.
LEMMA SendSends ==
  ASSUME StreamInv, StreamInv', NetSend
  PROVE  \/ Stream!Send
         \/ UNCHANGED <<Unsent, out, length, written>>
<1>1. /\ UNCHANGED <<mem, read_position, data_size, connected, online, length, written>>
      /\ writer_pc = "send" /\ writer_pc' = "release" /\ out = <<>>
      /\ Taken = 0
  BY DEF NetSend, ring, workers, StreamInv, OutHeld, Taken
<1>2. /\ size \in Nat /\ size <= data_size /\ read_position + size <= Size
      /\ data_size \in Nat /\ data_size <= Size /\ read_position \in 0..Size - 1
      /\ Size \in Nat \ {0}
  <2>1. /\ Size \in Nat \ {0} /\ size \in Int
        /\ size > 0 /\ size <= data_size /\ read_position + size <= Size
    BY <1>1, RingAssumption DEF RingAssumption, StreamInv, RingInv, ChunkInside, TypeOK
  <2>2. /\ data_size \in Nat /\ Pending \in Nat /\ data_size + Pending <= Size
        /\ read_position \in 0..Size - 1
    BY <1>1, Interval DEF StreamInv, RingInv, PositionsAgree, Addresses
  <2> QED
    BY <2>1, <2>2
<1>3. CASE size' \in {-1, 0} /\ UNCHANGED out
  <2>1. Taken' = 0
    BY <1>1, <1>3 DEF Taken
  <2> QED
    BY <1>1, <1>3, <2>1 DEF Unsent
<1>4. ASSUME NEW n \in 1..size, size' = n,
             out' = [i \in 1..n |-> ByteAt(read_position + i - 1)]
      PROVE  Stream!Send
  <2> DEFINE F == [i \in 1..data_size |-> mem[(read_position + i - 1) % Size]]
  <2>1. Unsent = F
    <3>1. \A i \in 1..data_size : read_position + 0 + i - 1 = read_position + i - 1
      BY <1>2
    <3>2. data_size - 0 = data_size
      BY <1>2
    <3> QED
      BY <1>1, <3>1, <3>2 DEF Unsent
  <2>2. Line' = Line
    <3>1. ~(size' < 0)
      BY <1>2, <1>4
    <3> QED
      BY <1>1, <3>1 DEF Line
  <2>3. n \in Nat /\ n \in 1..data_size
    BY <1>2
  <2>4. out' = [i \in 1..n |-> F[i]]
    <3> SUFFICES ASSUME NEW i \in 1..n
                 PROVE  ByteAt(read_position + i - 1) = mem[(read_position + i - 1) % Size]
      <4>1. n <= data_size
        BY <2>3
      <4>2. \A i \in 1..n : F[i] = mem[(read_position + i - 1) % Size]
        BY <2>3, <1>2
      <4> QED
        BY <1>4, <4>2
    <3>1. /\ read_position + i - 1 \in Addresses
          /\ read_position + i - 1 \in 0..2 * Size - 1
          /\ read_position + i - 1 < Size
      BY <1>2, <1>4, <2>3 DEF Addresses
    <3>2. (read_position + i - 1) % Size = read_position + i - 1
      BY <3>1, <1>2, Wrap
    <3> QED
      BY <3>1, <3>2 DEF ByteAt
  <2>5. Unsent' = [i \in 1..data_size - n |-> F[n + i]]
    <3>1. Taken' = n
      BY <1>1, <1>4, <2>3 DEF Taken
    <3>2. Unsent' = [i \in 1..data_size - n |-> mem[(read_position + n + i - 1) % Size]]
      BY <1>1, <3>1 DEF Unsent
    <3>3. \A i \in 1..data_size - n : /\ n + i \in 1..data_size
                                      /\ read_position + (n + i) - 1 = read_position + n + i - 1
      BY <1>2, <2>3
    <3> QED
      BY <3>2, <3>3
  <2>6. F = [i \in 1..data_size |-> F[i]]
    OBVIOUS
  <2>0. data_size \in Nat /\ n \in 0..data_size
    BY <1>2, <2>3
  <2> HIDE DEF F
  <2>7. /\ Len(F) = data_size /\ SubSeq(F, 1, n) = [i \in 1..n |-> F[i]]
        /\ SubSeq(F, n + 1, data_size) = [i \in 1..data_size - n |-> F[n + i]]
    BY <2>0, <2>6, Prefixes
  <2> QED
    BY <1>1, <2>1, <2>2, <2>3, <2>4, <2>5, <2>7 DEF Stream!Send
<1> QED
  BY <1>3, <1>4 DEF NetSend

\* A release lets go of what was sent.
LEMMA ReleaseReleases ==
  ASSUME StreamInv, StreamInv', ringbuffer_release_chunk, writer_pc' # "done",
         UNCHANGED <<length, written, Line>>
  PROVE  Stream!Release \/ UNCHANGED Stream!vars
<1>1. /\ writer_pc = "release" /\ out' = <<>> /\ writer_pc' = "check"
  BY DEF ringbuffer_release_chunk
<1>2. /\ size \in Nat /\ size <= data_size /\ data_size' = data_size - size
      /\ data_size \in Nat
      /\ \A i \in 0..data_size - size - 1 :
            mem'[(read_position' + i) % Size] = mem[(read_position + size + i) % Size]
  BY ReleasePlace DEF StreamInv
<1>3. Taken = size /\ Taken' = 0
  BY <1>1, <1>2 DEF Taken
<1>4. read_position \in Int /\ read_position' \in Int
  BY DEF StreamInv, RingInv, TypeOK
<1>5. Unsent = [i \in 1..data_size - size |-> mem[(read_position + size + i - 1) % Size]]
  BY <1>1, <1>3 DEF Unsent
<1>6. Unsent' = [i \in 1..data_size - size |-> mem'[(read_position' + i - 1) % Size]]
  <2>1. data_size' - 0 = data_size - size
    BY <1>2
  <2>2. \A i \in 1..data_size - size : read_position' + 0 + i - 1 = read_position' + i - 1
    BY <1>4
  <2> QED
    BY <1>1, <1>3, <2>1, <2>2 DEF Unsent
<1>7. \A i \in 1..data_size - size :
         mem'[(read_position' + i - 1) % Size] = mem[(read_position + size + i - 1) % Size]
  <2> SUFFICES ASSUME NEW i \in 1..data_size - size
               PROVE  mem'[(read_position' + i - 1) % Size]
                        = mem[(read_position + size + i - 1) % Size]
    OBVIOUS
  <2>1. i - 1 \in 0..data_size - size - 1
    BY <1>2
  <2>2. /\ read_position' + (i - 1) = read_position' + i - 1
        /\ read_position + size + (i - 1) = read_position + size + i - 1
    BY <1>2, <1>4
  <2> QED
    BY <1>2, <2>1, <2>2
<1>8. Unsent' = Unsent
  BY <1>5, <1>6, <1>7
<1> QED
  BY <1>1, <1>8 DEF Stream!Release, Stream!vars

\* Every step of the threads is a step of the stream.
LEMMA StreamStep ==
  ASSUME MaxSessions = 1, StreamInv, StreamInv', [Next]_vars
  PROVE  [Stream!Next]_(Stream!vars)
<1> USE DEF Stream!Next, Stream!vars
<1>1. CASE writer_pc = "done"
  BY <1>1, AfterEnd
<1>2. CASE writer_pc # "done" /\ writer_pc' = "done"
  BY <1>2, EndDrops
<1>3. CASE writer_pc # "done" /\ writer_pc' # "done"
  <2>1. ASSUME NEW w \in Workers, WriteLock(w) PROVE Stream!Begin(w)
    <3>1. UNCHANGED <<Unsent, out, Line>>
      <4>1. UNCHANGED <<ring, writer, out>>
        BY <2>1 DEF WriteLock, history
      <4> QED
        BY <4>1 DEF ring, writer, Unsent, Taken, Line
    <3> QED
      BY <2>1, <3>1, LockBegins
  <2>2. ASSUME NEW w \in Workers, WriteAccount(w) PROVE Stream!Accept(w)
    BY <1>3, <2>2, LineStep, AccountAccepts DEF StreamInv
  <2>3. CASE ringbuffer_release_chunk
    <3>1. UNCHANGED <<length, written, Line>>
      BY <1>3, <2>3, LineStep DEF StreamInv, ringbuffer_release_chunk
    <3> QED
      BY <1>3, <2>3, <3>1, ReleaseReleases
  <2>4. CASE /\ \A w \in Workers : ~WriteLock(w) /\ ~WriteAccount(w)
             /\ ~ringbuffer_release_chunk
    <3>1. UNCHANGED <<length, written>>
      BY <2>4, ProgressStill
    <3>2. Stream!Send \/ UNCHANGED <<Unsent, out>>
      <4>1. ASSUME NEW w \in Workers, WriteCopy(w) PROVE UNCHANGED <<Unsent, out>>
        BY <1>3, <4>1, CopyStutters
      <4>2. CASE NetSend
        BY <4>2, SendSends
      <4>3. CASE (\A w \in Workers : ~WriteCopy(w)) /\ ~NetSend
        <5>1. Still /\ Taken' = Taken /\ out' = out
          BY <1>3, <2>4, <4>3, OthersStill, OthersTake DEF StreamInv
        <5> QED
          BY <1>3, <5>1 DEF Still, Unsent
      <4> QED
        BY <4>1, <4>2, <4>3
    <3>3. Line' = Line \/ (Line = "up" /\ Line' = "down")
      BY <1>3, LineStep DEF StreamInv
    <3>4. Stream!Send => Stream!Next
      OBVIOUS
    <3> QED
      BY <3>1, <3>2, <3>3, <3>4 DEF Stream!Break
  <2> QED
    BY <2>1, <2>2, <2>3, <2>4
<1> QED
  BY <1>1, <1>2, <1>3

\* What goes to the network is the stream of the stanzas that the workers wrote,
\* piece by piece and each from its first byte to its last: no byte is repeated,
\* reordered or overwritten within a session, and none is lost before the line
\* is down and the writer thread ends, whatever the size of the area, the
\* stanzas and the answers of send(), and although the writer thread reads the
\* memory without the mutex.
THEOREM RingImplementsStream ==
  ASSUME ReloadsSize = FALSE, MaxSessions = 1
  PROVE  Spec => ImplementsStream
<1>1. Init => StreamInv
  <2> SUFFICES ASSUME Init PROVE StreamInv
    OBVIOUS
  <2>1. data_size = 0 /\ Pending = 0 /\ out = <<>> /\ writer_pc = "check"
    BY DEF Init, Pending
  <2> QED
    BY <2>1, RingInit DEF Init, StreamInv, PendingWritten, Copied, OutHeld
<1>2. StreamInv /\ [Next]_vars => StreamInv'
  BY RingStep, PendingWrittenStep, OutHeldStep DEF StreamInv
<1>3. Init => Stream!Init
  BY RingAssumption DEF Init, Stream!Init, Unsent, Taken, Line
<1>4. StreamInv /\ StreamInv' /\ [Next]_vars => [Stream!Next]_(Stream!vars)
  BY StreamStep
<1> QED
  BY <1>1, <1>2, <1>3, <1>4, PTL DEF Spec, ImplementsStream, Stream!Spec
===========================================================================
