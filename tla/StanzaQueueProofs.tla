------------------------- MODULE StanzaQueueProofs -------------------------
(***************************************************************************)
(* Proofs about the stanza queue, for every number of blocks, worker slots *)
(* and threads.  TypeOK, ListsIntact and BlockInOnePlace are inductive     *)
(* together: the pointers are followed only where they spell the lists,    *)
(* and an update through one pointer leaves the other list alone only      *)
(* because no block is in two places.                                      *)
(***************************************************************************)
EXTENDS StanzaQueue, SequenceTheorems, FiniteSetTheorems, TLAPS

(* What the operations on sequences that the lists use return.             *)

\* A block appended to a list comes last and moves no other one.
LEMMA AppendFacts ==
    ASSUME NEW S, NEW q \in Seq(S), NEW e \in S
    PROVE  /\ Append(q, e) \in Seq(S)
           /\ Append(q, e) # <<>>
           /\ Len(Append(q, e)) = Len(q) + 1
           /\ \A i \in 1..Len(q) : Append(q, e)[i] = q[i]
           /\ Append(q, e)[Len(q) + 1] = e
BY AppendProperties

\* Removing the first block of a list moves the others up by one.
LEMMA TailFacts ==
    ASSUME NEW S, NEW q \in Seq(S), q # <<>>
    PROVE  /\ Tail(q) \in Seq(S)
           /\ Len(q) \in Nat
           /\ Len(q) >= 1
           /\ Len(Tail(q)) = Len(q) - 1
           /\ \A i \in 1..Len(q) - 1 : Tail(q)[i] = q[i + 1]
           /\ q[1] \in S
BY HeadTailProperties, LenProperties, EmptySeq

\* A block put in front of a list moves the others down by one.
LEMMA ConsFacts ==
    ASSUME NEW S, NEW q \in Seq(S), NEW e \in S
    PROVE  /\ <<e>> \o q \in Seq(S)
           /\ <<e>> \o q # <<>>
           /\ Len(<<e>> \o q) = Len(q) + 1
           /\ (<<e>> \o q)[1] = e
           /\ \A i \in 1..Len(q) : (<<e>> \o q)[i + 1] = q[i]
<1>1. <<e>> \in Seq(S) /\ Len(<<e>>) = 1 /\ <<e>>[1] = e
  OBVIOUS
<1>2. Len(q) \in Nat
  BY LenProperties
<1> QED
  BY <1>1, <1>2, ConcatProperties

-----------------------------------------------------------------------------
\* Every variable keeps its type.
LEMMA TypeInit == Init => TypeOK
<1> SUFFICES ASSUME Init PROVE TypeOK
  OBVIOUS
<1> USE ConstantsAssumption DEF Init, Blocks, NULL, Slots, Contents
<1>1. freeQ \in Seq(Blocks)
  OBVIOUS
<1>2. dataQ \in Seq(Blocks)
  OBVIOUS
<1>3. 1 \in Slots
  OBVIOUS
<1> QED
  BY <1>1, <1>2, <1>3 DEF TypeOK, ReaderPC, WorkerPC

\* The conjunction that the steps preserve.
QueueInv == TypeOK /\ ListsIntact /\ BlockInOnePlace

\* queue_init builds a list of all blocks.
LEMMA InvInit == Init => QueueInv
<1> SUFFICES ASSUME Init PROVE QueueInv
  OBVIOUS
<1>1. TypeOK
  BY TypeInit
<1> USE ConstantsAssumption DEF Init, Blocks, NULL
<1>2. /\ dataQ = <<>> /\ Len(dataQ) = 0
      /\ Len(freeQ) = N /\ freeQ # <<>>
      /\ \A i \in 1..N : freeQ[i] = N + 1 - i
  <2>1. Len(freeQ) = N /\ freeQ \in Seq(Blocks)
    OBVIOUS
  <2>2. freeQ # <<>>
    BY <2>1, EmptySeq
  <2>3. Len(dataQ) = 0
    OBVIOUS
  <2> QED
    BY <2>1, <2>2, <2>3
<1>3. ListsIntact
  <2>1. Spells(data_start_queue, dataQ)
    BY <1>2 DEF Spells
  <2>2. freeQ[1] = N /\ freeQ[Len(freeQ)] = 1 /\ next[1] = NULL
    BY <1>2
  <2>3. ASSUME NEW i \in 1..Len(freeQ) - 1 PROVE next[freeQ[i]] = freeQ[i + 1]
    <3>1. freeQ[i] = N + 1 - i /\ freeQ[i + 1] = N + 1 - (i + 1)
      BY <1>2
    <3> QED
      BY <3>1, <1>2
  <2>4. Spells(free_queue, freeQ)
    BY <2>2, <2>3, <1>2 DEF Spells
  <2> QED
    BY <2>1, <2>4, <1>2 DEF ListsIntact
<1>4. \A b \in Blocks : Free(b) /\ ~Queued(b)
  <2> TAKE b \in Blocks
  <2>1. N + 1 - b \in 1..N /\ freeQ[N + 1 - b] = b
    BY <1>2
  <2> QED
    BY <2>1, <1>2 DEF Free, Queued
<1>5. BlockInOnePlace
  BY <1>2, <1>4 DEF BlockInOnePlace, NoRepeats, ReaderHolds, WorkerHolds
<1> QED
  BY <1>1, <1>3, <1>5 DEF QueueInv

\* Waking a sleeper changes no pc but its own, from "wait_data" to "pop_data".
LEMMA SignalDataFacts ==
    ASSUME TypeOK, SignalData(worker_pc)
    PROVE  /\ worker_pc' \in [Threads -> WorkerPC]
           /\ \A t \in Threads :
                 \/ worker_pc'[t] = worker_pc[t]
                 \/ worker_pc[t] = "wait_data" /\ worker_pc'[t] = "pop_data"
BY DEF TypeOK, SignalData, Sleeping, WorkerPC

\* queue_pop_free takes the first block of the free list, or sleeps.
LEMMA PopFreeInv == QueueInv /\ queue_pop_free => QueueInv'
<1> SUFFICES ASSUME QueueInv, queue_pop_free PROVE QueueInv'
  OBVIOUS
<1> USE DEF QueueInv
<1>1. CASE free_queue = NULL
  <2>1. UNCHANGED <<lists, data, reader_block, worker_pc, worker_block, pool>>
        /\ reader_pc = "pop_free" /\ reader_pc' = "wait_free"
    BY <1>1 DEF queue_pop_free, lists
  <2>2. TypeOK'
    BY <2>1 DEF TypeOK, ReaderPC, lists, pool
  <2>3. ListsIntact'
    BY <2>1 DEF ListsIntact, Spells, lists
  <2>4. BlockInOnePlace'
    BY <2>1 DEF BlockInOnePlace, NoRepeats, Free, Queued, ReaderHolds,
                WorkerHolds, lists
  <2> QED
    BY <2>2, <2>3, <2>4
<1>2. CASE free_queue # NULL
  <2>1. /\ reader_pc = "pop_free" /\ reader_pc' = "fill"
        /\ reader_block' = free_queue /\ free_queue' = next[free_queue]
        /\ freeQ' = Tail(freeQ)
        /\ UNCHANGED <<next, data_start_queue, data_end_queue, dataQ, data,
                       worker_pc, worker_block, slot, enabled, pool_size>>
    BY <1>2 DEF queue_pop_free, pool
  <2>2. freeQ # <<>> /\ free_queue = freeQ[1] /\ freeQ \in Seq(Blocks)
    BY <1>2 DEF ListsIntact, Spells, TypeOK
  <2>3. /\ freeQ' \in Seq(Blocks)
        /\ Len(freeQ) \in Nat /\ Len(freeQ) >= 1
        /\ Len(freeQ') = Len(freeQ) - 1
        /\ \A i \in 1..Len(freeQ) - 1 : freeQ'[i] = freeQ[i + 1]
        /\ free_queue \in Blocks
    BY <2>1, <2>2, TailFacts
  <2>4. TypeOK'
    BY <2>1, <2>3 DEF TypeOK, ReaderPC
  <2>5. ListsIntact'
    <3>1. Spells(data_start_queue, dataQ)'
      BY <2>1 DEF ListsIntact, Spells
    <3>2. Spells(free_queue, freeQ)'
      <4>1. CASE Len(freeQ) = 1
        <5>1. freeQ' = <<>>
          BY <4>1, <2>3, EmptySeq
        <5> QED
          BY <4>1, <5>1, <2>1, <2>2, <2>3 DEF ListsIntact, Spells
      <4>2. CASE Len(freeQ) # 1
        <5>1. freeQ' # <<>>
          BY <4>2, <2>3, EmptySeq
        <5>2. /\ next[freeQ[1]] = freeQ[2]
              /\ next[freeQ[Len(freeQ)]] = NULL
              /\ \A i \in 1..Len(freeQ) - 1 : next[freeQ[i]] = freeQ[i + 1]
          BY <4>2, <2>2, <2>3 DEF ListsIntact, Spells
        <5> QED
          BY <4>2, <5>1, <5>2, <2>1, <2>2, <2>3 DEF Spells
      <4> QED
        BY <4>1, <4>2
    <3> QED
      BY <3>1, <3>2, <2>1 DEF ListsIntact
  <2>6. BlockInOnePlace'
    <3>1. NoRepeats'
      BY <2>1, <2>3 DEF BlockInOnePlace, NoRepeats
    <3>2. \A b \in Blocks : Free(b)' <=> Free(b) /\ b # free_queue
      <4> TAKE b \in Blocks
      <4>1. ASSUME Free(b)' PROVE Free(b) /\ b # free_queue
        <5>1. PICK i \in 1..Len(freeQ') : freeQ'[i] = b
          BY <4>1 DEF Free
        <5>2. i + 1 \in 1..Len(freeQ) /\ freeQ[i + 1] = b /\ i + 1 # 1
          BY <5>1, <2>3
        <5> QED
          BY <5>2, <2>2, <2>3 DEF Free, BlockInOnePlace, NoRepeats
      <4>2. ASSUME Free(b), b # free_queue PROVE Free(b)'
        <5>1. PICK i \in 1..Len(freeQ) : freeQ[i] = b
          BY <4>2 DEF Free
        <5>2. i - 1 \in 1..Len(freeQ') /\ freeQ'[i - 1] = b
          BY <5>1, <4>2, <2>2, <2>3
        <5> QED
          BY <5>2 DEF Free
      <4> QED
        BY <4>1, <4>2
    <3>3. Free(free_queue)
      BY <2>2, <2>3 DEF Free
    <3>4. \A b \in Blocks : Queued(b)' <=> Queued(b)
      BY <2>1 DEF Queued
    <3>5. \A b \in Blocks : /\ ~ReaderHolds(b)
                            /\ ReaderHolds(b)' <=> b = free_queue
                            /\ \A t \in Threads :
                                  WorkerHolds(t, b)' <=> WorkerHolds(t, b)
      BY <2>1 DEF ReaderHolds, WorkerHolds
    <3>6. /\ reader_block' # NULL
          /\ \A t \in Threads :
                worker_pc'[t] = "process" => worker_block'[t] # NULL
      BY <2>1, <1>2 DEF BlockInOnePlace
    <3> QED
      BY <3>1, <3>2, <3>3, <3>4, <3>5, <3>6, <2>3 DEF BlockInOnePlace
  <2> QED
    BY <2>4, <2>5, <2>6
<1> QED
  BY <1>1, <1>2

\* queue_push_data links the reader's block behind the last queued one.
LEMMA PushDataInv == QueueInv /\ queue_push_data => QueueInv'
<1> SUFFICES ASSUME QueueInv, queue_push_data PROVE QueueInv'
  OBVIOUS
<1> USE DEF QueueInv
<1> DEFINE stanza == reader_block
<1>1. /\ reader_pc = "push_data" /\ reader_pc' = "parse" /\ reader_block' = NULL
      /\ data_end_queue' = stanza /\ dataQ' = Append(dataQ, stanza)
      /\ next' = IF data_end_queue # NULL
                 THEN [next EXCEPT ![stanza] = NULL, ![data_end_queue] = stanza]
                 ELSE [next EXCEPT ![stanza] = NULL]
      /\ data_start_queue' = IF data_end_queue # NULL
                             THEN data_start_queue ELSE stanza
      /\ UNCHANGED <<free_queue, freeQ, data, worker_block, slot, enabled,
                     pool_size>>
  BY DEF queue_push_data, PushLinks, pool
<1>2. stanza \in Blocks /\ dataQ \in Seq(Blocks) /\ Len(dataQ) \in Nat
  BY <1>1, LenProperties DEF BlockInOnePlace, TypeOK
<1>3. /\ dataQ' \in Seq(Blocks) /\ dataQ' # <<>>
      /\ Len(dataQ') = Len(dataQ) + 1
      /\ \A i \in 1..Len(dataQ) : dataQ'[i] = dataQ[i]
      /\ dataQ'[Len(dataQ) + 1] = stanza
  BY <1>1, <1>2, AppendFacts
<1>4. /\ worker_pc' \in [Threads -> WorkerPC]
      /\ \A t \in Threads :
            \/ worker_pc'[t] = worker_pc[t]
            \/ worker_pc[t] = "wait_data" /\ worker_pc'[t] = "pop_data"
  BY SignalDataFacts DEF queue_push_data
<1>5. ReaderHolds(stanza) /\ ~Free(stanza) /\ ~Queued(stanza)
  BY <1>1, <1>2 DEF BlockInOnePlace, ReaderHolds
<1>6. TypeOK'
  BY <1>1, <1>2, <1>3, <1>4 DEF TypeOK, ReaderPC, NULL, Blocks
<1>7. data_end_queue # NULL <=> dataQ # <<>>
  <2>1. dataQ # <<>> => Len(dataQ) >= 1 /\ dataQ[Len(dataQ)] \in Blocks
    BY <1>2, EmptySeq, ElementOfSeq
  <2> QED
    BY <2>1 DEF ListsIntact, NULL, Blocks
<1>8. \A b \in Blocks : b # stanza /\ b # data_end_queue => next'[b] = next[b]
  BY <1>1, <1>2 DEF TypeOK
<1>9. next'[stanza] = NULL
  <2>1. dataQ # <<>> => Queued(data_end_queue)
    BY <1>2, EmptySeq DEF ListsIntact, Queued
  <2> QED
    BY <2>1, <1>1, <1>2, <1>5, <1>7 DEF TypeOK
<1>10. ListsIntact'
  <2>1. Spells(data_start_queue, dataQ)'
    <3>1. CASE dataQ = <<>>
      BY <3>1, <1>1, <1>3, <1>7, <1>9 DEF Spells
    <3>2. CASE dataQ # <<>>
      <4> DEFINE last == Len(dataQ)
      <4>1. last \in Nat /\ last >= 1 /\ data_end_queue = dataQ[last]
        BY <3>2, <1>2, EmptySeq DEF ListsIntact
      <4>2. \A i \in 1..last : dataQ[i] \in Blocks /\ dataQ[i] # stanza
        BY <1>2, <1>5, ElementOfSeq DEF Queued
      <4>3. \A i \in 1..last - 1 : next'[dataQ[i]] = dataQ[i + 1]
        <5> TAKE i \in 1..last - 1
        <5>1. dataQ[i] # dataQ[last]
          BY <4>1 DEF BlockInOnePlace, NoRepeats
        <5>2. next[dataQ[i]] = dataQ[i + 1]
          BY DEF ListsIntact, Spells
        <5> QED
          BY <5>1, <5>2, <4>1, <4>2, <1>8
      <4>4. next'[dataQ[last]] = stanza
        BY <4>1, <4>2, <1>1, <1>2, <3>2, <1>7 DEF TypeOK
      <4>5. data_start_queue' = dataQ'[1]
        BY <3>2, <1>1, <1>3, <1>7, <4>1 DEF ListsIntact, Spells
      <4> QED
        BY <4>1, <4>3, <4>4, <4>5, <1>3, <1>9 DEF Spells
    <3> QED
      BY <3>1, <3>2
  <2>2. Spells(free_queue, freeQ)'
    <3>1. Len(freeQ) \in Nat
          /\ \A i \in 1..Len(freeQ) : freeQ[i] \in Blocks /\ Free(freeQ[i])
      BY LenProperties, ElementOfSeq DEF TypeOK, Free
    <3>2. \A i \in 1..Len(freeQ) : freeQ[i] # stanza
                                   /\ freeQ[i] # data_end_queue
      <4>1. dataQ # <<>> => Queued(data_end_queue)
        BY <1>2, EmptySeq DEF ListsIntact, Queued
      <4> QED
        BY <4>1, <3>1, <1>5, <1>7 DEF BlockInOnePlace, Blocks, NULL
    <3>3. \A i \in 1..Len(freeQ) : next'[freeQ[i]] = next[freeQ[i]]
      BY <3>1, <3>2, <1>8
    <3>4. freeQ # <<>> => Len(freeQ) \in 1..Len(freeQ)
      BY <3>1, EmptySeq DEF TypeOK
    <3>5. Spells(free_queue, freeQ)
      BY DEF ListsIntact
    <3>6. ASSUME NEW i \in 1..Len(freeQ) - 1
          PROVE  next'[freeQ[i]] = freeQ[i + 1]
      BY <3>1, <3>3, <3>5 DEF Spells
    <3>7. freeQ # <<>> => free_queue = freeQ[1]
                         /\ next'[freeQ[Len(freeQ)]] = NULL
      BY <3>3, <3>4, <3>5 DEF Spells
    <3> QED
      BY <3>5, <3>6, <3>7, <1>1 DEF Spells
  <2> QED
    BY <2>1, <2>2, <1>1, <1>3 DEF ListsIntact
<1>11. BlockInOnePlace'
  <2>1. NoRepeats'
    BY <1>1, <1>2, <1>3, <1>5 DEF BlockInOnePlace, NoRepeats, Queued
  <2>2. \A b \in Blocks : Queued(b)' <=> Queued(b) \/ b = stanza
    <3> TAKE b \in Blocks
    <3>1. ASSUME Queued(b) PROVE Queued(b)'
      BY <3>1, <1>2, <1>3 DEF Queued
    <3>2. ASSUME b = stanza PROVE Queued(b)'
      BY <3>2, <1>2, <1>3 DEF Queued
    <3>3. ASSUME Queued(b)' PROVE Queued(b) \/ b = stanza
      <4>1. PICK i \in 1..Len(dataQ') : dataQ'[i] = b
        BY <3>3 DEF Queued
      <4>2. i \in 1..Len(dataQ) \/ i = Len(dataQ) + 1
        BY <1>2, <1>3
      <4> QED
        BY <4>1, <4>2, <1>3 DEF Queued
    <3> QED
      BY <3>1, <3>2, <3>3
  <2>3. \A b \in Blocks : /\ Free(b)' <=> Free(b)
                          /\ ReaderHolds(b) <=> b = stanza
                          /\ ~ReaderHolds(b)'
                          /\ \A t \in Threads :
                                WorkerHolds(t, b)' <=> WorkerHolds(t, b)
    BY <1>1, <1>4 DEF Free, ReaderHolds, WorkerHolds
  <2>4. /\ reader_pc' = "parse"
        /\ \A t \in Threads :
              worker_pc'[t] = "process" => worker_block'[t] # NULL
    BY <1>1, <1>4 DEF BlockInOnePlace
  <2> QED
    BY <2>1, <2>2, <2>3, <2>4, <1>2, <1>5 DEF BlockInOnePlace
<1> QED
  BY <1>6, <1>10, <1>11

\* queue_pop_data takes the first queued block, or sleeps.
LEMMA PopDataInv ==
    ASSUME QueueInv, NEW t \in Threads, queue_pop_data(t)
    PROVE  QueueInv'
<1> USE DEF QueueInv
<1>0. worker_pc \in [Threads -> WorkerPC]
      /\ worker_block \in [Threads -> Blocks \cup {NULL}]
  BY DEF TypeOK
<1>1. CASE data_start_queue = NULL
  <2>1. /\ UNCHANGED <<lists, data, reader, worker_block, pool>>
        /\ worker_pc[t] = "pop_data"
        /\ worker_pc' = [worker_pc EXCEPT ![t] = "wait_data"]
    BY <1>1 DEF queue_pop_data, lists
  <2>2. TypeOK'
    BY <2>1 DEF TypeOK, WorkerPC, lists, reader, pool
  <2>3. ListsIntact'
    BY <2>1 DEF ListsIntact, Spells, lists
  <2>4. BlockInOnePlace'
    BY <2>1, <1>0 DEF BlockInOnePlace, NoRepeats, Free, Queued, ReaderHolds,
                      WorkerHolds, lists, reader
  <2> QED
    BY <2>2, <2>3, <2>4
<1>2. CASE data_start_queue # NULL
  <2> DEFINE block == data_start_queue
  <2>1. /\ worker_pc[t] = "pop_data"
        /\ worker_pc' = [worker_pc EXCEPT ![t] = "process"]
        /\ worker_block' = [worker_block EXCEPT ![t] = block]
        /\ data_start_queue' = next[block]
        /\ data_end_queue' = IF data_end_queue = block
                             THEN NULL ELSE data_end_queue
        /\ dataQ' = Tail(dataQ)
        /\ UNCHANGED <<next, free_queue, freeQ, data, reader_pc, reader_block,
                       slot, enabled, pool_size>>
    BY <1>2 DEF queue_pop_data, reader, pool
  <2>2. dataQ # <<>> /\ block = dataQ[1] /\ dataQ \in Seq(Blocks)
    BY <1>2 DEF ListsIntact, Spells, TypeOK
  <2>3. /\ dataQ' \in Seq(Blocks)
        /\ Len(dataQ) \in Nat /\ Len(dataQ) >= 1
        /\ Len(dataQ') = Len(dataQ) - 1
        /\ \A i \in 1..Len(dataQ) - 1 : dataQ'[i] = dataQ[i + 1]
        /\ block \in Blocks
    BY <2>1, <2>2, TailFacts
  <2>4. TypeOK'
    BY <2>1, <2>3 DEF TypeOK, WorkerPC
  <2>5. ListsIntact'
    <3>1. Spells(free_queue, freeQ)'
      BY <2>1 DEF ListsIntact, Spells
    <3>2. Spells(data_start_queue, dataQ)'
          /\ data_end_queue' = IF dataQ' = <<>> THEN NULL
                               ELSE dataQ'[Len(dataQ')]
      <4>1. CASE Len(dataQ) = 1
        <5>1. dataQ' = <<>>
          BY <4>1, <2>3, EmptySeq
        <5>2. next[dataQ[1]] = NULL /\ data_end_queue = block
          BY <4>1, <2>2 DEF ListsIntact, Spells
        <5>3. data_start_queue' = NULL /\ data_end_queue' = NULL
          BY <5>2, <2>1, <2>2
        <5>4. Len(dataQ') = 0
          BY <4>1, <2>3
        <5>5. Spells(data_start_queue, dataQ)'
          BY <5>1, <5>3, <5>4 DEF Spells
        <5> QED
          BY <5>1, <5>3, <5>5
      <4>2. CASE Len(dataQ) # 1
        <5>1. dataQ' # <<>>
          BY <4>2, <2>3, EmptySeq
        <5>2. /\ next[dataQ[1]] = dataQ[2]
              /\ next[dataQ[Len(dataQ)]] = NULL
              /\ data_end_queue = dataQ[Len(dataQ)]
              /\ \A i \in 1..Len(dataQ) - 1 : next[dataQ[i]] = dataQ[i + 1]
          BY <4>2, <2>2, <2>3 DEF ListsIntact, Spells
        <5>3. dataQ[Len(dataQ)] # dataQ[1]
          BY <4>2, <2>3 DEF BlockInOnePlace, NoRepeats
        <5>4. dataQ'[Len(dataQ')] = dataQ[Len(dataQ)]
          BY <4>2, <2>3
        <5>5. Spells(data_start_queue, dataQ)'
          BY <4>2, <5>1, <5>2, <5>4, <2>1, <2>2, <2>3 DEF Spells
        <5>6. data_end_queue' = dataQ'[Len(dataQ')]
          BY <5>2, <5>3, <5>4, <2>1, <2>2
        <5> QED
          BY <5>1, <5>5, <5>6
      <4> QED
        BY <4>1, <4>2
    <3> QED
      BY <3>1, <3>2 DEF ListsIntact
  <2>6. BlockInOnePlace'
    <3>1. NoRepeats'
      BY <2>1, <2>3 DEF BlockInOnePlace, NoRepeats
    <3>2. \A b \in Blocks : Queued(b)' <=> Queued(b) /\ b # block
      <4> TAKE b \in Blocks
      <4>1. ASSUME Queued(b)' PROVE Queued(b) /\ b # block
        <5>1. PICK i \in 1..Len(dataQ') : dataQ'[i] = b
          BY <4>1 DEF Queued
        <5>2. i + 1 \in 1..Len(dataQ) /\ dataQ[i + 1] = b /\ i + 1 # 1
          BY <5>1, <2>3
        <5> QED
          BY <5>2, <2>2, <2>3 DEF Queued, BlockInOnePlace, NoRepeats
      <4>2. ASSUME Queued(b), b # block PROVE Queued(b)'
        <5>1. PICK i \in 1..Len(dataQ) : dataQ[i] = b
          BY <4>2 DEF Queued
        <5>2. i - 1 \in 1..Len(dataQ') /\ dataQ'[i - 1] = b
          BY <5>1, <4>2, <2>2, <2>3
        <5> QED
          BY <5>2 DEF Queued
      <4> QED
        BY <4>1, <4>2
    <3>3. Queued(block)
      BY <2>2, <2>3 DEF Queued
    <3>4. \A b \in Blocks : /\ Free(b)' <=> Free(b)
                            /\ ReaderHolds(b)' <=> ReaderHolds(b)
      BY <2>1 DEF Free, ReaderHolds
    <3>5. \A b \in Blocks : /\ ~WorkerHolds(t, b)
                            /\ WorkerHolds(t, b)' <=> b = block
                            /\ \A u \in Threads \ {t} :
                                  WorkerHolds(u, b)' <=> WorkerHolds(u, b)
      BY <2>1, <1>0 DEF WorkerHolds
    <3>6. /\ reader_pc' \in {"fill", "push_data"} => reader_block' # NULL
          /\ \A u \in Threads :
                worker_pc'[u] = "process" => worker_block'[u] # NULL
      BY <2>1, <1>0, <1>2 DEF BlockInOnePlace
    <3> QED
      BY <3>1, <3>2, <3>3, <3>4, <3>5, <3>6, <2>3 DEF BlockInOnePlace
  <2> QED
    BY <2>4, <2>5, <2>6
<1> QED
  BY <1>1, <1>2

\* queue_push_free puts the worker's block in front of the free list.
LEMMA PushFreeInv ==
    ASSUME QueueInv, NEW t \in Threads, queue_push_free(t)
    PROVE  QueueInv'
<1> USE DEF QueueInv
<1> DEFINE block == worker_block[t]
<1>0. worker_pc \in [Threads -> WorkerPC]
      /\ worker_block \in [Threads -> Blocks \cup {NULL}]
  BY DEF TypeOK
<1>1. /\ worker_pc[t] = "process"
      /\ worker_pc' = [worker_pc EXCEPT ![t] = "loop"]
      /\ worker_block' = [worker_block EXCEPT ![t] = NULL]
      /\ next' = [next EXCEPT ![block] = free_queue]
      /\ free_queue' = block
      /\ freeQ' = <<block>> \o freeQ
      /\ reader_pc' = IF reader_pc = "wait_free" THEN "pop_free" ELSE reader_pc
      /\ UNCHANGED <<data_start_queue, data_end_queue, dataQ, data,
                     reader_block, slot, enabled, pool_size>>
  BY DEF queue_push_free, SignalFree, pool
<1>2. block \in Blocks /\ freeQ \in Seq(Blocks) /\ Len(freeQ) \in Nat
  BY <1>0, <1>1, LenProperties DEF BlockInOnePlace, TypeOK
<1>3. /\ freeQ' \in Seq(Blocks) /\ freeQ' # <<>>
      /\ Len(freeQ') = Len(freeQ) + 1
      /\ freeQ'[1] = block
      /\ \A i \in 1..Len(freeQ) : freeQ'[i + 1] = freeQ[i]
  BY <1>1, <1>2, ConsFacts
<1>4. \A i \in 2..Len(freeQ') : i - 1 \in 1..Len(freeQ)
                                /\ freeQ'[i] = freeQ[i - 1]
  <2> TAKE i \in 2..Len(freeQ')
  <2>1. i - 1 \in 1..Len(freeQ) /\ i = (i - 1) + 1
    BY <1>2, <1>3
  <2> QED
    BY <2>1, <1>3
<1>5. WorkerHolds(t, block) /\ ~Free(block) /\ ~Queued(block)
  BY <1>1, <1>2 DEF BlockInOnePlace, WorkerHolds
<1>6. TypeOK'
  BY <1>1, <1>2, <1>3 DEF TypeOK, ReaderPC, WorkerPC
<1>7. \A b \in Blocks : next'[b] = IF b = block THEN free_queue ELSE next[b]
  BY <1>1, <1>2 DEF TypeOK
<1>8. ListsIntact'
  <2>1. Spells(data_start_queue, dataQ)'
    <3>1. Len(dataQ) \in Nat
          /\ \A i \in 1..Len(dataQ) : dataQ[i] \in Blocks /\ Queued(dataQ[i])
      BY LenProperties, ElementOfSeq DEF TypeOK, Queued
    <3>2. \A i \in 1..Len(dataQ) : next'[dataQ[i]] = next[dataQ[i]]
      BY <3>1, <1>5, <1>7
    <3>3. dataQ # <<>> => Len(dataQ) \in 1..Len(dataQ)
      BY <3>1, EmptySeq DEF TypeOK
    <3>4. Spells(data_start_queue, dataQ)
      BY DEF ListsIntact
    <3>5. ASSUME NEW i \in 1..Len(dataQ) - 1
          PROVE  next'[dataQ[i]] = dataQ[i + 1]
      BY <3>1, <3>2, <3>4 DEF Spells
    <3>6. dataQ # <<>> => data_start_queue = dataQ[1]
                         /\ next'[dataQ[Len(dataQ)]] = NULL
      BY <3>2, <3>3, <3>4 DEF Spells
    <3> QED
      BY <3>4, <3>5, <3>6, <1>1 DEF Spells
  <2>2. Spells(free_queue, freeQ)'
    <3>1. \A i \in 1..Len(freeQ) : freeQ[i] \in Blocks /\ freeQ[i] # block
      BY <1>2, <1>5, ElementOfSeq DEF Free
    <3>2. Spells(free_queue, freeQ)
      BY DEF ListsIntact
    <3>3. free_queue' = freeQ'[1]
      BY <1>1, <1>3
    <3>4. next'[freeQ'[Len(freeQ')]] = NULL
      <4>1. CASE freeQ = <<>>
        <5>1. Len(freeQ') = 1
          BY <4>1, <1>3
        <5> QED
          BY <4>1, <5>1, <3>2, <1>2, <1>3, <1>7 DEF Spells
      <4>2. CASE freeQ # <<>>
        <5>1. Len(freeQ) \in 1..Len(freeQ)
          BY <4>2, <1>2, EmptySeq
        <5>2. freeQ'[Len(freeQ')] = freeQ[Len(freeQ)]
          BY <5>1, <1>3
        <5> QED
          BY <4>2, <5>1, <5>2, <3>1, <3>2, <1>7 DEF Spells
      <4> QED
        BY <4>1, <4>2
    <3>5. ASSUME NEW i \in 1..Len(freeQ') - 1
          PROVE  next'[freeQ'[i]] = freeQ'[i + 1]
      <4>0. i \in 1..Len(freeQ) /\ freeQ'[i + 1] = freeQ[i]
        BY <1>2, <1>3
      <4>1. CASE i = 1
        <5>1. freeQ # <<>>
          BY <4>0, EmptySeq, <1>2
        <5> QED
          BY <4>0, <4>1, <5>1, <3>2, <1>2, <1>3, <1>7 DEF Spells
      <4>2. CASE i # 1
        <5>1. i \in 2..Len(freeQ') /\ i - 1 \in 1..Len(freeQ) - 1
          BY <4>0, <4>2, <1>2, <1>3
        <5>2. freeQ'[i] = freeQ[i - 1] /\ next[freeQ[i - 1]] = freeQ[(i - 1) + 1]
          BY <5>1, <1>4, <3>2 DEF Spells
        <5>3. freeQ[i - 1] \in Blocks /\ freeQ[i - 1] # block
          BY <5>1, <1>2, <3>1
        <5> QED
          BY <4>0, <5>2, <5>3, <1>7
      <4> QED
        BY <4>1, <4>2
    <3> QED
      BY <3>3, <3>4, <3>5, <1>3 DEF Spells
  <2> QED
    BY <2>1, <2>2, <1>1 DEF ListsIntact
<1>9. BlockInOnePlace'
  <2>1. NoRepeats'
    <3>1. ASSUME NEW i \in 1..Len(freeQ'), NEW j \in 1..Len(freeQ'),
                 freeQ'[i] = freeQ'[j]
          PROVE  i = j
      <4>1. \A k \in 2..Len(freeQ') : freeQ'[k] # block
        BY <1>4, <1>5 DEF Free
      <4>2. CASE i = 1 \/ j = 1
        BY <3>1, <4>1, <4>2, <1>2, <1>3
      <4>3. CASE i # 1 /\ j # 1
        <5>1. i \in 2..Len(freeQ') /\ j \in 2..Len(freeQ')
          BY <4>3, <1>2, <1>3
        <5>2. i - 1 = j - 1
          BY <5>1, <3>1, <1>4 DEF BlockInOnePlace, NoRepeats
        <5> QED
          BY <5>2
      <4> QED
        BY <4>2, <4>3
    <3> QED
      BY <3>1, <1>1 DEF BlockInOnePlace, NoRepeats
  <2>2. \A b \in Blocks : Free(b)' <=> Free(b) \/ b = block
    <3> TAKE b \in Blocks
    <3>1. ASSUME Free(b) PROVE Free(b)'
      <4>1. PICK i \in 1..Len(freeQ) : freeQ[i] = b
        BY <3>1 DEF Free
      <4>2. i + 1 \in 1..Len(freeQ') /\ freeQ'[i + 1] = b
        BY <4>1, <1>2, <1>3
      <4> QED
        BY <4>2 DEF Free
    <3>2. ASSUME b = block PROVE Free(b)'
      BY <3>2, <1>2, <1>3 DEF Free
    <3>3. ASSUME Free(b)' PROVE Free(b) \/ b = block
      <4>1. PICK i \in 1..Len(freeQ') : freeQ'[i] = b
        BY <3>3 DEF Free
      <4>2. i = 1 \/ i \in 2..Len(freeQ')
        BY <1>2, <1>3
      <4> QED
        BY <4>1, <4>2, <1>3, <1>4 DEF Free
    <3> QED
      BY <3>1, <3>2, <3>3
  <2>3. \A b \in Blocks : /\ Queued(b)' <=> Queued(b)
                          /\ ReaderHolds(b)' <=> ReaderHolds(b)
                          /\ WorkerHolds(t, b) <=> b = block
                          /\ ~WorkerHolds(t, b)'
                          /\ \A u \in Threads \ {t} :
                                WorkerHolds(u, b)' <=> WorkerHolds(u, b)
    BY <1>0, <1>1 DEF Queued, ReaderHolds, WorkerHolds
  <2>4. /\ reader_pc' \in {"fill", "push_data"} => reader_block' # NULL
        /\ \A u \in Threads :
              worker_pc'[u] = "process" => worker_block'[u] # NULL
    BY <1>0, <1>1 DEF BlockInOnePlace
  <2> QED
    BY <2>1, <2>2, <2>3, <2>4, <1>2, <1>5 DEF BlockInOnePlace
<1> QED
  BY <1>6, <1>8, <1>9

\* The reader writes only to the block it holds; the other steps of the reader
\* and of the workers, and a reload, only move a pc.
LEMMA FillInv == QueueInv /\ ReaderFill => QueueInv'
<1> SUFFICES ASSUME QueueInv, ReaderFill PROVE QueueInv'
  OBVIOUS
<1> USE DEF QueueInv
<1>1. /\ reader_pc = "fill" /\ reader_pc' = "push_data"
      /\ UNCHANGED <<lists, reader_block, worker_pc, worker_block, pool>>
      /\ data' \in [Blocks -> Contents]
  BY DEF ReaderFill, TypeOK
<1>2. TypeOK'
  BY <1>1 DEF TypeOK, ReaderPC, lists, pool
<1>3. ListsIntact'
  BY <1>1 DEF ListsIntact, Spells, lists
<1>4. BlockInOnePlace'
  BY <1>1 DEF BlockInOnePlace, NoRepeats, Free, Queued, ReaderHolds,
              WorkerHolds, lists
<1> QED
  BY <1>2, <1>3, <1>4

\* A step that only moves the reader's pc, outside of a block, disturbs nothing.
LEMMA ReaderPcInv == QueueInv /\ (ReaderParse \/ ReaderSpuriousWakeup) => QueueInv'
<1> SUFFICES ASSUME QueueInv, ReaderParse \/ ReaderSpuriousWakeup
             PROVE  QueueInv'
  OBVIOUS
<1> USE DEF QueueInv
<1>1. /\ reader_pc \in {"parse", "wait_free"} /\ reader_pc' = "pop_free"
      /\ UNCHANGED <<lists, data, reader_block, worker_pc, worker_block, pool>>
  BY DEF ReaderParse, ReaderSpuriousWakeup
<1>2. TypeOK'
  BY <1>1 DEF TypeOK, ReaderPC, lists, pool
<1>3. ListsIntact'
  BY <1>1 DEF ListsIntact, Spells, lists
<1>4. BlockInOnePlace'
  BY <1>1 DEF BlockInOnePlace, NoRepeats, Free, Queued, ReaderHolds,
              WorkerHolds, lists
<1> QED
  BY <1>2, <1>3, <1>4

\* Nor does the test of WorkerConfig.enabled, or a wake-up without a signal.
LEMMA WorkerPcInv ==
    ASSUME QueueInv, NEW t \in Threads,
           WorkerLoop(t) \/ WorkerSpuriousWakeup(t)
    PROVE  QueueInv'
<1> USE DEF QueueInv
<1>1. /\ worker_pc[t] \in {"loop", "wait_data"}
      /\ \E pc \in {"pop_data", "done"} :
            worker_pc' = [worker_pc EXCEPT ![t] = pc]
      /\ UNCHANGED <<lists, data, reader, worker_block, pool>>
  BY DEF WorkerLoop, WorkerSpuriousWakeup
<1>2. /\ worker_pc' \in [Threads -> WorkerPC]
      /\ \A u \in Threads : worker_pc'[u] = "process" <=> worker_pc[u] = "process"
  BY <1>1 DEF TypeOK, WorkerPC
<1>3. TypeOK'
  BY <1>1, <1>2 DEF TypeOK, lists, reader, pool
<1>4. ListsIntact'
  BY <1>1 DEF ListsIntact, Spells, lists
<1>5. BlockInOnePlace'
  BY <1>1, <1>2 DEF BlockInOnePlace, NoRepeats, Free, Queued, ReaderHolds,
                    WorkerHolds, lists, reader
<1> QED
  BY <1>3, <1>4, <1>5

\* A reload starts threads that have not run yet and moves no other one's pc.
LEMMA ApplyConfigFacts ==
    ASSUME TypeOK, NEW size \in Slots, apply_config(size)
    PROVE  /\ TypeOK'
           /\ UNCHANGED <<lists, data, reader, worker_block>>
           /\ \A t \in Threads :
                 \/ worker_pc'[t] = worker_pc[t]
                 \/ worker_pc[t] = "unborn" /\ worker_pc'[t] = "loop"
<1> DEFINE started == {i \in 1..size : ~enabled[i]}
<1>1. UNCHANGED <<lists, data, reader, worker_block>>
  BY DEF apply_config
<1>2. PICK thread \in [started -> Unborn] :
         /\ worker_pc' = [t \in Threads |->
                             IF \E i \in started : thread[i] = t
                             THEN "loop" ELSE worker_pc[t]]
         /\ slot' = [t \in Threads |->
                        IF \E i \in started : thread[i] = t
                        THEN CHOOSE i \in started : thread[i] = t
                        ELSE slot[t]]
  BY DEF apply_config
<1>3. pool_size' = size /\ enabled' = [i \in Slots |-> i <= size]
  BY DEF apply_config
<1>4. enabled' \in [Slots -> BOOLEAN]
  BY <1>3
<1>5. started \subseteq Slots
  BY ConstantsAssumption DEF Slots
<1>6. slot' \in [Threads -> Slots]
  <2> SUFFICES ASSUME NEW t \in Threads
               PROVE  (IF \E i \in started : thread[i] = t
                       THEN CHOOSE i \in started : thread[i] = t
                       ELSE slot[t]) \in Slots
    BY <1>2
  <2>1. CASE \E i \in started : thread[i] = t
    <3>1. (CHOOSE i \in started : thread[i] = t) \in started
      BY <2>1
    <3> QED
      BY <2>1, <3>1, <1>5
  <2>2. CASE ~\E i \in started : thread[i] = t
    BY <2>2 DEF TypeOK
  <2> QED
    BY <2>1, <2>2
<1>7. \A t \in Threads : \/ worker_pc'[t] = worker_pc[t]
                         \/ worker_pc[t] = "unborn" /\ worker_pc'[t] = "loop"
  BY <1>2 DEF Unborn
<1>8. worker_pc' \in [Threads -> WorkerPC]
  BY <1>2 DEF TypeOK, WorkerPC
<1>9. TypeOK'
  BY <1>1, <1>3, <1>4, <1>6, <1>8 DEF TypeOK, lists, reader
<1> QED
  BY <1>1, <1>7, <1>9

\* So a reload keeps the invariant: a new thread holds no block.
LEMMA ApplyConfigInv ==
    ASSUME QueueInv, NEW size \in Slots, apply_config(size)
    PROVE  QueueInv'
<1> USE DEF QueueInv
<1>1. /\ TypeOK'
      /\ UNCHANGED <<lists, data, reader, worker_block>>
      /\ \A t \in Threads : worker_pc'[t] = "process" <=> worker_pc[t] = "process"
  BY ApplyConfigFacts
<1>2. ListsIntact'
  BY <1>1 DEF ListsIntact, Spells, lists
<1>3. BlockInOnePlace'
  BY <1>1 DEF BlockInOnePlace, NoRepeats, Free, Queued, ReaderHolds,
              WorkerHolds, lists, reader
<1> QED
  BY <1>1, <1>2, <1>3

\* A step that changes no variable.
LEMMA StutterInv == QueueInv /\ UNCHANGED vars => QueueInv'
<1> SUFFICES ASSUME QueueInv, UNCHANGED vars PROVE QueueInv'
  OBVIOUS
<1> USE DEF QueueInv, vars, lists, reader, pool
<1>1. TypeOK'
  BY DEF TypeOK
<1>2. ListsIntact'
  BY DEF ListsIntact, Spells
<1>3. BlockInOnePlace'
  BY DEF BlockInOnePlace, NoRepeats, Free, Queued, ReaderHolds, WorkerHolds
<1> QED
  BY <1>1, <1>2, <1>3

\* Every step of the system preserves the invariant.
LEMMA InvStep == QueueInv /\ [Next]_vars => QueueInv'
<1> SUFFICES ASSUME QueueInv, [Next]_vars PROVE QueueInv'
  OBVIOUS
<1>1. CASE ReaderParse \/ ReaderSpuriousWakeup
  BY <1>1, ReaderPcInv
<1>2. CASE queue_pop_free
  BY <1>2, PopFreeInv
<1>3. CASE ReaderFill
  BY <1>3, FillInv
<1>4. CASE queue_push_data
  BY <1>4, PushDataInv
<1>5. ASSUME NEW t \in Threads, WorkerStep(t) \/ WorkerSpuriousWakeup(t)
      PROVE  QueueInv'
  BY <1>5, WorkerPcInv, PopDataInv, PushFreeInv DEF WorkerStep
<1>6. ASSUME NEW size \in Slots, apply_config(size) PROVE QueueInv'
  BY <1>6, ApplyConfigInv
<1>7. CASE UNCHANGED vars
  BY <1>7, StutterInv
<1> QED
  BY <1>1, <1>2, <1>3, <1>4, <1>5, <1>6, <1>7 DEF Next, ReaderStep

\* The invariant holds in every reachable state.
LEMMA InvAlways == Spec => []QueueInv
<1>1. Init => QueueInv
  BY InvInit
<1>2. QueueInv /\ [Next]_vars => QueueInv'
  BY InvStep
<1> QED
  BY <1>1, <1>2, PTL DEF Spec

\* The type invariant of the queue and its threads.
THEOREM TypeCorrect == Spec => []TypeOK
BY InvAlways, PTL DEF QueueInv

\* The pointers of queue.c always spell the two lists.
THEOREM ListsAlwaysIntact == Spec => []ListsIntact
BY InvAlways, PTL DEF QueueInv

\* Every block is always in exactly one place.
THEOREM BlocksNeverLeak == Spec => []BlockInOnePlace
BY InvAlways, PTL DEF QueueInv

\* No thread can be handed a block that is not there, is in use or was lost,
\* although the four operations of queue.c share two lists and two mutexes.
THEOREM QueueAlwaysIntact == Spec => []QueueIntact
BY TypeCorrect, ListsAlwaysIntact, BlocksNeverLeak, PTL DEF QueueIntact

-----------------------------------------------------------------------------
(* Wake-ups.  One signal per push is enough because a worker that is awake *)
(* and about to pop stands for one queued block for as long as another one *)
(* sleeps.                                                                 *)

\* The set of workers about to pop grows or shrinks by at most the thread that
\* moves, and its cardinality with it.
LEMMA AwakeFinite ==
    ASSUME NEW pc
    PROVE  LET S == {t \in Threads : pc[t] = "pop_data"}
           IN  IsFiniteSet(S) /\ Cardinality(S) \in Nat
<1> DEFINE S == {t \in Threads : pc[t] = "pop_data"}
<1>1. IsFiniteSet(S)
  BY ConstantsAssumption, FS_Subset
<1> QED
  BY <1>1, FS_CardinalityType

\* A thread that starts to pop adds one to the number of those that do.
LEMMA OneMoreAwake ==
    ASSUME NEW pc, NEW qc, NEW t \in Threads,
           pc[t] # "pop_data", qc[t] = "pop_data",
           \A u \in Threads \ {t} : qc[u] = "pop_data" <=> pc[u] = "pop_data"
    PROVE  Cardinality({u \in Threads : qc[u] = "pop_data"})
             = Cardinality({u \in Threads : pc[u] = "pop_data"}) + 1
<1> DEFINE S == {u \in Threads : pc[u] = "pop_data"}
           T == {u \in Threads : qc[u] = "pop_data"}
<1>1. T = S \cup {t} /\ t \notin S
  OBVIOUS
<1>2. IsFiniteSet(S)
  BY ConstantsAssumption, FS_Subset
<1> QED
  BY <1>1, <1>2, FS_AddElement

WakeInv == QueueInv /\ WakeupsSuffice

\* No worker sleeps before the first one is started.
LEMMA WakeInit == Init => WakeInv
<1> SUFFICES ASSUME Init PROVE WakeInv
  OBVIOUS
<1>1. QueueInv
  BY InvInit
<1>2. Sleeping = {} /\ reader_pc # "wait_free"
  BY DEF Init, Sleeping
<1> QED
  BY <1>1, <1>2 DEF WakeInv, WakeupsSuffice

\* Each step changes the queue's length and the number of workers on their way
\* into queue_pop_data so that the one stays within the other.
LEMMA WakeStep == WakeInv /\ [Next]_vars => WakeInv'
<1> SUFFICES ASSUME WakeInv, [Next]_vars PROVE WakeupsSuffice'
  BY InvStep DEF WakeInv
<1>0. QueueInv /\ QueueInv' /\ WakeupsSuffice
  BY InvStep DEF WakeInv
<1>1. /\ worker_pc \in [Threads -> WorkerPC]
      /\ dataQ \in Seq(Blocks) /\ Len(dataQ) \in Nat
      /\ Cardinality(Awake) \in Nat /\ Cardinality(Awake') \in Nat
  BY <1>0, AwakeFinite, LenProperties DEF QueueInv, TypeOK, Awake
<1>2. CASE ReaderParse \/ ReaderSpuriousWakeup \/ ReaderFill
  <2>1. UNCHANGED <<dataQ, freeQ, worker_pc>> /\ reader_pc' # "wait_free"
    BY <1>2 DEF ReaderParse, ReaderSpuriousWakeup, ReaderFill, lists
  <2> QED
    BY <2>1, <1>0 DEF WakeupsSuffice, Sleeping, Awake
<1>3. CASE queue_pop_free
  <2>1. UNCHANGED <<dataQ, worker_pc>>
    BY <1>3 DEF queue_pop_free
  <2>2. reader_pc' = "wait_free" => free_queue = NULL /\ freeQ' = freeQ
    BY <1>3 DEF queue_pop_free
  <2>3. free_queue = NULL => freeQ = <<>>
    <3>1. freeQ # <<>> => freeQ[1] \in Blocks
      BY <1>0, TailFacts DEF QueueInv, TypeOK
    <3> QED
      BY <3>1, <1>0 DEF QueueInv, ListsIntact, Spells, Blocks, NULL
  <2> QED
    BY <2>1, <2>2, <2>3, <1>0 DEF WakeupsSuffice, Sleeping, Awake
<1>4. CASE queue_push_data
  <2>1. reader_pc' = "parse" /\ dataQ' = Append(dataQ, reader_block)
        /\ SignalData(worker_pc) /\ reader_block \in Blocks
    BY <1>0, <1>4 DEF queue_push_data, PushLinks, QueueInv, BlockInOnePlace,
                      TypeOK
  <2>2. Len(dataQ') = Len(dataQ) + 1
    BY <2>1, <1>1, AppendFacts
  <2>3. CASE Sleeping = {}
    <3>1. Sleeping' = {}
      BY <2>1, <2>3 DEF SignalData, Sleeping
    <3> QED
      BY <3>1, <2>1 DEF WakeupsSuffice
  <2>4. CASE Sleeping # {}
    <3>1. PICK t \in Sleeping : worker_pc' = [worker_pc EXCEPT ![t] = "pop_data"]
      BY <2>1, <2>4 DEF SignalData
    <3>2. /\ t \in Threads /\ worker_pc[t] # "pop_data"
          /\ worker_pc'[t] = "pop_data"
          /\ \A u \in Threads \ {t} :
                worker_pc'[u] = "pop_data" <=> worker_pc[u] = "pop_data"
      BY <3>1, <1>1 DEF Sleeping
    <3>3. Cardinality(Awake') = Cardinality(Awake) + 1
      BY <3>2, OneMoreAwake DEF Awake
    <3> QED
      BY <2>1, <2>2, <2>4, <3>3, <1>0, <1>1 DEF WakeupsSuffice
  <2> QED
    BY <2>3, <2>4
<1>5. ASSUME NEW t \in Threads, WorkerLoop(t) \/ WorkerSpuriousWakeup(t)
      PROVE  WakeupsSuffice'
  <2>1. /\ UNCHANGED <<dataQ, freeQ, reader_pc>>
        /\ worker_pc[t] \in {"loop", "wait_data"}
        /\ \E pc \in {"pop_data", "done"} :
              worker_pc' = [worker_pc EXCEPT ![t] = pc]
    BY <1>5 DEF WorkerLoop, WorkerSpuriousWakeup, lists, reader
  <2>2. PICK pc \in {"pop_data", "done"} : worker_pc' = [worker_pc EXCEPT ![t] = pc]
    BY <2>1
  <2>3. Sleeping' # {} => Sleeping # {}
    BY <2>1, <2>2, <1>1 DEF Sleeping
  <2>4. CASE pc = "done"
    <3>1. Awake' = Awake
      BY <2>1, <2>2, <2>4, <1>1 DEF Awake
    <3> QED
      BY <3>1, <2>1, <2>3, <1>0 DEF WakeupsSuffice
  <2>5. CASE pc = "pop_data"
    <3>1. Cardinality(Awake') = Cardinality(Awake) + 1
      <4>1. /\ worker_pc[t] # "pop_data" /\ worker_pc'[t] = "pop_data"
            /\ \A u \in Threads \ {t} :
                  worker_pc'[u] = "pop_data" <=> worker_pc[u] = "pop_data"
        BY <2>1, <2>2, <2>5, <1>1
      <4> QED
        BY <4>1, OneMoreAwake DEF Awake
    <3> QED
      BY <3>1, <2>1, <2>3, <1>0, <1>1 DEF WakeupsSuffice
  <2> QED
    BY <2>2, <2>4, <2>5
<1>6. ASSUME NEW t \in Threads, queue_pop_data(t) PROVE WakeupsSuffice'
  <2>1. UNCHANGED <<freeQ, reader_pc>> /\ worker_pc[t] = "pop_data"
    BY <1>6 DEF queue_pop_data, reader
  <2>2. CASE data_start_queue = NULL
    <3>1. dataQ' = dataQ
      BY <1>6, <2>2 DEF queue_pop_data
    <3>2. dataQ = <<>>
      <4>1. dataQ # <<>> => dataQ[1] \in Blocks
        BY <1>0, TailFacts DEF QueueInv, TypeOK
      <4> QED
        BY <4>1, <2>2, <1>0 DEF QueueInv, ListsIntact, Spells, Blocks, NULL
    <3>3. Len(dataQ') = 0
      BY <3>1, <3>2
    <3> QED
      BY <3>3, <2>1, <1>0, <1>1 DEF WakeupsSuffice
  <2>3. CASE data_start_queue # NULL
    <3>1. /\ worker_pc' = [worker_pc EXCEPT ![t] = "process"]
          /\ dataQ' = Tail(dataQ)
      BY <1>6, <2>3 DEF queue_pop_data
    <3>2. dataQ # <<>>
      BY <2>3, <1>0 DEF QueueInv, ListsIntact, Spells
    <3>3. Len(dataQ') = Len(dataQ) - 1
      BY <3>1, <3>2, <1>1, TailFacts
    <3>4. /\ worker_pc'[t] # "pop_data"
          /\ \A u \in Threads \ {t} :
                worker_pc[u] = "pop_data" <=> worker_pc'[u] = "pop_data"
      BY <3>1, <1>1
    <3>5. Cardinality(Awake) = Cardinality(Awake') + 1
      BY <3>4, <2>1, OneMoreAwake DEF Awake
    <3>6. Sleeping' # {} => Sleeping # {}
      BY <3>1, <1>1 DEF Sleeping
    <3> QED
      BY <3>3, <3>5, <3>6, <2>1, <1>0, <1>1 DEF WakeupsSuffice
  <2> QED
    BY <2>2, <2>3
<1>7. ASSUME NEW t \in Threads, queue_push_free(t) PROVE WakeupsSuffice'
  <2>1. /\ dataQ' = dataQ /\ reader_pc' # "wait_free"
        /\ worker_pc[t] = "process"
        /\ worker_pc' = [worker_pc EXCEPT ![t] = "loop"]
    BY <1>7 DEF queue_push_free, SignalFree
  <2>2. Awake' = Awake /\ Sleeping' = Sleeping
    BY <2>1, <1>1 DEF Awake, Sleeping
  <2> QED
    BY <2>1, <2>2, <1>0 DEF WakeupsSuffice
<1>8. ASSUME NEW size \in Slots, apply_config(size) PROVE WakeupsSuffice'
  <2>1. /\ UNCHANGED <<dataQ, freeQ, reader_pc>>
        /\ \A t \in Threads :
              \/ worker_pc'[t] = worker_pc[t]
              \/ worker_pc[t] = "unborn" /\ worker_pc'[t] = "loop"
    BY <1>8, <1>0, ApplyConfigFacts DEF QueueInv, lists, reader
  <2>2. Awake' = Awake /\ Sleeping' = Sleeping
    BY <2>1 DEF Awake, Sleeping
  <2> QED
    BY <2>1, <2>2, <1>0 DEF WakeupsSuffice
<1>9. CASE UNCHANGED vars
  <2>1. UNCHANGED <<dataQ, freeQ, reader_pc, worker_pc>>
    BY <1>9 DEF vars, lists, reader
  <2> QED
    BY <2>1, <1>0 DEF WakeupsSuffice, Awake, Sleeping
<1> QED
  BY <1>2, <1>3, <1>4, <1>5, <1>6, <1>7, <1>8, <1>9
     DEF Next, ReaderStep, WorkerStep

\* One pthread_cond_signal per pushed block never leaves a worker asleep that
\* is needed, and the reader never sleeps while a block is free.
THEOREM NoLostWakeup == Spec => []WakeupsSuffice
<1>1. Spec => []WakeInv
  BY WakeInit, WakeStep, PTL DEF Spec
<1> QED
  BY <1>1, PTL DEF WakeInv

-----------------------------------------------------------------------------
(* Refinement.  Every step of the queue is a step of the channel or leaves *)
(* it alone.                                                               *)

chanQ == [i \in 1..Len(dataQ) |-> data[dataQ[i]]]
handQ == [t \in Threads |-> IF worker_pc[t] = "process"
                            THEN <<data[worker_block[t]]>> ELSE <<>>]
writingQ == reader_pc \in {"fill", "push_data"}

\* queue_init's state is an empty channel with every slot free.
LEMMA ChannelInit == Init => Channel!Init
<1> SUFFICES ASSUME Init PROVE Channel!Init
  OBVIOUS
<1>1. chanQ = <<>>
  <2>1. Len(dataQ) = 0
    BY DEF Init
  <2> QED
    BY <2>1 DEF chanQ
<1>2. Len(freeQ) = N
  BY ConstantsAssumption DEF Init
<1>3. writingQ = FALSE /\ handQ = [t \in Threads |-> <<>>]
  BY DEF Init, writingQ, handQ
<1> QED
  BY <1>1, <1>2, <1>3 DEF Channel!Init, chanQ, handQ, writingQ

\* What the workers hold is unchanged by a step that keeps the blocks that are
\* being handled, and their contents.
LEMMA HandKept ==
    ASSUME QueueInv,
           \A t \in Threads :
              /\ worker_pc'[t] = "process" <=> worker_pc[t] = "process"
              /\ worker_pc[t] = "process" =>
                    worker_block'[t] = worker_block[t]
                    /\ data'[worker_block[t]] = data[worker_block[t]]
    PROVE  handQ' = handQ
BY DEF handQ

\* Every step of the queue is a step of the channel or leaves it alone.
LEMMA ChannelStep == QueueInv /\ QueueInv' /\ [Next]_vars
                        => [Channel!Next]_(Channel!vars)
<1> SUFFICES ASSUME QueueInv, QueueInv', [Next]_vars
             PROVE  \/ Channel!Next
                    \/ UNCHANGED <<chanQ, Len(freeQ), writingQ, handQ>>
  BY DEF Channel!vars, chanQ, handQ, writingQ
<1> DEFINE len == Len(freeQ)
<1>0. /\ worker_pc \in [Threads -> WorkerPC] /\ data \in [Blocks -> Contents]
      /\ dataQ \in Seq(Blocks) /\ Len(dataQ) \in Nat
      /\ freeQ \in Seq(Blocks) /\ len \in Nat
      /\ \A i \in 1..Len(dataQ) : dataQ[i] \in Blocks /\ Queued(dataQ[i])
  BY LenProperties, ElementOfSeq DEF QueueInv, TypeOK, Queued
<1>1. CASE ReaderParse \/ ReaderSpuriousWakeup
  <2>1. /\ reader_pc \in {"parse", "wait_free"} /\ reader_pc' = "pop_free"
        /\ UNCHANGED <<dataQ, freeQ, data, worker_pc, worker_block>>
    BY <1>1 DEF ReaderParse, ReaderSpuriousWakeup, lists
  <2> QED
    BY <2>1 DEF chanQ, handQ, writingQ
<1>2. CASE queue_pop_free
  <2>1. reader_pc = "pop_free"
        /\ UNCHANGED <<dataQ, data, worker_pc, worker_block>>
    BY <1>2 DEF queue_pop_free
  <2>2. UNCHANGED <<chanQ, handQ>>
    BY <2>1 DEF chanQ, handQ
  <2>3. CASE free_queue = NULL
    <3>1. reader_pc' = "wait_free" /\ freeQ' = freeQ
      BY <1>2, <2>3 DEF queue_pop_free
    <3> QED
      BY <3>1, <2>1, <2>2 DEF writingQ
  <2>4. CASE free_queue # NULL
    <3>1. reader_pc' = "fill" /\ freeQ' = Tail(freeQ)
      BY <1>2, <2>4 DEF queue_pop_free
    <3>2. freeQ # <<>>
      BY <2>4 DEF QueueInv, ListsIntact, Spells
    <3>3. len > 0 /\ Len(freeQ') = len - 1
      BY <3>1, <3>2, <1>0, TailFacts
    <3>4. Channel!TakeSlot
      BY <3>1, <3>3, <2>1, <2>2 DEF Channel!TakeSlot, chanQ, handQ
    <3> QED
      BY <3>4 DEF Channel!Next
  <2> QED
    BY <2>3, <2>4
<1>3. CASE ReaderFill
  <2>1. /\ reader_pc = "fill" /\ reader_pc' = "push_data"
        /\ UNCHANGED <<dataQ, freeQ, worker_pc, worker_block>>
    BY <1>3 DEF ReaderFill, lists
  <2>2. \A b \in Blocks : b # reader_block => data'[b] = data[b]
    BY <1>0, <1>3 DEF ReaderFill
  <2>3. \A i \in 1..Len(dataQ) : dataQ[i] # reader_block
    BY <2>1, <1>0 DEF QueueInv, BlockInOnePlace, ReaderHolds
  <2>4. chanQ' = chanQ
    BY <2>1, <2>2, <2>3, <1>0 DEF chanQ
  <2>5. \A t \in Threads : worker_pc[t] = "process" =>
           worker_block[t] \in Blocks /\ worker_block[t] # reader_block
    BY <2>1 DEF QueueInv, TypeOK, BlockInOnePlace, ReaderHolds, WorkerHolds
  <2>6. handQ' = handQ
    BY <2>1, <2>2, <2>5, HandKept
  <2> QED
    BY <2>1, <2>4, <2>6 DEF writingQ
<1>4. CASE queue_push_data
  <2>1. /\ reader_pc = "push_data" /\ reader_pc' = "parse"
        /\ dataQ' = Append(dataQ, reader_block)
        /\ UNCHANGED <<freeQ, data, worker_block>>
        /\ reader_block \in Blocks
    BY <1>4 DEF queue_push_data, PushLinks, QueueInv, BlockInOnePlace, TypeOK
  <2>2. \A t \in Threads : worker_pc'[t] = "process" <=> worker_pc[t] = "process"
    BY <1>4, SignalDataFacts DEF queue_push_data, QueueInv
  <2>3. handQ' = handQ
    BY <2>1, <2>2, HandKept
  <2>4. chanQ' = Append(chanQ, data[reader_block])
    <3>1. /\ Len(dataQ') = Len(dataQ) + 1
          /\ \A i \in 1..Len(dataQ) : dataQ'[i] = dataQ[i]
          /\ dataQ'[Len(dataQ) + 1] = reader_block
      BY <2>1, <1>0, AppendFacts
    <3>2. chanQ \in Seq(Contents) /\ Len(chanQ) = Len(dataQ)
      BY <1>0 DEF chanQ
    <3>3. data[reader_block] \in Contents
      BY <1>0, <2>1
    <3>4. chanQ' = [i \in 1..Len(dataQ) + 1 |-> data[dataQ'[i]]]
      BY <2>1, <3>1 DEF chanQ
    <3>5. Append(chanQ, data[reader_block])
            = [i \in 1..Len(dataQ) + 1 |->
                  IF i = Len(dataQ) + 1 THEN data[reader_block] ELSE chanQ[i]]
      BY <3>2, <3>3
    <3>6. \A i \in 1..Len(dataQ) + 1 :
             data[dataQ'[i]] = IF i = Len(dataQ) + 1
                               THEN data[reader_block] ELSE chanQ[i]
      <4> TAKE i \in 1..Len(dataQ) + 1
      <4>1. CASE i = Len(dataQ) + 1
        BY <4>1, <3>1
      <4>2. CASE i # Len(dataQ) + 1
        <5>1. i \in 1..Len(dataQ)
          BY <4>2, <1>0
        <5> QED
          BY <4>2, <5>1, <3>1 DEF chanQ
      <4> QED
        BY <4>1, <4>2
    <3> QED
      BY <3>4, <3>5, <3>6
  <2>5. PICK v \in Contents : v = data[reader_block]
    BY <1>0, <2>1
  <2>6. Channel!Put(v)
    BY <2>1, <2>3, <2>4, <2>5 DEF Channel!Put, chanQ, handQ
  <2> QED
    BY <2>6 DEF Channel!Next
<1>5. ASSUME NEW t \in Threads, WorkerLoop(t) \/ WorkerSpuriousWakeup(t)
      PROVE  UNCHANGED <<chanQ, Len(freeQ), writingQ, handQ>>
  <2>1. /\ UNCHANGED <<dataQ, freeQ, data, reader_pc, worker_block>>
        /\ worker_pc[t] \in {"loop", "wait_data"}
        /\ \E pc \in {"pop_data", "done"} :
              worker_pc' = [worker_pc EXCEPT ![t] = pc]
    BY <1>5 DEF WorkerLoop, WorkerSpuriousWakeup, lists, reader
  <2>2. \A u \in Threads : worker_pc'[u] = "process" <=> worker_pc[u] = "process"
    BY <2>1, <1>0
  <2>3. handQ' = handQ
    BY <2>1, <2>2, HandKept
  <2> QED
    BY <2>1, <2>3 DEF chanQ, writingQ
<1>6. ASSUME NEW t \in Threads, queue_pop_data(t)
      PROVE  \/ Channel!Next
             \/ UNCHANGED <<chanQ, Len(freeQ), writingQ, handQ>>
  <2>1. UNCHANGED <<freeQ, data, reader_pc>> /\ worker_pc[t] = "pop_data"
    BY <1>6 DEF queue_pop_data, reader
  <2>2. CASE data_start_queue = NULL
    <3>1. UNCHANGED <<dataQ, worker_block>>
          /\ worker_pc' = [worker_pc EXCEPT ![t] = "wait_data"]
      BY <1>6, <2>2 DEF queue_pop_data
    <3>2. handQ' = handQ
      BY <3>1, <2>1, <1>0, HandKept
    <3> QED
      BY <3>1, <3>2, <2>1 DEF chanQ, writingQ
  <2>3. CASE data_start_queue # NULL
    <3>1. /\ worker_pc' = [worker_pc EXCEPT ![t] = "process"]
          /\ worker_block' = [worker_block EXCEPT ![t] = data_start_queue]
          /\ dataQ' = Tail(dataQ)
      BY <1>6, <2>3 DEF queue_pop_data
    <3>2. dataQ # <<>> /\ data_start_queue = dataQ[1]
      BY <2>3 DEF QueueInv, ListsIntact, Spells
    <3>3. /\ Len(dataQ) >= 1
          /\ Len(dataQ') = Len(dataQ) - 1
          /\ \A i \in 1..Len(dataQ) - 1 : dataQ'[i] = dataQ[i + 1]
      BY <3>1, <3>2, <1>0, TailFacts
    <3>4. /\ chanQ \in Seq(Contents) /\ Len(chanQ) = Len(dataQ)
          /\ \A i \in 1..Len(dataQ) : chanQ[i] = data[dataQ[i]]
      BY <1>0 DEF chanQ
    <3>5. chanQ # <<>> /\ Head(chanQ) = data[data_start_queue]
      BY <3>2, <3>3, <3>4, EmptySeq
    <3>6. chanQ' = Tail(chanQ)
      <4>1. /\ Tail(chanQ) \in Seq(Contents)
            /\ Len(Tail(chanQ)) = Len(dataQ) - 1
            /\ \A i \in 1..Len(dataQ) - 1 : Tail(chanQ)[i] = chanQ[i + 1]
        BY <3>4, <3>5, TailFacts
      <4>2. /\ chanQ' \in Seq(Contents) /\ Len(chanQ') = Len(dataQ) - 1
            /\ \A i \in 1..Len(dataQ) - 1 : chanQ'[i] = data[dataQ'[i]]
        <5>1. dataQ' \in Seq(Blocks) /\ data' = data
          BY <2>1 DEF QueueInv, TypeOK
        <5>2. \A i \in 1..Len(dataQ') : data[dataQ'[i]] \in Contents
          BY <5>1, <1>0, ElementOfSeq
        <5>3. chanQ' = [i \in 1..Len(dataQ') |-> data[dataQ'[i]]]
          BY <5>1 DEF chanQ
        <5> QED
          BY <5>2, <5>3, <3>3, <1>0
      <4>3. \A i \in 1..Len(dataQ) - 1 : data[dataQ'[i]] = chanQ[i + 1]
        <5> TAKE i \in 1..Len(dataQ) - 1
        <5>1. i + 1 \in 1..Len(dataQ)
          BY <1>0
        <5> QED
          BY <5>1, <3>3, <3>4
      <4> QED
        BY <4>1, <4>2, <4>3, SeqEqual
    <3>7. handQ[t] = <<>>
          /\ handQ' = [handQ EXCEPT ![t] = <<Head(chanQ)>>]
      <4>1. handQ[t] = <<>>
        BY <2>1 DEF handQ
      <4>2. \A u \in Threads : handQ'[u] = IF u = t THEN <<Head(chanQ)>>
                                           ELSE handQ[u]
        <5> TAKE u \in Threads
        <5>1. worker_block \in [Threads -> Blocks \cup {NULL}]
          BY DEF QueueInv, TypeOK
        <5>2. CASE u = t
          BY <5>1, <5>2, <3>1, <3>5, <2>1, <1>0 DEF handQ
        <5>3. CASE u # t
          BY <5>1, <5>3, <3>1, <2>1, <1>0 DEF handQ
        <5> QED
          BY <5>2, <5>3
      <4> QED
        BY <4>1, <4>2 DEF handQ
    <3>8. Channel!Take(t)
      BY <3>5, <3>6, <3>7, <2>1 DEF Channel!Take, chanQ, handQ
    <3> QED
      BY <3>8 DEF Channel!Next
  <2> QED
    BY <2>2, <2>3
<1>7. ASSUME NEW t \in Threads, queue_push_free(t) PROVE Channel!Next
  <2>1. /\ UNCHANGED <<dataQ, data>>
        /\ worker_pc[t] = "process"
        /\ worker_pc' = [worker_pc EXCEPT ![t] = "loop"]
        /\ worker_block' = [worker_block EXCEPT ![t] = NULL]
        /\ freeQ' = <<worker_block[t]>> \o freeQ
        /\ worker_block[t] \in Blocks
    BY <1>7 DEF queue_push_free, QueueInv, BlockInOnePlace, TypeOK
  <2>2. writingQ' = writingQ /\ chanQ' = chanQ
    BY <1>7, <2>1 DEF queue_push_free, SignalFree, writingQ, chanQ
  <2>3. Len(freeQ') = len + 1
    BY <2>1, <1>0, ConsFacts
  <2>4. handQ[t] # <<>>
    BY <2>1 DEF handQ
  <2>5. handQ' = [handQ EXCEPT ![t] = <<>>]
    <3>1. \A u \in Threads : handQ'[u] = IF u = t THEN <<>> ELSE handQ[u]
      <4> TAKE u \in Threads
      <4>1. worker_block \in [Threads -> Blocks \cup {NULL}]
        BY DEF QueueInv, TypeOK
      <4>2. CASE u = t
        BY <4>2, <2>1, <1>0 DEF handQ
      <4>3. CASE u # t
        BY <4>1, <4>3, <2>1, <1>0 DEF handQ
      <4> QED
        BY <4>2, <4>3
    <3> QED
      BY <3>1 DEF handQ
  <2>6. Channel!GiveBack(t)
    BY <2>2, <2>3, <2>4, <2>5 DEF Channel!GiveBack, chanQ, handQ, writingQ
  <2> QED
    BY <2>6 DEF Channel!Next
<1>8. ASSUME NEW size \in Slots, apply_config(size)
      PROVE  UNCHANGED <<chanQ, Len(freeQ), writingQ, handQ>>
  <2>1. /\ UNCHANGED <<dataQ, freeQ, data, reader_pc, worker_block>>
        /\ \A t \in Threads : worker_pc'[t] = "process" <=> worker_pc[t] = "process"
    BY <1>8, ApplyConfigFacts DEF QueueInv, lists, reader
  <2>2. handQ' = handQ
    BY <2>1, HandKept
  <2> QED
    BY <2>1, <2>2 DEF chanQ, writingQ
<1>9. CASE UNCHANGED vars
  BY <1>9 DEF vars, lists, reader, chanQ, handQ, writingQ
<1> QED
  BY <1>1, <1>2, <1>3, <1>4, <1>5, <1>6, <1>7, <1>8, <1>9
     DEF Next, ReaderStep, WorkerStep

\* The stanza queue implements the bounded first-in first-out channel.
THEOREM QueueImplementsChannel == Spec => ImplementsChannel
<1>1. Init => Channel!Init
  BY ChannelInit
<1>2. QueueInv /\ QueueInv' /\ [Next]_vars => [Channel!Next]_(Channel!vars)
  BY ChannelStep
<1> QED
  BY <1>1, <1>2, InvAlways, PTL DEF Spec, ImplementsChannel, Channel!Spec

-----------------------------------------------------------------------------
(* The pool.  A thread leaves its slot only when the slot is off, and a    *)
(* reload that switches one on gives it a thread.                          *)

\* Steps that are no reload and let no worker go keep the slots staffed.
LEMMA StaffKept ==
    ASSUME TypeOK, SlotsStaffed, UNCHANGED pool,
           \A t \in Alive : t \in Alive' \/ ~enabled[slot[t]]
    PROVE  SlotsStaffed'
<1>1. UNCHANGED <<slot, enabled, pool_size>>
  BY DEF pool
<1>2. \A i \in 1..pool_size : i \in Slots /\ enabled[i]
  BY ConstantsAssumption DEF SlotsStaffed, TypeOK, Slots
<1>3. ASSUME NEW i \in 1..pool_size
      PROVE  \E t \in Alive' : slot[t] = i
  <2>1. PICK t \in Alive : slot[t] = i
    BY DEF SlotsStaffed
  <2>2. t \in Alive'
    BY <1>2, <2>1
  <2> QED
    BY <2>1, <2>2
<1> QED
  BY <1>1, <1>3 DEF SlotsStaffed

\* A reload: a slot that was on keeps its thread, one that was off gets one.
LEMMA StaffReload ==
    ASSUME TypeOK, SlotsStaffed, NEW size \in Slots, apply_config(size)
    PROVE  SlotsStaffed'
<1> DEFINE started == {i \in 1..size : ~enabled[i]}
<1>1. PICK thread \in [started -> Unborn] :
         /\ \A i, j \in started : thread[i] = thread[j] => i = j
         /\ worker_pc' = [t \in Threads |->
                             IF \E i \in started : thread[i] = t
                             THEN "loop" ELSE worker_pc[t]]
         /\ slot' = [t \in Threads |->
                        IF \E i \in started : thread[i] = t
                        THEN CHOOSE i \in started : thread[i] = t
                        ELSE slot[t]]
  BY DEF apply_config
<1>2. pool_size' = size /\ enabled' = [i \in Slots |-> i <= size]
  BY DEF apply_config
<1>3. size \in Nat /\ 1..size \subseteq Slots
  BY ConstantsAssumption DEF Slots
<1>4. ASSUME NEW i \in 1..size
      PROVE  \E t \in Alive' : slot'[t] = i
  <2>1. CASE ~enabled[i]
    <3>1. i \in started /\ thread[i] \in Unborn /\ thread[i] \in Threads
      BY <2>1, <1>1 DEF Unborn
    <3>2. worker_pc'[thread[i]] = "loop"
      BY <3>1, <1>1
    <3>3. slot'[thread[i]] = CHOOSE j \in started : thread[j] = thread[i]
      BY <3>1, <1>1
    <3>4. (CHOOSE j \in started : thread[j] = thread[i]) = i
      BY <3>1, <1>1
    <3> QED
      BY <3>1, <3>2, <3>3, <3>4 DEF Alive
  <2>2. CASE enabled[i]
    <3>1. i \in 1..pool_size
      BY <2>2, <1>3, ConstantsAssumption DEF SlotsStaffed, TypeOK, Slots
    <3>2. PICK t \in Alive : slot[t] = i
      BY <3>1 DEF SlotsStaffed
    <3>3. t \in Threads /\ worker_pc[t] # "unborn"
      BY <3>2 DEF Alive
    <3>4. \A j \in started : thread[j] # t
      BY <3>3, <1>1 DEF Unborn
    <3>5. worker_pc'[t] = worker_pc[t] /\ slot'[t] = slot[t]
      BY <3>3, <3>4, <1>1
    <3> QED
      BY <3>2, <3>3, <3>5 DEF Alive
  <2> QED
    BY <2>1, <2>2
<1>5. \A i \in Slots : enabled'[i] <=> i <= pool_size'
  BY <1>2
<1> QED
  BY <1>2, <1>4, <1>5 DEF SlotsStaffed

\* The workers' own steps: only WorkerLoop lets one go.
LEMMA StaffWorker ==
    ASSUME TypeOK, SlotsStaffed, NEW t \in Threads,
           WorkerStep(t) \/ WorkerSpuriousWakeup(t)
    PROVE  SlotsStaffed'
<1>1. UNCHANGED pool
  BY DEF WorkerStep, WorkerLoop, queue_pop_data, queue_push_free,
         WorkerSpuriousWakeup
<1>2. \A u \in Threads : u # t => worker_pc'[u] = worker_pc[u]
  BY DEF WorkerStep, WorkerLoop, queue_pop_data, queue_push_free,
         WorkerSpuriousWakeup, TypeOK
<1>3. worker_pc'[t] \notin {"unborn", "done"} \/ ~enabled[slot[t]]
  BY DEF WorkerStep, WorkerLoop, queue_pop_data, queue_push_free,
         WorkerSpuriousWakeup, TypeOK
<1>4. \A u \in Alive : u \in Alive' \/ ~enabled[slot[u]]
  BY <1>2, <1>3 DEF Alive
<1> QED
  BY <1>1, <1>4, StaffKept

\* The reader's steps: at most a sleeper is woken.
LEMMA StaffReader ==
    ASSUME TypeOK, SlotsStaffed,
           ReaderParse \/ ReaderStep \/ ReaderSpuriousWakeup
    PROVE  SlotsStaffed'
<1>1. UNCHANGED pool
  BY DEF ReaderParse, ReaderStep, ReaderSpuriousWakeup, queue_pop_free,
         ReaderFill, queue_push_data
<1>2. UNCHANGED worker_pc \/ SignalData(worker_pc)
  BY DEF ReaderParse, ReaderStep, ReaderSpuriousWakeup, queue_pop_free,
         ReaderFill, queue_push_data
<1>3. \A t \in Threads : \/ worker_pc'[t] = worker_pc[t]
                         \/ worker_pc'[t] = "pop_data"
  BY <1>2, SignalDataFacts
<1>4. \A t \in Alive : t \in Alive'
  BY <1>3 DEF Alive
<1> QED
  BY <1>1, <1>4, StaffKept

\* Every slot that is switched on has a worker, for any number of slots and
\* threads and any sequence of reloads (mukite.c:86-96).
THEOREM SlotsAlwaysStaffed == Spec => []SlotsStaffed
<1>1. Init => SlotsStaffed
  BY ConstantsAssumption DEF Init, SlotsStaffed, Slots
<1>2. TypeOK /\ SlotsStaffed /\ [Next]_vars => SlotsStaffed'
  <2> SUFFICES ASSUME TypeOK, SlotsStaffed, [Next]_vars PROVE SlotsStaffed'
    OBVIOUS
  <2>1. CASE UNCHANGED vars
    BY <2>1 DEF vars, pool, SlotsStaffed, Alive
  <2>2. CASE \E size \in Slots : apply_config(size)
    BY <2>2, StaffReload
  <2>3. CASE \E t \in Threads : WorkerStep(t) \/ WorkerSpuriousWakeup(t)
    BY <2>3, StaffWorker
  <2>4. CASE ReaderParse \/ ReaderStep \/ ReaderSpuriousWakeup
    BY <2>4, StaffReader
  <2> QED
    BY <2>1, <2>2, <2>3, <2>4 DEF Next
<1> QED
  BY <1>1, <1>2, TypeCorrect, PTL DEF Spec
=============================================================================
