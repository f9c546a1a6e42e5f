---------------------------- MODULE StanzaQueue ----------------------------
(***************************************************************************)
(* The stanza queue of xmcomp (queue.c) with the threads that use it: the  *)
(* reader, which fills a free block and queues it (reader.c), the workers, *)
(* which handle the queued blocks and free them (worker.c), and the        *)
(* configuration reload that resizes the pool of workers (mukite.c).       *)
(*                                                                         *)
(* The two lists are modelled as the code keeps them, with a next pointer  *)
(* in every block.  A critical section of queue.c is one action: it runs   *)
(* under its mutex and touches nothing that the other mutex protects.      *)
(* pthread_cond_wait is the pair of a step that goes to sleep and a later  *)
(* step from "pop" that locks the mutex again and re-tests the condition;  *)
(* pthread_cond_signal wakes one sleeper, whichever the scheduler prefers, *)
(* and a sleeper may also wake up for no reason.                           *)
(***************************************************************************)
EXTENDS Integers, Sequences, FiniteSets

CONSTANTS
    N,         \* reader.queue: the number of blocks queue_init allocates
    MaxSlots,  \* WORKERS_SIZE_LIMIT: worker slots
    Threads,   \* every worker thread that is ever created
    Stanzas,   \* stanzas the server may send
    Dropped    \* a block with data_size = 0: its stanza did not fit

ASSUME ConstantsAssumption ==
    /\ N \in Nat \ {0}
    /\ MaxSlots \in Nat \ {0}
    /\ IsFiniteSet(Threads)
    /\ Dropped \notin Stanzas

NULL == 0
Blocks == 1..N
Slots == 1..MaxSlots
Contents == Stanzas \cup {Dropped}

VARIABLES
    next,              \* StanzaEntry.next of every block
    data_start_queue,  \* first block with data
    data_end_queue,    \* last block with data
    free_queue,        \* first free block
    data,              \* buffer and data_size of every block
    reader_pc,
    reader_block,      \* current_stanza_entry of the reader
    worker_pc,
    worker_block,      \* stanza_entry of every worker
    slot,              \* the WorkerConfig a thread was started with
    enabled,           \* WorkerConfig.enabled of every slot
    pool_size,         \* worker_threads.size
    dataQ,             \* history: the queued blocks, oldest first
    freeQ              \* history: the free blocks, next one first

lists == <<next, data_start_queue, data_end_queue, free_queue, dataQ, freeQ>>
reader == <<reader_pc, reader_block>>
pool == <<slot, enabled, pool_size>>
vars == <<lists, data, reader, worker_pc, worker_block, pool>>

Sleeping == {t \in Threads : worker_pc[t] = "wait_data"}
Awake == {t \in Threads : worker_pc[t] = "pop_data"}
Unborn == {t \in Threads : worker_pc[t] = "unborn"}
Alive == {t \in Threads : worker_pc[t] \notin {"unborn", "done"}}
-----------------------------------------------------------------------------
\* queue_init links every new block in front of the list, so the block that
\* was allocated last is the first to be used.
Init ==
    /\ next = [b \in Blocks |-> b - 1]
    /\ free_queue = N
    /\ data_start_queue = NULL
    /\ data_end_queue = NULL
    /\ data = [b \in Blocks |-> Dropped]
    /\ reader_pc = "parse"
    /\ reader_block = NULL
    /\ worker_pc = [t \in Threads |-> "unborn"]
    /\ worker_block = [t \in Threads |-> NULL]
    /\ slot = [t \in Threads |-> 1]
    /\ enabled = [i \in Slots |-> FALSE]
    /\ pool_size = 0
    /\ dataQ = <<>>
    /\ freeQ = [i \in 1..N |-> N + 1 - i]

-----------------------------------------------------------------------------
(* pthread_cond_signal.  The waker changes the pc of one sleeper, if any.  *)

SignalData(pc) ==
    IF Sleeping = {}
    THEN worker_pc' = pc
    ELSE \E t \in Sleeping : worker_pc' = [pc EXCEPT ![t] = "pop_data"]

SignalFree ==
    reader_pc' = IF reader_pc = "wait_free" THEN "pop_free" ELSE reader_pc

-----------------------------------------------------------------------------
(* The reader.  It is created after the pool (mukite.c:204-214), so it     *)
(* never runs while there is no worker slot.                               *)

\* xmlfsm_skip_node found the end of a stanza: a block is needed for it.
ReaderParse ==
    /\ reader_pc = "parse"
    /\ pool_size > 0
    /\ reader_pc' = "pop_free"
    /\ UNCHANGED <<lists, data, reader_block, worker_pc, worker_block, pool>>

queue_pop_free ==
    /\ reader_pc = "pop_free"
    /\ \/ /\ free_queue = NULL
          /\ reader_pc' = "wait_free"
          /\ UNCHANGED <<reader_block, free_queue, freeQ>>
       \/ /\ free_queue # NULL
          /\ reader_block' = free_queue
          /\ free_queue' = next[free_queue]
          /\ freeQ' = Tail(freeQ)
          /\ reader_pc' = "fill"
    /\ UNCHANGED <<next, data_start_queue, data_end_queue, dataQ, data,
                   worker_pc, worker_block, pool>>

ReaderSpuriousWakeup ==
    /\ reader_pc = "wait_free"
    /\ reader_pc' = "pop_free"
    /\ UNCHANGED <<lists, data, reader_block, worker_pc, worker_block, pool>>

\* A reader that forgets the block of a stanza it dropped.
ReaderFillMutant ==
    /\ reader_pc = "fill"
    /\ \E v \in Contents :
          /\ data' = [data EXCEPT ![reader_block] = v]
          /\ reader_pc' = IF v = Dropped THEN "parse" ELSE "push_data"
          /\ reader_block' = IF v = Dropped THEN NULL ELSE reader_block
    /\ UNCHANGED <<lists, worker_pc, worker_block, pool>>

\* The stanza is copied into the block, or dropped when the block's buffer
\* is too small for it or could not be allocated.  The block is queued in
\* both cases.
ReaderFill ==
    /\ reader_pc = "fill"
    /\ \E v \in Contents : data' = [data EXCEPT ![reader_block] = v]
    /\ reader_pc' = "push_data"
    /\ UNCHANGED <<lists, reader_block, worker_pc, worker_block, pool>>

PushLinks(stanza) ==
    /\ next' = IF data_end_queue # NULL
               THEN [next EXCEPT ![stanza] = NULL, ![data_end_queue] = stanza]
               ELSE [next EXCEPT ![stanza] = NULL]
    /\ data_start_queue' = IF data_end_queue # NULL
                           THEN data_start_queue ELSE stanza
    /\ data_end_queue' = stanza
    /\ dataQ' = Append(dataQ, stanza)
    /\ UNCHANGED <<free_queue, freeQ>>

\* A producer that signals only when the queue was empty.
queue_push_dataMutant ==
    /\ reader_pc = "push_data"
    /\ PushLinks(reader_block)
    /\ IF data_start_queue = NULL THEN SignalData(worker_pc)
                                  ELSE UNCHANGED worker_pc
    /\ reader_pc' = "parse"
    /\ reader_block' = NULL
    /\ UNCHANGED <<data, worker_block, pool>>

queue_push_data ==
    /\ reader_pc = "push_data"
    /\ PushLinks(reader_block)
    /\ SignalData(worker_pc)
    /\ reader_pc' = "parse"
    /\ reader_block' = NULL
    /\ UNCHANGED <<data, worker_block, pool>>

-----------------------------------------------------------------------------
(* A worker thread.                                                        *)

WorkerLoop(t) ==
    /\ worker_pc[t] = "loop"
    /\ worker_pc' = [worker_pc EXCEPT
                       ![t] = IF enabled[slot[t]] THEN "pop_data" ELSE "done"]
    /\ UNCHANGED <<lists, data, reader, worker_block, pool>>

\* data_end_queue still names the block that was popped last.
queue_pop_dataMutant(t) ==
    /\ worker_pc[t] = "pop_data"
    /\ \/ /\ data_start_queue = NULL
          /\ worker_pc' = [worker_pc EXCEPT ![t] = "wait_data"]
          /\ UNCHANGED <<worker_block, data_start_queue, dataQ>>
       \/ /\ data_start_queue # NULL
          /\ worker_block' = [worker_block EXCEPT ![t] = data_start_queue]
          /\ data_start_queue' = next[data_start_queue]
          /\ dataQ' = Tail(dataQ)
          /\ worker_pc' = [worker_pc EXCEPT ![t] = "process"]
    /\ UNCHANGED <<next, data_end_queue, free_queue, freeQ, data, reader, pool>>

queue_pop_data(t) ==
    /\ worker_pc[t] = "pop_data"
    /\ \/ /\ data_start_queue = NULL
          /\ worker_pc' = [worker_pc EXCEPT ![t] = "wait_data"]
          /\ UNCHANGED <<worker_block, data_start_queue, data_end_queue, dataQ>>
       \/ /\ data_start_queue # NULL
          /\ worker_block' = [worker_block EXCEPT ![t] = data_start_queue]
          /\ data_start_queue' = next[data_start_queue]
          /\ data_end_queue' = IF data_end_queue = data_start_queue
                               THEN NULL ELSE data_end_queue
          /\ dataQ' = Tail(dataQ)
          /\ worker_pc' = [worker_pc EXCEPT ![t] = "process"]
    /\ UNCHANGED <<next, free_queue, freeQ, data, reader, pool>>

WorkerSpuriousWakeup(t) ==
    /\ worker_pc[t] = "wait_data"
    /\ worker_pc' = [worker_pc EXCEPT ![t] = "pop_data"]
    /\ UNCHANGED <<lists, data, reader, worker_block, pool>>

\* A worker that returns the block without waking the reader.
queue_push_freeMutant(t) ==
    /\ worker_pc[t] = "process"
    /\ next' = [next EXCEPT ![worker_block[t]] = free_queue]
    /\ free_queue' = worker_block[t]
    /\ freeQ' = <<worker_block[t]>> \o freeQ
    /\ worker_pc' = [worker_pc EXCEPT ![t] = "loop"]
    /\ worker_block' = [worker_block EXCEPT ![t] = NULL]
    /\ UNCHANGED <<data_start_queue, data_end_queue, dataQ, data, reader, pool>>

\* While its pc is "process" the worker reads its block, with no lock held,
\* and routes the stanza.  It then returns the block.
queue_push_free(t) ==
    /\ worker_pc[t] = "process"
    /\ next' = [next EXCEPT ![worker_block[t]] = free_queue]
    /\ free_queue' = worker_block[t]
    /\ freeQ' = <<worker_block[t]>> \o freeQ
    /\ SignalFree
    /\ worker_pc' = [worker_pc EXCEPT ![t] = "loop"]
    /\ worker_block' = [worker_block EXCEPT ![t] = NULL]
    /\ UNCHANGED <<data_start_queue, data_end_queue, dataQ, data, reader_block,
                   pool>>

-----------------------------------------------------------------------------
(* The pool of workers.  size is worker.threads of the configuration; its  *)
(* documented range starts at 1.  The slots that are switched on and have  *)
(* no enabled flag get a new thread each.  The number of threads that are  *)
(* ever created is bounded by the size of the set Threads.                 *)

\* Switching a slot on before asking whether it is off.
apply_configMutant(size) ==
    /\ pool_size' = size
    /\ enabled' = [i \in Slots |-> i <= size]
    /\ UNCHANGED <<lists, data, reader, worker_pc, worker_block, slot>>

apply_config(size) ==
    LET started == {i \in 1..size : ~enabled[i]} IN
    /\ pool_size' = size
    /\ enabled' = [i \in Slots |-> i <= size]
    /\ \E thread \in [started -> Unborn] :
          /\ \A i, j \in started : thread[i] = thread[j] => i = j
          /\ worker_pc' = [t \in Threads |->
                              IF \E i \in started : thread[i] = t
                              THEN "loop" ELSE worker_pc[t]]
          /\ slot' = [t \in Threads |->
                         IF \E i \in started : thread[i] = t
                         THEN CHOOSE i \in started : thread[i] = t
                         ELSE slot[t]]
    /\ UNCHANGED <<lists, data, reader, worker_block>>

-----------------------------------------------------------------------------
WorkerStep(t) ==
    \/ WorkerLoop(t)
    \/ queue_pop_data(t)
    \/ queue_push_free(t)

ReaderStep ==
    \/ queue_pop_free
    \/ ReaderFill
    \/ queue_push_data

Next ==
    \/ ReaderParse
    \/ ReaderStep
    \/ ReaderSpuriousWakeup
    \/ \E t \in Threads : WorkerStep(t) \/ WorkerSpuriousWakeup(t)
    \/ \E size \in Slots : apply_config(size)

Spec == Init /\ [][Next]_vars

\* Every thread that can run is eventually scheduled, and handling a stanza
\* ends.  Nothing makes the server send a stanza, the administrator reload
\* the configuration or a sleeping thread wake up without a signal.
Fairness ==
    /\ WF_vars(ReaderStep)
    /\ \A t \in Threads : WF_vars(WorkerStep(t))

FairSpec == Spec /\ Fairness
-----------------------------------------------------------------------------
(* Properties.                                                             *)

ReaderPC == {"parse", "pop_free", "wait_free", "fill", "push_data"}
WorkerPC == {"unborn", "loop", "pop_data", "wait_data", "process", "done"}

\* Every variable has its type.
TypeOK ==
    /\ next \in [Blocks -> Blocks \cup {NULL}]
    /\ data_start_queue \in Blocks \cup {NULL}
    /\ data_end_queue \in Blocks \cup {NULL}
    /\ free_queue \in Blocks \cup {NULL}
    /\ data \in [Blocks -> Contents]
    /\ reader_pc \in ReaderPC
    /\ reader_block \in Blocks \cup {NULL}
    /\ worker_pc \in [Threads -> WorkerPC]
    /\ worker_block \in [Threads -> Blocks \cup {NULL}]
    /\ slot \in [Threads -> Slots]
    /\ enabled \in [Slots -> BOOLEAN]
    /\ pool_size \in Slots \cup {0}
    /\ dataQ \in Seq(Blocks)
    /\ freeQ \in Seq(Blocks)

\* head and the next pointers spell the sequence q.
Spells(head, q) ==
    /\ q = <<>> => head = NULL
    /\ q # <<>> => head = q[1] /\ next[q[Len(q)]] = NULL
    /\ \A i \in 1..Len(q) - 1 : next[q[i]] = q[i + 1]

\* The pointers of queue.c never go wrong: both lists hold exactly the blocks
\* that were pushed and not yet popped, in the right order, and data_end_queue
\* is the last block with data, although pushes and pops of different threads
\* work on different ends of the lists under different mutexes.
ListsIntact ==
    /\ Spells(data_start_queue, dataQ)
    /\ Spells(free_queue, freeQ)
    /\ data_end_queue = IF dataQ = <<>> THEN NULL ELSE dataQ[Len(dataQ)]

ReaderHolds(b) == reader_pc \in {"fill", "push_data"} /\ reader_block = b
WorkerHolds(t, b) == worker_pc[t] = "process" /\ worker_block[t] = b
Queued(b) == \E i \in 1..Len(dataQ) : dataQ[i] = b
Free(b) == \E i \in 1..Len(freeQ) : freeQ[i] = b

\* No block is in a list twice.
NoRepeats ==
    /\ \A i, j \in 1..Len(dataQ) : dataQ[i] = dataQ[j] => i = j
    /\ \A i, j \in 1..Len(freeQ) : freeQ[i] = freeQ[j] => i = j

\* Every block is in exactly one place: free, queued, with the reader or with
\* one worker.  So no block leaks, whatever happens to its stanza, and no
\* thread touches a block that another one uses.
BlockInOnePlace ==
    /\ reader_pc \in {"fill", "push_data"} => reader_block # NULL
    /\ \A t \in Threads : worker_pc[t] = "process" => worker_block[t] # NULL
    /\ NoRepeats
    /\ \A b \in Blocks :
          /\ Free(b) \/ Queued(b) \/ ReaderHolds(b)
                \/ \E t \in Threads : WorkerHolds(t, b)
          /\ ~(Free(b) /\ Queued(b))
          /\ ReaderHolds(b) => ~Free(b) /\ ~Queued(b)
          /\ \A t \in Threads : WorkerHolds(t, b) =>
                /\ ~Free(b) /\ ~Queued(b) /\ ~ReaderHolds(b)
                /\ \A u \in Threads : WorkerHolds(u, b) => u = t

\* No thread can be handed a block that is not there, is in use or was lost.
QueueIntact == TypeOK /\ ListsIntact /\ BlockInOnePlace

\* No wake-up is lost: when a worker sleeps, there are at least as many workers
\* on their way into queue_pop_data as there are queued blocks, so that one
\* pthread_cond_signal per block suffices; the reader sleeps only while no
\* block is free.
WakeupsSuffice ==
    /\ Sleeping # {} => Len(dataQ) <= Cardinality(Awake)
    /\ reader_pc = "wait_free" => freeQ = <<>>

\* The stanza queue is the channel of StanzaChannel: first in first out,
\* nothing lost or duplicated, and what a worker handles is what the reader
\* put into the block, not what a later fill of a recycled block left there.
Channel == INSTANCE StanzaChannel WITH
    Capacity <- N,
    Values <- Contents,
    chan <- [i \in 1..Len(dataQ) |-> data[dataQ[i]]],
    free <- Len(freeQ),
    writing <- reader_pc \in {"fill", "push_data"},
    hand <- [t \in Threads |-> IF worker_pc[t] = "process"
                               THEN <<data[worker_block[t]]>> ELSE <<>>]

ImplementsChannel == Channel!Spec

\* A queued stanza is eventually handled and its block is free again, although
\* any worker may be switched off by a reload at any moment.
EveryStanzaHandled ==
    \A b \in Blocks : Queued(b) ~> Free(b)

\* The reader is never stuck for want of a block.
ReaderGetsBlock ==
    reader_pc = "pop_free" ~> reader_pc = "fill"

\* Blocks go round for ever, however few they are.
QueueMoves == EveryStanzaHandled /\ ReaderGetsBlock

\* Every slot that is switched on has a worker, however often the pool was
\* made smaller and larger.  (It may have two: a thread that did not look at
\* its flag while that was off goes on beside its successor.)
SlotsStaffed ==
    /\ \A i \in Slots : enabled[i] <=> i <= pool_size
    /\ \A i \in 1..pool_size : \E t \in Alive : slot[t] = i
=============================================================================
