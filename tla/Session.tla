------------------------------ MODULE Session ------------------------------
(***************************************************************************)
(* A session and its end (src/mukite.c): main connects, starts the writer  *)
(* and the reader, joins them and connects again, until a signal tells it  *)
(* to stop.  The workers outlive a session.                                *)
(*                                                                         *)
(* Signals are handled by main's thread: the others block all but the      *)
(* reader's SIGUSR2 (sighelper.c).  The queue and the ring buffer are      *)
(* reduced to counters, for StanzaQueue and RingBuffer have their details; *)
(* a stanza is answered by one write at most.  Worker threads are never    *)
(* switched off here.  Nothing needs a bound: there are finitely many      *)
(* states.                                                                 *)
(***************************************************************************)
EXTENDS Integers, FiniteSets

CONSTANTS
    Workers,
    Blocks,     \* the blocks of the queue
    Space       \* the answers the ring buffer holds

ASSUME SessionAssumption ==
    /\ IsFiniteSet(Workers) /\ Workers # {}
    /\ Blocks \in Nat \ {0} /\ Space \in Nat \ {0}

VARIABLES
    main,           \* what main does next, or the call it is in
    handler,        \* main's thread is in terminate() and about to kill
    running,
    delay,          \* reconnect_delay
    peer,           \* the connection: none, up, closed by the server, reset,
                    \* or broken: reset, and some call has returned the error
    connected,      \* socket.connected
    enabled,        \* reader_thread.enabled
    reader, writer, \* threads: none, ended, or what they do next
    worker,
    input,          \* complete stanzas in the network buffer
    free, queued,   \* blocks in the queue's two lists
    ring, online,   \* answers in the ring buffer, and its flag
    armed,          \* the process has its handler of SIGUSR2
    stale,          \* history: has a reader ended and left its flag up?
    lost,           \* history: did the last SIGTERM miss its mark?
    late            \* history: was the writer signalled before its wait?

signals == <<handler, running, armed, stale, lost, late>>
network == <<peer, connected>>
queue == <<input, free, queued>>
ringbuffer == <<ring, online>>
vars == <<main, signals, delay, network, enabled, reader, writer, worker,
          queue, ringbuffer>>

Init ==
    /\ main = "top" /\ handler = "idle" /\ running = TRUE /\ delay = 1
    /\ peer = "none" /\ connected = FALSE
    /\ enabled = FALSE /\ reader = "none" /\ writer = "none"
    /\ worker = [w \in Workers |-> "none"]
    /\ input = 0 /\ free = Blocks /\ queued = 0
    /\ ring = 0 /\ online = TRUE
    /\ armed = FALSE /\ stale = FALSE /\ lost = FALSE /\ late = FALSE

Over == main \in {"done", "killed"}
MainAt(pc) == main = pc /\ handler = "idle"

---------------------------------------------------------------------------
(* main: connecting.                                                       *)

Top ==
    /\ MainAt("top")
    /\ main' = IF running THEN "dial" ELSE "done"
    /\ UNCHANGED <<signals, delay, network, enabled, reader, writer, worker,
                   queue, ringbuffer>>

Dial ==
    /\ MainAt("dial")
    /\ main' = "connect"
    /\ UNCHANGED <<signals, delay, network, enabled, reader, writer, worker,
                   queue, ringbuffer>>

\* net_connect returns.
Connect ==
    /\ MainAt("connect")
    /\ \/ peer' = "up" /\ connected' = TRUE /\ main' = "ask"
       \/ peer' = "none" /\ connected' = FALSE /\ main' = "sleep"
    /\ UNCHANGED <<signals, delay, enabled, reader, writer, worker, queue,
                   ringbuffer>>

\* net_stream and authorize send something and wait for the answer.
Ask ==
    /\ MainAt("ask")
    /\ main' = "answer"
    /\ UNCHANGED <<signals, delay, network, enabled, reader, writer, worker,
                   queue, ringbuffer>>

\* The server answers: it wants more, is satisfied, or sends something else,
\* after which main disconnects.
Answer ==
    /\ MainAt("answer") /\ peer = "up"
    /\ \/ main' \in {"ask", "apply"} /\ UNCHANGED network
       \/ main' = "sleep" /\ peer' = "none" /\ connected' = FALSE
    /\ UNCHANGED <<signals, delay, enabled, reader, writer, worker, queue,
                   ringbuffer>>

\* The connection ends during the handshake.
AnswerFails ==
    /\ MainAt("answer") /\ peer # "up"
    /\ main' = "sleep" /\ peer' = "none" /\ connected' = FALSE
    /\ UNCHANGED <<signals, delay, enabled, reader, writer, worker, queue,
                   ringbuffer>>

\* The retry delay is over.
Sleep ==
    /\ MainAt("sleep")
    /\ delay' = IF delay < 60 THEN 2 * delay ELSE delay
    /\ main' = "top"
    /\ UNCHANGED <<signals, network, enabled, reader, writer, worker, queue,
                   ringbuffer>>

---------------------------------------------------------------------------
(* main: a session.                                                        *)

Started == [w \in Workers |-> IF worker[w] = "none" THEN "idle" ELSE worker[w]]

\* apply_config starts the workers.
Apply ==
    /\ MainAt("apply")
    /\ delay' = 1
    /\ worker' = Started
    /\ main' = "writer"
    /\ UNCHANGED <<signals, network, enabled, reader, writer, queue, ringbuffer>>

CreateWriter ==
    /\ MainAt("writer")
    /\ writer' = "look"
    /\ main' = "enable"
    /\ UNCHANGED <<signals, delay, network, enabled, reader, worker, queue,
                   ringbuffer>>

EnableReader ==
    /\ MainAt("enable")
    /\ enabled' = TRUE /\ stale' = FALSE
    /\ main' = "create"
    /\ UNCHANGED <<handler, running, armed, lost, late, delay, network, reader,
                   writer, worker, queue, ringbuffer>>

CreateReader ==
    /\ MainAt("create")
    /\ reader' = "start"
    /\ input' = 0
    /\ main' = "joinReader"
    /\ UNCHANGED <<signals, delay, network, enabled, writer, worker, free, queued,
                   ringbuffer>>

JoinReader ==
    /\ MainAt("joinReader")
    /\ reader = "ended"
    /\ reader' = "none"
    /\ main' = "offline"
    /\ UNCHANGED <<signals, delay, network, enabled, writer, worker, queue,
                   ringbuffer>>

\* ringbuffer_offline stores the flag and then signals.
Offline ==
    /\ MainAt("offline")
    /\ online' = FALSE
    /\ main' = "signal"
    /\ UNCHANGED <<signals, delay, network, enabled, reader, writer, worker,
                   queue, ring>>

WakeWriter == writer' = IF writer = "wait" THEN "look" ELSE writer

SignalMutant ==
    /\ MainAt("signal")
    /\ main' = "joinWriter"
    /\ UNCHANGED <<signals, delay, network, enabled, reader, writer, worker,
                   queue, ringbuffer>>

Signal ==
    /\ MainAt("signal")
    /\ WakeWriter
    /\ late' = (writer = "doze")
    /\ main' = "joinWriter"
    /\ UNCHANGED <<handler, running, armed, stale, lost, delay, network, enabled,
                   reader, worker, queue, ringbuffer>>

JoinWriter ==
    /\ MainAt("joinWriter")
    /\ writer = "ended"
    /\ writer' = "none"
    /\ main' = "clear"
    /\ UNCHANGED <<signals, delay, network, enabled, reader, worker, queue,
                   ringbuffer>>

\* ringbuffer_clear wakes nobody.
Clear ==
    /\ MainAt("clear")
    /\ ring' = 0 /\ online' = TRUE
    /\ main' = "unstream"
    /\ UNCHANGED <<signals, delay, network, enabled, reader, writer, worker,
                   queue>>

\* net_unstream and net_disconnect.  A send on a broken connection raises
\* SIGPIPE, which main's thread neither blocks nor handles.
Unstream ==
    /\ MainAt("unstream")
    /\ main' = IF connected /\ peer = "broken" THEN "killed" ELSE "top"
    /\ peer' = "none" /\ connected' = FALSE
    /\ UNCHANGED <<signals, delay, enabled, reader, writer, worker, queue,
                   ringbuffer>>

MainStep ==
    \/ Top \/ Dial \/ Connect \/ Ask \/ AnswerFails \/ Sleep
    \/ Apply \/ CreateWriter \/ EnableReader \/ CreateReader \/ JoinReader
    \/ Offline \/ Signal \/ JoinWriter \/ Clear \/ Unstream

---------------------------------------------------------------------------
(* Signals.  A handler that returns makes main's connect() or recv() fail, *)
(* and cuts its sleep short.                                               *)

Interrupted ==
    CASE main = "connect" -> main' = "sleep" /\ UNCHANGED <<delay, network>>
      [] main = "answer" ->
            /\ main' = "sleep" /\ peer' = "none" /\ connected' = FALSE
            /\ UNCHANGED delay
      [] main = "sleep" ->
            /\ main' = "top" /\ delay' = IF delay < 60 THEN 2 * delay ELSE delay
            /\ UNCHANGED network
      [] OTHER -> UNCHANGED <<main, delay, network>>

\* SIGHUP and SIGUSR1: apply_config also starts the workers.
Reload ==
    /\ ~Over /\ handler = "idle"
    /\ worker' \in {worker, Started}
    /\ Interrupted
    /\ UNCHANGED <<signals, enabled, reader, writer, queue, ringbuffer>>

\* main has seen running for the last time before a session, or is about to
\* wait for an answer: nothing makes it look again.
MainMisses == main \in {"dial", "ask", "apply", "writer", "enable"}

\* terminate, while the flag says that there is no reader to stop.
TerminateMain ==
    /\ ~Over /\ handler = "idle"
    /\ ~enabled
    /\ running' = FALSE
    /\ lost' = (lost \/ MainMisses)
    /\ Interrupted
    /\ UNCHANGED <<handler, armed, stale, late, enabled, reader, writer, worker,
                   queue, ringbuffer>>

TerminateReaderMutant ==
    /\ ~Over /\ handler = "idle"
    /\ enabled
    /\ running' = FALSE
    /\ handler' = "kill"
    /\ UNCHANGED <<main, delay, network, enabled, reader, writer, worker,
                   queue, ringbuffer, armed, stale, lost, late>>

\* terminate, up to its pthread_kill.
TerminateReader ==
    /\ ~Over /\ handler = "idle"
    /\ enabled
    /\ running' = FALSE
    /\ enabled' = FALSE
    /\ handler' = "kill"
    /\ UNCHANGED <<main, delay, network, reader, writer, worker, queue,
                   ringbuffer, armed, stale, lost, late>>

\* What SIGUSR2 may do but interrupt: it ends the process before the first
\* reader has installed its handler; and without a reader the thread that is
\* named is no thread at all, of which anything may come.
KillEnds == reader = "start" /\ ~armed
KillMayEnd == KillEnds \/ reader = "none"

\* pthread_kill, and the return from the handler to main.  Of the reader's calls
\* only a recv() is interrupted.
Kill ==
    /\ handler = "kill"
    /\ handler' = "idle"
    /\ reader' = IF reader = "blocked" THEN "test" ELSE reader
    /\ lost' = IF reader = "none" THEN lost \/ MainMisses
                                  ELSE reader \in {"scan", "pop", "recv"}
    /\ \/ KillMayEnd /\ main' = "killed" /\ UNCHANGED <<delay, network>>
       \/ ~KillEnds /\ Interrupted
    /\ UNCHANGED <<running, armed, stale, late, enabled, writer, worker, queue,
                   ringbuffer>>

---------------------------------------------------------------------------
(* The server.                                                             *)

PeerEnds ==
    /\ peer = "up"
    /\ peer' \in {"closed", "reset"}
    /\ UNCHANGED <<main, signals, delay, connected, enabled, reader, writer,
                   worker, queue, ringbuffer>>

\* recv() returns data, with a complete stanza or without one.
ServerSends ==
    /\ reader = "blocked" /\ peer = "up"
    /\ input' \in {0, 1}
    /\ reader' = "test"
    /\ UNCHANGED <<main, signals, delay, network, enabled, writer, worker, free,
                   queued, ringbuffer>>

---------------------------------------------------------------------------
(* The reader.                                                             *)

\* The handler of SIGUSR2 is installed and the network buffer allocated; without
\* memory the thread ends and leaves its flag as it is.
ReaderStart ==
    /\ reader = "start"
    /\ armed' = TRUE
    /\ \/ reader' = "test" /\ UNCHANGED stale
       \/ reader' = "ended" /\ stale' = enabled
    /\ UNCHANGED <<main, handler, running, lost, late, delay, network, enabled,
                   writer, worker, queue, ringbuffer>>

ReaderTest ==
    /\ reader = "test"
    /\ reader' = IF enabled THEN "scan" ELSE "end"
    /\ UNCHANGED <<main, signals, delay, network, enabled, writer, worker, queue,
                   ringbuffer>>

\* A stanza was found, or there is none; or the buffer cannot be enlarged.
ReaderScan ==
    /\ reader = "scan"
    /\ reader' \in IF input > 0 THEN {"pop"} ELSE {"recv", "end"}
    /\ UNCHANGED <<main, signals, delay, network, enabled, writer, worker, queue,
                   ringbuffer>>

\* queue_pop_free and queue_push_data.
ReaderPush ==
    /\ reader = "pop"
    /\ free > 0
    /\ free' = free - 1 /\ queued' = queued + 1
    /\ input' = input - 1
    /\ reader' = "scan"
    /\ UNCHANGED <<main, signals, delay, network, enabled, writer, worker,
                   ringbuffer>>

ReaderRecv ==
    /\ reader = "recv"
    /\ reader' = "blocked"
    /\ UNCHANGED <<main, signals, delay, network, enabled, writer, worker, queue,
                   ringbuffer>>

ReaderSeesEndMutant ==
    /\ reader = "blocked" /\ peer # "up"
    /\ connected' = (connected /\ peer = "reset")
    /\ peer' = IF peer = "reset" THEN "broken" ELSE peer
    /\ reader' = "ended"
    /\ UNCHANGED <<main, signals, delay, enabled, writer, worker, queue,
                   ringbuffer>>

\* net_recv returns 0, or the error if no send has returned it before.
ReaderSeesEnd ==
    /\ reader = "blocked" /\ peer # "up"
    /\ connected' = (connected /\ peer = "reset")
    /\ peer' = IF peer = "reset" THEN "broken" ELSE peer
    /\ reader' = "end"
    /\ UNCHANGED <<main, signals, delay, enabled, writer, worker, queue,
                   ringbuffer>>

ReaderEnd ==
    /\ reader = "end"
    /\ enabled' = FALSE
    /\ reader' = "ended"
    /\ UNCHANGED <<main, signals, delay, network, writer, worker, queue,
                   ringbuffer>>

ReaderStep ==
    \/ ReaderStart \/ ReaderTest \/ ReaderScan \/ ReaderPush \/ ReaderRecv
    \/ ReaderSeesEnd \/ ReaderEnd

---------------------------------------------------------------------------
(* The writer: ringbuffer_get_chunk, net_send, ringbuffer_release_chunk.   *)

WriterLook ==
    /\ writer = "look"
    /\ writer' = IF ring > 0 THEN "send" ELSE "check"
    /\ UNCHANGED <<main, signals, delay, network, enabled, reader, worker, queue,
                   ringbuffer>>

WriterCheck ==
    /\ writer = "check"
    /\ writer' = IF online THEN "doze" ELSE "ended"
    /\ UNCHANGED <<main, signals, delay, network, enabled, reader, worker, queue,
                   ringbuffer>>

\* pthread_cond_wait: nothing is looked at again.
WriterWait ==
    /\ writer = "doze"
    /\ writer' = "wait"
    /\ UNCHANGED <<main, signals, delay, network, enabled, reader, worker, queue,
                   ringbuffer>>

\* One of the workers that wait for space is woken, if there is one.
WakeWorker ==
    IF \E w \in Workers : worker[w] = "asleep"
    THEN \E w \in Workers :
            worker[w] = "asleep" /\ worker' = [worker EXCEPT ![w] = "write"]
    ELSE UNCHANGED worker

\* An answer is sent, the send fails, or the reader has seen the end.  Each is
\* released, if only as -1 or 0 bytes.
WriterSend ==
    /\ writer = "send"
    /\ IF connected /\ peer \in {"up", "closed"}
       THEN writer' = "look" /\ ring' = ring - 1 /\ UNCHANGED peer
       ELSE /\ writer' = "ended" /\ ring' = ring
            /\ peer' = IF connected /\ peer = "reset" THEN "broken" ELSE peer
    /\ WakeWorker
    /\ UNCHANGED <<main, signals, delay, connected, enabled, reader, queue,
                   online>>

WriterStep == WriterLook \/ WriterCheck \/ WriterWait \/ WriterSend

---------------------------------------------------------------------------
(* The workers.                                                            *)

WorkerPop(w) ==
    /\ worker[w] = "idle"
    /\ queued > 0
    /\ queued' = queued - 1
    /\ worker' = [worker EXCEPT ![w] = "busy"]
    /\ UNCHANGED <<main, signals, delay, network, enabled, reader, writer, input,
                   free, ringbuffer>>

\* There is no answer, or one.
WorkerAnswer(w) ==
    /\ worker[w] = "busy"
    /\ \/ worker' = [worker EXCEPT ![w] = "idle"] /\ free' = free + 1
       \/ worker' = [worker EXCEPT ![w] = "write"] /\ free' = free
    /\ UNCHANGED <<main, signals, delay, network, enabled, reader, writer, input,
                   queued, ringbuffer>>

WorkerWriteMutant(w) ==
    /\ worker[w] = "write"
    /\ IF ring < Space
       THEN /\ ring' = ring + 1
            /\ WakeWriter
            /\ worker' = [worker EXCEPT ![w] = "idle"] /\ free' = free
       ELSE /\ worker' = [worker EXCEPT ![w] = "asleep"]
            /\ UNCHANGED <<writer, free, ring>>
    /\ UNCHANGED <<main, signals, delay, network, enabled, reader, input, queued,
                   online>>

\* ringbuffer_write, and queue_push_free once it returns.
WorkerWrite(w) ==
    /\ worker[w] = "write"
    /\ IF ring < Space
       THEN /\ ring' = ring + 1
            /\ WakeWriter
            /\ worker' = [worker EXCEPT ![w] = "idle"] /\ free' = free + 1
       ELSE /\ worker' = [worker EXCEPT ![w] = "asleep"]
            /\ UNCHANGED <<writer, free, ring>>
    /\ UNCHANGED <<main, signals, delay, network, enabled, reader, input, queued,
                   online>>

WorkerStep(w) == WorkerPop(w) \/ WorkerAnswer(w) \/ WorkerWrite(w)

---------------------------------------------------------------------------
Next ==
    \/ MainStep \/ Answer
    \/ Reload \/ TerminateMain \/ TerminateReader \/ Kill
    \/ PeerEnds \/ ServerSends
    \/ ReaderStep \/ WriterStep
    \/ \E w \in Workers : WorkerStep(w)

Spec == Init /\ [][Next]_vars

\* Threads run, and what is sent is read.  Nothing makes the server answer,
\* send or close.
FairSpec ==
    /\ Spec
    /\ WF_vars(MainStep) /\ WF_vars(Kill) /\ WF_vars(ReaderStep)
    /\ WF_vars(WriterStep)
    /\ \A w \in Workers : WF_vars(WorkerStep(w))

---------------------------------------------------------------------------
(* Properties.                                                             *)

Holding == {w \in Workers : worker[w] \in {"busy", "write", "asleep"}}

\* The values, among them: the ring never holds more than fits, and the retry
\* delay stays below its limit.
Values ==
    /\ main \in {"top", "dial", "connect", "ask", "answer", "sleep", "apply",
                 "writer", "enable", "create", "joinReader", "offline",
                 "signal", "joinWriter", "clear", "unstream", "done", "killed"}
    /\ handler \in {"idle", "kill"}
    /\ delay \in {1, 2, 4, 8, 16, 32, 64}
    /\ peer \in {"none", "up", "closed", "reset", "broken"}
    /\ reader \in {"none", "start", "test", "scan", "pop", "recv", "blocked",
                   "end", "ended"}
    /\ writer \in {"none", "look", "check", "doze", "wait", "send", "ended"}
    /\ worker \in [Workers -> {"none", "idle", "busy", "write", "asleep"}]
    /\ input \in {0, 1} /\ ring \in 0..Space
    /\ free \in Nat /\ queued \in Nat

Flags ==
    /\ running \in BOOLEAN /\ connected \in BOOLEAN /\ enabled \in BOOLEAN
    /\ online \in BOOLEAN /\ armed \in BOOLEAN /\ stale \in BOOLEAN
    /\ lost \in BOOLEAN /\ late \in BOOLEAN

\* Every block is in one of the lists or with a worker.
BlocksKept == free + queued + Cardinality(Holding) = Blocks

\* The state is what its types say, and no block was lost or made.
TypeOK == Values /\ Flags /\ BlocksKept

\* terminate() signals a reader that was started and has not been joined, for
\* every interleaving with the reader's own ends, but for two cases: between
\* the store of the flag and pthread_create the flag promises a thread that is
\* not there yet; and a reader that got no memory for its buffer has left its
\* flag up (reader.c:92-95), until main raises it for the next.
KillHasTarget ==
    handler = "kill" => reader # "none" \/ main = "create" \/ stale

\* Nobody waits for the reader, which waits for a block: all workers wait for
\* space, which nobody makes.
Starving ==
    reader = "pop" /\ free = 0 /\ \A w \in Workers : worker[w] = "asleep"

\* The writer sleeps through its end: Offline and Signal fell between its look
\* at the flag and its wait.
Oversleeps == main = "joinWriter" /\ late /\ writer = "wait"

\* mukite.c:141: a SIGTERM ends the program, unless it fell where neither main
\* nor the reader looks at a flag again before a call that may last for ever.
Terminates ==
    (~running /\ handler = "idle" /\ ~lost) ~> (Over \/ []Oversleeps)

\* When the server has gone the session ends: its threads are joined.
SessionEnds ==
    (peer \in {"closed", "reset", "broken"})
        ~> (main \in {"top", "sleep"} \/ Over \/ []Oversleeps \/ []Starving)
===========================================================================
