--------------------------- MODULE SessionProofs ---------------------------
(***************************************************************************)
(* For any number of workers, blocks and answers: no block of the queue is *)
(* lost or freed twice however a session ends, the ring buffer does not    *)
(* overflow, and a SIGTERM is passed on to a thread that is there.         *)
(***************************************************************************)
EXTENDS Session, FiniteSetTheorems, TLAPS

\* What a thread has seen and acts upon next is still so: an answer to send, a
\* stanza to hand over.  main clears the ring buffer when the writer is gone.
SeenHolds ==
    /\ writer = "send" => ring > 0
    /\ main = "clear" => writer = "none"
    /\ reader = "pop" => input = 1

\* The flag of the reader is up only while there is a reader that has not
\* ended, or main is about to create it, or a reader has left it up; a handler
\* that is about to kill has taken it down, and main does not move meanwhile.
FlagHasReader ==
    /\ main \notin {"joinReader", "killed"} => reader = "none"
    /\ enabled = TRUE => reader \notin {"none", "ended"} \/ main = "create" \/ stale
    /\ handler = "kill" => enabled = FALSE

SessionInv == Values /\ Flags /\ BlocksKept /\ SeenHolds /\ FlagHasReader /\ KillHasTarget

---------------------------------------------------------------------------
\* The workers that hold a block are finitely many.
LEMMA HoldingFinite == IsFiniteSet(Holding) /\ Cardinality(Holding) \in Nat
  BY FS_Subset, FS_CardinalityType, SessionAssumption DEF Holding

\* A worker takes a block, or returns one.
LEMMA OneTakes ==
  ASSUME NEW w \in Workers, w \notin Holding, Holding' = Holding \cup {w}
  PROVE  Cardinality(Holding') = Cardinality(Holding) + 1
  BY HoldingFinite, FS_AddElement

\* A worker gives its block back.
LEMMA OneReturns ==
  ASSUME NEW w \in Workers, w \in Holding, Holding' = Holding \ {w}
  PROVE  Cardinality(Holding') = Cardinality(Holding) - 1
  BY HoldingFinite, FS_RemoveElement

---------------------------------------------------------------------------
\* Before the first connection nothing is held.
LEMMA SessionInit == Init => SessionInv
<1> SUFFICES ASSUME Init PROVE SessionInv
  OBVIOUS
<1>1. Holding = {}
  BY DEF Init, Holding
<1>2. BlocksKept
  BY <1>1, FS_EmptySet, SessionAssumption DEF Init, BlocksKept
<1>3. Values
  BY SessionAssumption DEF Init, Values
<1>4. Flags
  BY DEF Init, Flags
<1> QED
  BY <1>2, <1>3, <1>4 DEF Init, SessionInv, SeenHolds, FlagHasReader, KillHasTarget

\* A handler sends main back to where it dials, and nowhere else.
LEMMA InterruptedMain ==
  ASSUME Values, Interrupted
  PROVE  /\ main' \in {main, "sleep", "top"}
         /\ main \in {"create", "joinReader", "killed"} => main' = main
         /\ delay' \in {1, 2, 4, 8, 16, 32, 64}
         /\ peer' \in {"none", "up", "closed", "reset", "broken"}
<1>1. CASE main = "connect" \/ main = "answer"
  BY <1>1 DEF Values, Interrupted, network
<1>2. CASE main = "sleep"
  BY <1>2 DEF Values, Interrupted, network
<1>3. CASE main \notin {"connect", "answer", "sleep"}
  BY <1>3 DEF Values, Interrupted, network
<1> QED
  BY <1>1, <1>2, <1>3

---------------------------------------------------------------------------
\* Types.  What is subtracted from was seen to be positive.
LEMMA ValuesKept ==
  ASSUME Values, SeenHolds, [Next]_vars
  PROVE  Values'
<1> USE DEF MainAt, signals, network, queue, ringbuffer
<1>1. CASE Top \/ Dial
  BY <1>1 DEF Top, Dial, Values
<1>2. CASE Connect
  BY <1>2 DEF Connect, Values
<1>3. CASE Ask \/ Answer \/ AnswerFails
  BY <1>3 DEF Ask, Answer, AnswerFails, Values
<1>4. CASE Sleep
  BY <1>4 DEF Sleep, Values
<1>5. CASE Apply
  BY <1>5 DEF Apply, Started, Values
<1>6. CASE CreateWriter \/ EnableReader
  BY <1>6 DEF CreateWriter, EnableReader, Values
<1>7. CASE CreateReader
  BY <1>7 DEF CreateReader, Values
<1>8. CASE JoinReader \/ Offline
  BY <1>8 DEF JoinReader, Offline, Values
<1>9. CASE Signal
  BY <1>9 DEF Signal, WakeWriter, Values
<1>10. CASE JoinWriter \/ Unstream
  BY <1>10 DEF JoinWriter, Unstream, Values
<1>11. CASE Clear
  BY <1>11, SessionAssumption DEF Clear, Values
<1>12. CASE Reload
  <2>1. worker' \in [Workers -> {"none", "idle", "busy", "write", "asleep"}]
    BY <1>12 DEF Reload, Started, Values
  <2>2. Interrupted
    BY <1>12 DEF Reload
  <2> QED
    BY <1>12, <2>1, <2>2, InterruptedMain DEF Reload, Values
<1>13. CASE TerminateMain
  <2>1. Interrupted
    BY <1>13 DEF TerminateMain
  <2> QED
    BY <1>13, <2>1, InterruptedMain DEF TerminateMain, Values
<1>14. CASE TerminateReader
  BY <1>14 DEF TerminateReader, Values
<1>15. CASE Kill
  <2>1. (main' = "killed" /\ UNCHANGED <<delay, peer>>) \/ Interrupted
    BY <1>15 DEF Kill
  <2>2. handler' = "idle" /\ reader' \in {reader, "test"}
        /\ UNCHANGED <<worker, writer, input, ring, free, queued>>
    BY <1>15 DEF Kill
  <2> QED
    BY <2>1, <2>2, InterruptedMain DEF Values
<1>16. CASE PeerEnds \/ ServerSends
  BY <1>16 DEF PeerEnds, ServerSends, Values
<1>17. CASE ReaderStart \/ ReaderTest \/ ReaderScan \/ ReaderRecv \/ ReaderEnd
  BY <1>17 DEF ReaderStart, ReaderTest, ReaderScan, ReaderRecv, ReaderEnd, Values
<1>18. CASE ReaderPush
  BY <1>18 DEF ReaderPush, Values, SeenHolds
<1>19. CASE ReaderSeesEnd
  BY <1>19 DEF ReaderSeesEnd, Values
<1>20. CASE WriterLook \/ WriterCheck \/ WriterWait
  BY <1>20 DEF WriterLook, WriterCheck, WriterWait, Values
<1>21. CASE WriterSend
  <2>1. worker' \in [Workers -> {"none", "idle", "busy", "write", "asleep"}]
    BY <1>21 DEF WriterSend, WakeWorker, Values
  <2> QED
    BY <1>21, <2>1, SessionAssumption DEF WriterSend, Values, SeenHolds
<1>22. ASSUME NEW w \in Workers, WorkerPop(w) \/ WorkerAnswer(w) PROVE Values'
  BY <1>22 DEF WorkerPop, WorkerAnswer, Values
<1>23. ASSUME NEW w \in Workers, WorkerWrite(w) PROVE Values'
  BY <1>23, SessionAssumption DEF WorkerWrite, WakeWriter, Values
<1>24. CASE UNCHANGED vars
  BY <1>24 DEF vars, Values
<1> QED
  BY <1>1, <1>2, <1>3, <1>4, <1>5, <1>6, <1>7, <1>8, <1>9, <1>10, <1>11, <1>12, <1>13, <1>14, <1>15, <1>16, <1>17, <1>18, <1>19, <1>20, <1>21, <1>22, <1>23, <1>24
     DEF Next, MainStep, ReaderStep, WriterStep, WorkerStep

\* Every step keeps what the flags say.
LEMMA FlagsKept ==
  ASSUME Flags, [Next]_vars
  PROVE  Flags'
<1> USE DEF Flags, signals, network, ringbuffer
<1>1. CASE Top \/ Dial \/ Ask \/ Sleep \/ Apply \/ CreateWriter \/ CreateReader \/ JoinReader
  BY <1>1 DEF Top, Dial, Ask, Sleep, Apply, CreateWriter, CreateReader, JoinReader
<1>2. CASE Connect \/ Answer \/ AnswerFails \/ Unstream
  BY <1>2 DEF Connect, Answer, AnswerFails, Unstream
<1>3. CASE EnableReader \/ Offline \/ Clear
  BY <1>3 DEF EnableReader, Offline, Clear
<1>4. CASE Signal
  BY <1>4 DEF Signal
<1>5. CASE JoinWriter \/ PeerEnds \/ ServerSends
  BY <1>5 DEF JoinWriter, PeerEnds, ServerSends
<1>6. CASE Reload
  BY <1>6 DEF Reload, Interrupted
<1>7. CASE TerminateMain
  BY <1>7 DEF TerminateMain, Interrupted
<1>8. CASE TerminateReader \/ Kill
  <2>1. CASE TerminateReader
    BY <2>1 DEF TerminateReader
  <2>2. CASE Kill
    <3>1. lost' \in BOOLEAN
      <4>1. lost' = IF reader = "none" THEN lost \/ MainMisses
                                       ELSE reader \in {"scan", "pop", "recv"}
        BY <2>2 DEF Kill
      <4>2. CASE reader = "none"
        BY <4>1, <4>2, Zenon DEF MainMisses
      <4>3. CASE reader # "none"
        BY <4>1, <4>3
      <4> QED
        BY <4>2, <4>3
    <3>2. UNCHANGED <<running, enabled, online, armed, stale, late>>
      BY <2>2 DEF Kill
    <3>3. connected' \in BOOLEAN
      BY <2>2 DEF Kill, Interrupted
    <3> QED
      BY <3>1, <3>2, <3>3
  <2> QED
    BY <1>8, <2>1, <2>2
<1>9. CASE ReaderStep
  BY <1>9 DEF ReaderStep, ReaderStart, ReaderTest, ReaderScan, ReaderPush, ReaderRecv,
     ReaderSeesEnd, ReaderEnd
<1>10. CASE WriterStep
  BY <1>10 DEF WriterStep, WriterLook, WriterCheck, WriterWait, WriterSend
<1>11. ASSUME NEW w \in Workers, WorkerStep(w) PROVE Flags'
  BY <1>11 DEF WorkerStep, WorkerPop, WorkerAnswer, WorkerWrite
<1>12. CASE UNCHANGED vars
  BY <1>12 DEF vars
<1> QED
  BY <1>1, <1>2, <1>3, <1>4, <1>5, <1>6, <1>7, <1>8, <1>9, <1>10, <1>11, <1>12
     DEF Next, MainStep

\* What was seen stays so until it is acted upon.
LEMMA SeenKept ==
  ASSUME Values, SeenHolds, [Next]_vars
  PROVE  SeenHolds'
<1> USE DEF MainAt, signals, network, queue, ringbuffer, SeenHolds
<1>1. CASE MainStep \/ Answer
  BY <1>1 DEF MainStep, Top, Dial, Connect, Ask, Answer, AnswerFails, Sleep, Apply,
     CreateWriter, EnableReader, CreateReader, JoinReader, Offline, Signal, WakeWriter,
     JoinWriter, Clear, Unstream
<1>2. CASE Reload \/ TerminateMain
  BY <1>2, InterruptedMain DEF Reload, TerminateMain
<1>3. CASE TerminateReader \/ PeerEnds \/ ServerSends
  BY <1>3 DEF TerminateReader, PeerEnds, ServerSends
<1>8. CASE Kill
  <2>1. main' = "killed" \/ Interrupted
    BY <1>8 DEF Kill
  <2>2. reader' \in {reader, "test"} /\ UNCHANGED <<writer, input, ring>>
    BY <1>8 DEF Kill
  <2> QED
    BY <2>1, <2>2, InterruptedMain
<1>4. CASE ReaderStep
  BY <1>4 DEF ReaderStep, ReaderStart, ReaderTest, ReaderScan, ReaderPush, ReaderRecv,
     ReaderSeesEnd, ReaderEnd, Values
<1>5. CASE WriterStep
  BY <1>5 DEF WriterStep, WriterLook, WriterCheck, WriterWait, WriterSend
<1>6. ASSUME NEW w \in Workers, WorkerStep(w) PROVE SeenHolds'
  BY <1>6 DEF WorkerStep, WorkerPop, WorkerAnswer, WorkerWrite, WakeWriter, Values
<1>7. CASE UNCHANGED vars
  BY <1>7 DEF vars
<1> QED
  BY <1>1, <1>2, <1>3, <1>4, <1>5, <1>6, <1>7, <1>8 DEF Next

\* The flag is raised before the reader is created, and is down before it can
\* be joined.
LEMMA FlagKept ==
  ASSUME Values, FlagHasReader, KillHasTarget, [Next]_vars
  PROVE  FlagHasReader' /\ KillHasTarget'
<1> USE DEF MainAt, signals, network, queue, ringbuffer, FlagHasReader, KillHasTarget
<1>1. CASE Top \/ Dial \/ Connect \/ Ask \/ Answer \/ AnswerFails \/ Sleep
  BY <1>1 DEF Top, Dial, Connect, Ask, Answer, AnswerFails, Sleep
<1>2. CASE Apply \/ CreateWriter \/ EnableReader \/ CreateReader \/ JoinReader
  BY <1>2 DEF Apply, CreateWriter, EnableReader, CreateReader, JoinReader
<1>3. CASE Offline \/ Signal \/ JoinWriter \/ Clear \/ Unstream
  BY <1>3 DEF Offline, Signal, JoinWriter, Clear, Unstream
<1>4. CASE Reload \/ TerminateMain
  BY <1>4, InterruptedMain DEF Reload, TerminateMain
<1>5. CASE TerminateReader
  BY <1>5 DEF TerminateReader
<1>9. CASE Kill
  <2>1. main' = "killed" \/ Interrupted
    BY <1>9 DEF Kill
  <2>2. handler = "kill" /\ handler' = "idle" /\ reader' = IF reader = "blocked" THEN "test" ELSE reader
    BY <1>9 DEF Kill
  <2>3. UNCHANGED <<enabled, stale>>
    BY <1>9, Zenon DEF Kill
  <2>4. enabled' # TRUE
    BY <2>2, <2>3
  <2>5. main' \notin {"joinReader", "killed"} => main \notin {"joinReader", "killed"}
    BY <2>1, InterruptedMain
  <2> QED
    BY <2>2, <2>4, <2>5
<1>6. CASE PeerEnds \/ ServerSends \/ WriterStep \/ UNCHANGED vars
  BY <1>6 DEF PeerEnds, ServerSends, WriterStep, WriterLook, WriterCheck, WriterWait,
     WriterSend, vars
<1>7. CASE ReaderStep
  BY <1>7 DEF ReaderStep, ReaderStart, ReaderTest, ReaderScan, ReaderPush, ReaderRecv,
     ReaderSeesEnd, ReaderEnd
<1>8. ASSUME NEW w \in Workers, WorkerStep(w) PROVE FlagHasReader' /\ KillHasTarget'
  BY <1>8 DEF WorkerStep, WorkerPop, WorkerAnswer, WorkerWrite
<1> QED
  BY <1>1, <1>2, <1>3, <1>4, <1>5, <1>6, <1>7, <1>8, <1>9 DEF Next, MainStep

\* A block changes hands one at a time.
LEMMA BlocksStep ==
  ASSUME Values, BlocksKept, [Next]_vars
  PROVE  BlocksKept'
<1> USE DEF MainAt, signals, network, queue, ringbuffer
<1>0. /\ worker \in [Workers -> {"none", "idle", "busy", "write", "asleep"}]
      /\ Cardinality(Holding) \in Nat /\ free \in Nat /\ queued \in Nat
  BY HoldingFinite DEF Values
<1>1. ASSUME Holding' = Holding, UNCHANGED <<free, queued>> PROVE BlocksKept'
  BY <1>1 DEF BlocksKept
<1>2. CASE UNCHANGED <<worker, free, queued>>
  BY <1>1, <1>2 DEF Holding
<1>3. CASE Apply \/ Reload
  <2>1. worker' \in {worker, Started}
    BY <1>3 DEF Apply, Reload
  <2>2. Holding' = Holding
    BY <1>0, <2>1 DEF Started, Holding
  <2> QED
    BY <1>1, <1>3, <2>2 DEF Apply, Reload
<1>4. CASE ReaderPush
  <2>1. Holding' = Holding
    BY <1>4 DEF ReaderPush, Holding
  <2> QED
    BY <1>0, <1>4, <2>1 DEF ReaderPush, BlocksKept
<1>5. CASE WriterSend
  <2>1. Holding' = Holding
    BY <1>0, <1>5 DEF WriterSend, WakeWorker, Holding
  <2> QED
    BY <1>1, <1>5, <2>1 DEF WriterSend
<1>6. ASSUME NEW w \in Workers, WorkerPop(w) PROVE BlocksKept'
  <2>1. w \notin Holding /\ Holding' = Holding \cup {w}
    BY <1>0, <1>6 DEF WorkerPop, Holding
  <2> QED
    BY <1>0, <1>6, <2>1, OneTakes DEF WorkerPop, BlocksKept
<1>7. ASSUME NEW w \in Workers, worker[w] \in {"busy", "write"},
             worker' = [worker EXCEPT ![w] = "idle"], free' = free + 1, queued' = queued
      PROVE  BlocksKept'
  <2>1. w \in Holding /\ Holding' = Holding \ {w}
    BY <1>0, <1>7 DEF Holding
  <2>2. Cardinality(Holding') = Cardinality(Holding) - 1
    BY <2>1, OneReturns
  <2> QED
    BY <1>0, <1>7, <2>1, <2>2 DEF BlocksKept
<1>8. ASSUME NEW w \in Workers, worker[w] \in {"busy", "write"},
             NEW to \in {"write", "asleep"}, worker' = [worker EXCEPT ![w] = to],
             UNCHANGED <<free, queued>>
      PROVE  BlocksKept'
  <2>1. Holding' = Holding
    BY <1>0, <1>8 DEF Holding
  <2> QED
    BY <1>1, <1>8, <2>1
<1>9. ASSUME NEW w \in Workers, WorkerAnswer(w) \/ WorkerWrite(w) PROVE BlocksKept'
  <2>1. worker[w] \in {"busy", "write"} /\ queued' = queued
    BY <1>9 DEF WorkerAnswer, WorkerWrite
  <2>2. \/ worker' = [worker EXCEPT ![w] = "idle"] /\ free' = free + 1
        \/ worker' = [worker EXCEPT ![w] = "write"] /\ free' = free
        \/ worker' = [worker EXCEPT ![w] = "asleep"] /\ free' = free
    BY <1>9 DEF WorkerAnswer, WorkerWrite
  <2> QED
    BY <1>7, <1>8, <2>1, <2>2
<1>10. CASE MainStep \/ Answer
  <2>1. Apply \/ UNCHANGED <<worker, free, queued>>
    BY <1>10 DEF MainStep, Top, Dial, Connect, Ask, Answer, AnswerFails, Sleep,
       CreateWriter, EnableReader, CreateReader, JoinReader, Offline, Signal,
       JoinWriter, Clear, Unstream
  <2> QED
    BY <1>2, <1>3, <2>1
<1>11. CASE TerminateMain \/ TerminateReader \/ Kill \/ PeerEnds \/ ServerSends
  BY <1>2, <1>11 DEF TerminateMain, TerminateReader, Kill, PeerEnds, ServerSends
<1>12. CASE ReaderStep
  BY <1>2, <1>4, <1>12 DEF ReaderStep, ReaderStart, ReaderTest, ReaderScan, ReaderRecv,
     ReaderSeesEnd, ReaderEnd
<1>13. CASE WriterStep
  BY <1>2, <1>5, <1>13 DEF WriterStep, WriterLook, WriterCheck, WriterWait
<1>14. CASE UNCHANGED vars
  BY <1>2, <1>14 DEF vars
<1> QED
  BY <1>3, <1>6, <1>9, <1>10, <1>11, <1>12, <1>13, <1>14 DEF Next, WorkerStep

---------------------------------------------------------------------------
\* The invariant of the session.
LEMMA SessionAlways == Spec => []SessionInv
<1>1. SessionInv /\ [Next]_vars => SessionInv'
  BY ValuesKept, FlagsKept, SeenKept, FlagKept, BlocksStep DEF SessionInv
<1> QED
  BY <1>1, SessionInit, PTL DEF Spec

\* Every block of the queue is in the free list, in the data list or with one
\* worker, the ring buffer holds no more answers than fit, and the retry delay
\* stops at 64 seconds, through sessions, signals and reconnects.
THEOREM SessionTypeCorrect == Spec => []TypeOK
<1>1. SessionInv => TypeOK
  BY DEF SessionInv, TypeOK
<1> QED
  BY <1>1, SessionAlways, PTL

\* Between terminate()'s store of the flag and its pthread_kill the thread it
\* names is one main has not joined (KillHasTarget): the handler runs in main's
\* own thread, and what is joined has lowered the flag itself, unless it ended
\* for want of memory before its first turn.
THEOREM KillAlwaysHasTarget == Spec => []KillHasTarget
<1>1. SessionInv => KillHasTarget
  BY DEF SessionInv
<1> QED
  BY <1>1, SessionAlways, PTL
===========================================================================
