---------------------------- MODULE UpsBridgeProofs ----------------------------
(***************************************************************************)
(* Theorems about the main task with the engine, the line and the UPS, for *)
(* every request table, ring size, clock and time limit, whether the port  *)
(* is up or not, and whatever the UPS answers.                             *)
(***************************************************************************)
EXTENDS UpsBridge, UartEngineProofs, WellFoundedInduction

----------------------------------------------------------------------------
(* How many requests of a table one pass enqueues.                         *)

Less == {p \in Nat \X Nat : p[1] < p[2]}

\* A set of numbers with a bound has a largest one.
LEMMA HasLargest ==
  ASSUME NEW n \in Nat, NEW S, S \subseteq 0 .. n, S # {}
  PROVE  \E m \in S : \A k \in S : k <= m
<1> DEFINE T == {n - k : k \in S}
<1>1. T \subseteq Nat /\ T # {}
  <2>1. \A k \in S : k \in 0 .. n
    OBVIOUS
  <2>2. \A k \in S : n - k \in Nat
    BY <2>1
  <2> QED BY <2>2
<1>2. IsWellFoundedOn(Less, Nat)
  BY NatLessThanWellFounded DEF OpToRel, Less
<1>3. PICK x \in T : \A y \in T : ~ (<<y, x>> \in Less)
  <2> HIDE DEF T
  <2> QED BY <1>1, <1>2, WFMin
<1>4. PICK m \in S : x = n - m
  OBVIOUS
<1>5. ASSUME NEW k \in S PROVE k <= m
  <2>1. n - k \in T /\ n - k \in Nat /\ x \in Nat
    BY <1>1
  <2>2. ~(n - k < x)
    BY <1>3, <2>1 DEF Less
  <2> QED BY <2>2, <1>4
<1> QED BY <1>5

LEMMA AcceptedLargest ==
  ASSUME TypeOK, NEW lut \in Seq(RequestType), NEW idx \in 0 .. Len(lut)
  PROVE  /\ Accepted(lut, idx) \in 0 .. Len(lut) - idx
         /\ Len(s_queue) + Accepted(lut, idx) <= QueueSize
         /\ \A j \in 1 .. Accepted(lut, idx) : RequestIsValid(lut[idx + j])
         /\ \A m \in 0 .. Len(lut) - idx :
              (/\ m <= Burst
               /\ Len(s_queue) + m <= QueueSize
               /\ \A j \in 1 .. m : RequestIsValid(lut[idx + j])) => m <= Accepted(lut, idx)
<1> DEFINE fits(k) == /\ k <= Burst
                      /\ Len(s_queue) + k <= QueueSize
                      /\ \A j \in 1 .. k : RequestIsValid(lut[idx + j])
           D == 0 .. Len(lut) - idx
           S == {k \in D : fits(k)}
<1>1. Len(lut) - idx \in Nat /\ Len(s_queue) \in Nat /\ Len(s_queue) <= QueueSize
      /\ Burst \in Nat
  BY BridgeAssumption DEF TypeOK
<1>2. 0 \in S
  BY <1>1
<1>3. \E m \in S : \A k \in S : k <= m
  <2>1. S \subseteq 0 .. Len(lut) - idx /\ S # {}
    BY <1>2
  <2> HIDE DEF S
  <2> QED BY <2>1, <1>1, HasLargest
<1>4. \E k \in D : fits(k) /\ \A m \in D : fits(m) => m <= k
  BY <1>3
<1>5. Accepted(lut, idx) = CHOOSE k \in D : fits(k) /\ \A m \in D : fits(m) => m <= k
  BY DEF Accepted
<1>6. /\ Accepted(lut, idx) \in D /\ fits(Accepted(lut, idx))
      /\ \A m \in D : fits(m) => m <= Accepted(lut, idx)
  <2> HIDE DEF D, fits
  <2> QED BY <1>4, <1>5
<1> QED BY <1>6

LEMMA AcceptedFits ==
  ASSUME TypeOK, NEW lut \in Seq(RequestType), NEW idx \in 0 .. Len(lut)
  PROVE  /\ Accepted(lut, idx) \in 0 .. Len(lut) - idx
         /\ Len(s_queue) + Accepted(lut, idx) <= QueueSize
         /\ \A j \in 1 .. Accepted(lut, idx) : RequestIsValid(lut[idx + j])
BY AcceptedLargest

\* The ring after a pass over a table.
LEMMA QueueAfterIs ==
  ASSUME TypeOK, NEW lut \in Seq(RequestType), NEW idx \in 0 .. Len(lut)
  PROVE  /\ QueueAfter(lut, idx) \in Seq(JobType)
         /\ Len(QueueAfter(lut, idx)) = Len(s_queue) + Accepted(lut, idx)
         /\ \A i \in 1 .. Len(QueueAfter(lut, idx)) :
              QueueAfter(lut, idx)[i] =
                IF i <= Len(s_queue) THEN s_queue[i]
                ELSE NewJob(lut[idx + (i - Len(s_queue))], FALSE)
<1> DEFINE a == Accepted(lut, idx)
           new == [j \in 1 .. a |-> NewJob(lut[idx + j], FALSE)]
<1>1. a \in Nat /\ idx \in Nat /\ Len(lut) \in Nat /\ idx + a <= Len(lut)
  BY AcceptedFits
<1>2. ASSUME NEW j \in 1 .. a PROVE NewJob(lut[idx + j], FALSE) \in JobType
  <2>1. idx + j \in 1 .. Len(lut)
    BY <1>1
  <2>2. lut[idx + j] \in RequestType
    BY <2>1, LenProperties
  <2> QED BY <2>2, NewJobType
<1>3. new \in Seq(JobType) /\ Len(new) = a
  <2> HIDE DEF a
  <2>1. new \in [1 .. a -> JobType]
    BY <1>2
  <2> HIDE DEF new
  <2> QED BY <1>1, <2>1
<1>4. s_queue \in Seq(JobType) /\ QueueAfter(lut, idx) = s_queue \o new
  BY DEF TypeOK, QueueAfter
<1>5. Len(s_queue) \in Nat
  BY <1>4
<1>6. /\ QueueAfter(lut, idx) \in Seq(JobType)
      /\ Len(QueueAfter(lut, idx)) = Len(s_queue) + a
      /\ \A i \in 1 .. Len(s_queue) + a :
           QueueAfter(lut, idx)[i] = IF i <= Len(s_queue) THEN s_queue[i]
                                     ELSE new[i - Len(s_queue)]
  <2> HIDE DEF new, a
  <2>1. /\ s_queue \o new \in Seq(JobType)
        /\ Len(s_queue \o new) = Len(s_queue) + Len(new)
        /\ \A i \in 1 .. Len(s_queue) + Len(new) :
             (s_queue \o new)[i] = IF i <= Len(s_queue) THEN s_queue[i]
                                   ELSE new[i - Len(s_queue)]
    BY <1>3, <1>4, ConcatProperties
  <2> QED BY <2>1, <1>3, <1>4
<1>7. ASSUME NEW i \in 1 .. Len(s_queue) + a, ~(i <= Len(s_queue))
      PROVE  new[i - Len(s_queue)] = NewJob(lut[idx + (i - Len(s_queue))], FALSE)
  <2>1. i - Len(s_queue) \in 1 .. a
    BY <1>1, <1>5, <1>7
  <2> QED BY <2>1
<1> HIDE DEF new, a
<1> QED BY <1>6, <1>7 DEF a
----------------------------------------------------------------------------
(* The engine's invariants in the bridge.                                  *)

Plain == TypeOK /\ CaptureInv /\ ~s_hb_enabled

LEMMA QueueOnly ==
  ASSUME Plain, UNCHANGED EngineRest, s_queue' \in Seq(JobType),
         Len(s_queue') <= QueueSize, ValidJobs(s_queue')
  PROVE  Plain'
<1> USE DEF EngineRest, clockVars, hbVars, adaptorVars
<1>1. TypeOK'
  BY DEF Plain, TypeOK, AdaptorTypeOK
<1>2. CaptureInv'
  BY DEF Plain, CaptureInv, CaptureInBounds, ProcessesWholeReply, ValidJobs
<1> QED BY <1>1, <1>2 DEF Plain

LEMMA ProbeType == Probe \in RequestType
BY BridgeAssumption DEF Probe, RequestType

LEMMA EnqueuedProbe ==
  ASSUME Plain, EnqueueResult(Probe) = "OK"
  PROVE  /\ Append(s_queue, NewJob(Probe, FALSE)) \in Seq(JobType)
         /\ Len(Append(s_queue, NewJob(Probe, FALSE))) <= QueueSize
         /\ ValidJobs(Append(s_queue, NewJob(Probe, FALSE)))
<1>1. NewJob(Probe, FALSE) \in JobType /\ NewJob(Probe, FALSE).req = Probe
  BY ProbeType, NewJobType DEF NewJob
<1>2. RequestIsValid(Probe) /\ ~QueueIsFull(s_queue)
  BY DEF EnqueueResult
<1>3. s_queue \in Seq(JobType) /\ ValidJobs(s_queue) /\ Len(s_queue) \in Nat
  BY DEF Plain, TypeOK, CaptureInv, CaptureInBounds, ValidJobs
<1>4. ValidJobs(Append(s_queue, NewJob(Probe, FALSE)))
  BY <1>1, <1>2, <1>3, AppendValid
<1>5. /\ Append(s_queue, NewJob(Probe, FALSE)) \in Seq(JobType)
      /\ Len(Append(s_queue, NewJob(Probe, FALSE))) = Len(s_queue) + 1
  BY <1>1, <1>3, AppendProperties
<1>6. Len(s_queue) + 1 <= QueueSize
  BY <1>2, <1>3, EngineAssumption DEF QueueIsFull
<1> QED BY <1>4, <1>5, <1>6

LEMMA EnqueuedTable ==
  ASSUME Plain, NEW lut \in Seq(RequestType), NEW idx \in 0 .. Len(lut)
  PROVE  /\ QueueAfter(lut, idx) \in Seq(JobType)
         /\ Len(QueueAfter(lut, idx)) <= QueueSize
         /\ ValidJobs(QueueAfter(lut, idx))
<1>1. TypeOK /\ ValidJobs(s_queue) /\ Len(s_queue) \in Nat
  BY DEF Plain, TypeOK, CaptureInv, CaptureInBounds, ValidJobs
<1>2. /\ QueueAfter(lut, idx) \in Seq(JobType)
      /\ Len(QueueAfter(lut, idx)) = Len(s_queue) + Accepted(lut, idx)
      /\ \A i \in 1 .. Len(QueueAfter(lut, idx)) :
           QueueAfter(lut, idx)[i] =
             IF i <= Len(s_queue) THEN s_queue[i]
             ELSE NewJob(lut[idx + (i - Len(s_queue))], FALSE)
  BY <1>1, QueueAfterIs
<1>3. /\ Accepted(lut, idx) \in Nat
      /\ Len(s_queue) + Accepted(lut, idx) <= QueueSize
      /\ \A j \in 1 .. Accepted(lut, idx) : RequestIsValid(lut[idx + j])
  BY <1>1, AcceptedFits
<1>4. ASSUME NEW i \in 1 .. Len(QueueAfter(lut, idx))
      PROVE  RequestIsValid(QueueAfter(lut, idx)[i].req)
  <2>1. CASE i <= Len(s_queue)
    <3>1. i \in 1 .. Len(s_queue)
      BY <1>1, <1>2, <1>3, <2>1
    <3>2. QueueAfter(lut, idx)[i] = s_queue[i]
      BY <1>2, <2>1
    <3> QED BY <1>1, <3>1, <3>2 DEF ValidJobs
  <2>2. CASE ~(i <= Len(s_queue))
    <3>1. i - Len(s_queue) \in 1 .. Accepted(lut, idx)
      BY <1>1, <1>2, <1>3, <2>2
    <3>2. QueueAfter(lut, idx)[i] = NewJob(lut[idx + (i - Len(s_queue))], FALSE)
      BY <1>2, <2>2
    <3> QED BY <1>3, <3>1, <3>2 DEF NewJob
  <2> QED BY <2>1, <2>2
<1> QED BY <1>2, <1>3, <1>4 DEF ValidJobs

\* One iteration of the tick.
BridgeTick(n) ==
  TickQuiet(n) \/ TickSend(n) \/ TickSent(n) \/ TickReceive(n) \/ TickProcess(n)

LEMMA ParsedType ==
  ASSUME TypeOK, NEW reading \in Parsed
  PROVE  reading \in TelemetryType
<1>1. CASE reading = telemetry
  BY <1>1 DEF TypeOK
<1>2. CASE \E c \in Capacities : reading = [telemetry EXCEPT !.remaining_capacity = c,
                                                            !.fully_charged = c >= 100]
  <2>1. PICK c \in Capacities : reading = [telemetry EXCEPT !.remaining_capacity = c,
                                                           !.fully_charged = c >= 100]
    BY <1>2
  <2>2. c \in Nat /\ (c >= 100) \in BOOLEAN
    BY BridgeAssumption
  <2> QED BY <2>1, <2>2 DEF TypeOK, TelemetryType
<1> QED BY <1>1, <1>2 DEF Parsed

LEMMA ReadLenType ==
  ASSUME Plain, RxRead(ReadLen, EndSeen)
  PROVE  ReadLen \in 0 .. MaxExpectedLen /\ EndSeen \in BOOLEAN
<1>1. TypeOK /\ CaptureInBounds
  BY DEF Plain, CaptureInv
<1>2. ReadLen \in Nat /\ s_rx_got + ReadLen <= MaxExpectedLen /\ s_rx_got \in Nat
  BY <1>1, ReadFits DEF TypeOK
<1> QED BY <1>2, EngineAssumption DEF EndSeen

LEMMA TickPlain ==
  ASSUME Plain, NEW n \in Time, BridgeTick(n)
  PROVE  Plain'
<1> USE DEF Plain
<1>1. s_hb_enabled' = s_hb_enabled
  BY DEF BridgeTick, TickQuiet, TickSend, TickSent, TickReceive, TickProcess, Iteration,
         TickGated, TickIdleEmpty, TickIdleNoLock, TickIdlePop, TickTxStart,
         TickTxStartFails, TickTxDone, TickTxTimeout, TickTxWaiting,
         TickRxComplete, TickRxFails, TickRxWaiting, TickProcessOk, TickProcessFails
<1>2. CASE TickQuiet(n) \/ TickSend(n) \/ TickSent(n)
  <2>1. Tick(n)
    BY <1>2 DEF Tick, TickQuiet, TickSend, TickSent
  <2> QED BY <1>1, <2>1, TickType, TickCapture
<1>3. CASE TickReceive(n)
  <2>1. RxRead(ReadLen, EndSeen)
    BY <1>3 DEF TickReceive, TickRxComplete, TickRxWaiting, TickRxFails
  <2>2. ReadLen \in 0 .. MaxExpectedLen /\ EndSeen \in BOOLEAN
    BY <2>1, ReadLenType
  <2>3. \/ TickRxComplete(n, ReadLen, EndSeen)
        \/ TickRxFails(n, ReadLen, EndSeen)
        \/ TickRxWaiting(n, ReadLen, EndSeen)
    BY <1>3 DEF TickReceive
  <2>4. Tick(n)
    BY <2>2, <2>3 DEF Tick
  <2> QED BY <1>1, <2>4, TickType, TickCapture
<1>4. CASE TickProcess(n)
  <2>1. CASE TickProcessFails(n)
    <3>1. Tick(n)
      BY <2>1 DEF Tick
    <3> QED BY <1>1, <3>1, TickType, TickCapture
  <2>2. CASE \E reading \in Parsed : TickProcessOk(n, reading)
    <3>1. PICK reading \in Parsed : TickProcessOk(n, reading)
      BY <2>2
    <3>2. reading \in TelemetryType
      BY ParsedType
    <3>3. CaptureInBounds
      BY DEF CaptureInv
    <3> QED BY <1>1, <3>1, <3>2, <3>3, ProcessOkType, ProcessOkCapture
  <2> QED BY <1>4, <2>1, <2>2 DEF TickProcess
<1> QED BY <1>2, <1>3, <1>4 DEF BridgeTick

----------------------------------------------------------------------------
(* What an iteration does to the jobs.                                     *)

Kept == /\ s_queue' = s_queue
        /\ s_active' = s_active
        /\ s_state = "IDLE" <=> s_state' = "IDLE"
Popped == /\ s_state = "IDLE" /\ s_state' = "TX_START"
          /\ s_queue # <<>>
          /\ s_active' = Head(s_queue)
          /\ s_queue' = Tail(s_queue)
Ended == /\ s_state # "IDLE" /\ s_state' = "IDLE"
         /\ s_queue' = s_queue
Retried == /\ s_state # "IDLE" /\ s_state' = "IDLE"
           /\ s_queue' = Append(s_queue, RetryJob)

LEMMA Unscheduled ==
  ASSUME Plain, NEW n
  PROVE  QueueH(n) = s_queue
BY DEF Plain, QueueH, HeartbeatDue

LEMMA FailureEffect ==
  ASSUME Plain, NEW n, NEW flag, s_state # "IDLE", JobFailure(n, flag)
  PROVE  Ended \/ Retried
BY Unscheduled DEF JobFailure, ActiveClear, Requeue, Ended, Retried

LEMMA TickEffect ==
  ASSUME Plain, NEW n, BridgeTick(n)
  PROVE  Kept \/ Popped \/ Ended \/ Retried
<1>0. QueueH(n) = s_queue
  BY Unscheduled
<1>1. CASE TickGated(n) \/ TickIdleEmpty(n) \/ TickIdleNoLock(n) \/ TickTxWaiting(n)
  BY <1>0, <1>1
  DEF Kept, OnlyHeartbeat, TickGated, TickIdleEmpty, TickIdleNoLock, TickTxWaiting
<1>2. CASE TickIdlePop(n)
  BY <1>0, <1>2 DEF Popped, TickIdlePop
<1>3. CASE TickTxStart(n) \/ TickTxDone(n)
  BY <1>0, <1>3 DEF Kept, JobStep, TickTxStart, TickTxDone
<1>4. CASE TickTxStartFails(n) \/ TickTxTimeout(n) \/ TickProcessFails(n)
  BY <1>4, FailureEffect DEF TickTxStartFails, TickTxTimeout, TickProcessFails
<1>5. CASE \/ TickRxComplete(n, ReadLen, EndSeen)
           \/ TickRxWaiting(n, ReadLen, EndSeen)
  BY <1>0, <1>5 DEF Kept, JobStep, RxRead, TickRxComplete, TickRxWaiting
<1>6. CASE TickRxFails(n, ReadLen, EndSeen)
  BY <1>6, FailureEffect DEF RxRead, TickRxFails
<1>7. CASE \E reading \in Parsed : TickProcessOk(n, reading)
  BY <1>0, <1>7 DEF Ended, ActiveClear, TickProcessOk
<1> QED BY <1>1, <1>2, <1>3, <1>4, <1>5, <1>6, <1>7
        DEF BridgeTick, TickQuiet, TickSend, TickSent, TickReceive, TickProcess
----------------------------------------------------------------------------
(* The types.                                                              *)

MainType ==
  /\ loop \in {"bootstrap", "dynamic", "tick", "delay"}
  /\ s_ups_bootstrap_state \in BootstrapStates
  /\ s_bootstrap_constant_idx \in 0 .. Len(ConstantLut)
  /\ s_bootstrap_dynamic_idx \in 0 .. Len(DynamicLut)
  /\ s_init_retry_not_before_ms \in Time
  /\ s_bootstrap_heartbeat_done \in BOOLEAN
  /\ s_bootstrap_heartbeat_rx \in Seq(Byte)
  /\ s_dynamic_update_cycle_active \in BOOLEAN
  /\ s_dynamic_update_idx \in 0 .. Len(DynamicLut)
  /\ s_next_dynamic_update_ms \in Time
  /\ settled \in BOOLEAN
  /\ identified \in BOOLEAN

LineType ==
  /\ s_rx_buf \in Seq(Byte) /\ Len(s_rx_buf) = s_rx_got
  /\ fifo \in Seq(Byte)
  /\ wire \in Seq([cmd : Cmd, at : Time])

Sound == Plain /\ MainType /\ LineType

LEMMA LutType ==
  /\ ConstantLut \in Seq(RequestType) /\ DynamicLut \in Seq(RequestType)
  /\ Len(ConstantLut) \in Nat /\ Len(DynamicLut) \in Nat
BY BridgeAssumption

LEMMA TimerTypes ==
  ASSUME Plain
  PROVE  Add(now, InitRetryPeriod) \in Time /\ Add(now, UpdatePeriod) \in Time
<1>1. now \in Time /\ InitRetryPeriod \in Nat /\ UpdatePeriod \in Nat
  BY BridgeAssumption DEF Plain, TypeOK, Time
<1> QED BY <1>1, AddType

LEMMA AnswerType ==
  ASSUME NEW cmd \in Cmd, NEW good \in BOOLEAN
  PROVE  Answer(cmd, good) \in Seq(Byte)
BY DEF Answer, Byte

\* A step of ups_bootstrap_task() or ups_dynamic_update_task() that leaves the
\* ring alone.
LEMMA NothingQueued ==
  ASSUME Plain, LineType, UNCHANGED <<s_queue, EngineRest, lineVars>>
  PROVE  Plain' /\ LineType' /\ settled' = settled
<1>1. /\ s_queue \in Seq(JobType) /\ Len(s_queue) <= QueueSize /\ ValidJobs(s_queue)
  BY DEF Plain, TypeOK, CaptureInv, CaptureInBounds, ValidJobs
<1>2. Plain'
  BY <1>1, QueueOnly
<1>3. LineType' /\ settled' = settled
  BY DEF LineType, lineVars, EngineRest
<1> QED BY <1>2, <1>3

LEMMA TableQueued ==
  ASSUME Plain, LineType, UNCHANGED <<EngineRest, lineVars>>,
         NEW lut \in Seq(RequestType), NEW idx \in 0 .. Len(lut),
         s_queue' = QueueAfter(lut, idx)
  PROVE  /\ Plain' /\ LineType' /\ settled' = settled
         /\ idx + Accepted(lut, idx) \in 0 .. Len(lut)
<1>1. Plain'
  BY EnqueuedTable, QueueOnly
<1>2. LineType' /\ settled' = settled
  BY DEF LineType, lineVars, EngineRest
<1>3. Accepted(lut, idx) \in 0 .. Len(lut) - idx /\ Len(lut) \in Nat
  BY AcceptedFits DEF Plain
<1> QED BY <1>1, <1>2, <1>3

LEMMA BootstrapSound ==
  ASSUME Sound, BootstrapTask
  PROVE  Sound'
<1> USE DEF Sound, MainType, Bootstrap, dynVars, bootVars, captureVars, BootstrapStates
<1>1. CASE EnqueueHeartbeat
  <2>1. CASE EnqueueResult(Probe) = "OK"
    <3>1. s_queue' = Append(s_queue, NewJob(Probe, FALSE)) /\ UNCHANGED <<EngineRest, lineVars>>
      BY <1>1, <2>1 DEF EnqueueHeartbeat
    <3>2. Plain'
      BY <3>1, EnqueuedProbe, QueueOnly, <2>1
    <3>3. LineType' /\ settled' = settled
      BY <3>1 DEF LineType, lineVars, EngineRest
    <3> QED BY <1>1, <2>1, <3>2, <3>3 DEF EnqueueHeartbeat
  <2>2. CASE EnqueueResult(Probe) # "OK"
    <3>1. UNCHANGED <<s_queue, EngineRest, lineVars>>
      BY <1>1, <2>2 DEF EnqueueHeartbeat
    <3> QED BY <1>1, <2>2, <3>1, NothingQueued DEF EnqueueHeartbeat
  <2> QED BY <2>1, <2>2
<1>2. CASE WaitHeartbeatDrain \/ WaitRetry \/ WaitDrain
  <2>1. UNCHANGED <<s_queue, EngineRest, lineVars>>
    BY <1>2 DEF WaitHeartbeatDrain, WaitRetry, WaitDrain, WaitFor
  <2>2. s_ups_bootstrap_state' \in BootstrapStates
    BY <1>2 DEF WaitHeartbeatDrain, WaitRetry, WaitDrain, WaitFor
  <2> QED BY <1>2, <2>1, <2>2, NothingQueued
          DEF WaitHeartbeatDrain, WaitRetry, WaitDrain, WaitFor
<1>3. CASE HeartbeatVerify \/ SanityFails
  <2>1. UNCHANGED <<s_queue, EngineRest, lineVars>>
    BY <1>3 DEF HeartbeatVerify, SanityFails
  <2>2. <<>> \in Seq(Byte) /\ 0 \in 0 .. Len(ConstantLut) /\ 0 \in 0 .. Len(DynamicLut)
    BY LutType
  <2> QED BY <1>3, <2>1, <2>2, NothingQueued, TimerTypes
          DEF HeartbeatVerify, SanityFails, ResetForRetry
<1>4. CASE EnqueueConstant
  <2>1. UNCHANGED <<EngineRest, lineVars>>
        /\ s_queue' = QueueAfter(ConstantLut, s_bootstrap_constant_idx)
    BY <1>4 DEF EnqueueConstant
  <2> QED BY <1>4, <2>1, LutType, TableQueued DEF EnqueueConstant
<1>5. CASE EnqueueDynamic
  <2>1. UNCHANGED <<EngineRest, lineVars>>
        /\ s_queue' = QueueAfter(DynamicLut, s_bootstrap_dynamic_idx)
    BY <1>5 DEF EnqueueDynamic
  <2> QED BY <1>5, <2>1, LutType, TableQueued DEF EnqueueDynamic
<1>6. CASE SanityPasses
  <2>1. UNCHANGED <<s_queue, EngineRest, lineVars>>
    BY <1>6 DEF SanityPasses, vars, EngineRest, jobVars
  <2> QED BY <1>6, <2>1, NothingQueued, TimerTypes DEF SanityPasses
<1>7. CASE BootstrapDone
  <2>1. UNCHANGED <<s_queue, EngineRest, lineVars>>
    BY <1>7 DEF BootstrapDone
  <2> QED BY <1>7, <2>1, NothingQueued DEF BootstrapDone
<1> QED BY <1>1, <1>2, <1>3, <1>4, <1>5, <1>6, <1>7 DEF BootstrapTask

LEMMA CycleIdxType ==
  ASSUME MainType
  PROVE  CycleIdx \in 0 .. Len(DynamicLut)
BY LutType DEF MainType, CycleIdx

LEMMA DynamicSound ==
  ASSUME Sound, DynamicTask
  PROVE  Sound'
<1> USE DEF Sound, MainType, Dynamic, dynVars, bootVars, captureVars
<1>1. CASE DynamicIdle
  <2>1. UNCHANGED <<s_queue, EngineRest, lineVars>>
    BY <1>1 DEF DynamicIdle
  <2> QED BY <1>1, <2>1, NothingQueued DEF DynamicIdle
<1>2. CASE DynamicEnqueue
  <2>1. UNCHANGED <<EngineRest, lineVars>> /\ s_queue' = QueueAfter(DynamicLut, CycleIdx)
    BY <1>2 DEF DynamicEnqueue
  <2> QED BY <1>2, <2>1, LutType, CycleIdxType, TableQueued DEF DynamicEnqueue
<1>3. CASE DynamicDrain
  <2>1. UNCHANGED <<s_queue, EngineRest, lineVars>>
    BY <1>3 DEF DynamicDrain
  <2>2. Busy \in BOOLEAN
    BY DEF Busy
  <2> QED BY <1>3, <2>1, <2>2, NothingQueued, TimerTypes, CycleIdxType DEF DynamicDrain
<1> QED BY <1>1, <1>2, <1>3 DEF DynamicTask
----------------------------------------------------------------------------
(* The bytes.                                                              *)

Rest == SubSeq(fifo, ReadLen + 1, Len(fifo))

LEMMA BytesRead ==
  ASSUME Plain, LineType, RxRead(ReadLen, EndSeen)
  PROVE  /\ ReadLen \in 0 .. Len(fifo)
         /\ NewBuf \in Seq(Byte) /\ Len(NewBuf) = s_rx_got + ReadLen
         /\ \A i \in 1 .. Len(NewBuf) :
              NewBuf[i] = IF i <= Len(s_rx_buf) THEN s_rx_buf[i]
                          ELSE fifo[i - Len(s_rx_buf)]
         /\ Rest \in Seq(Byte)
         /\ \A i \in 1 .. Len(Rest) : ReadLen + i \in 1 .. Len(fifo) /\ Rest[i] = fifo[ReadLen + i]
<1>1. ReadLen \in Nat /\ Len(fifo) \in Nat
  BY ReadLenType, EngineAssumption DEF LineType
<1>2. ReadLen <= Len(fifo)
  <2>1. CASE Len(fifo) < RxCap(s_active.req) - s_rx_got
    BY <1>1, <2>1 DEF ReadLen
  <2>2. CASE ~(Len(fifo) < RxCap(s_active.req) - s_rx_got)
    <3>1. ReadLen = RxCap(s_active.req) - s_rx_got
      BY <2>2 DEF ReadLen
    <3> QED BY <1>1, <2>2, <3>1
  <2> QED BY <2>1, <2>2
<1>3. fifo \in Seq(Byte) /\ s_rx_buf \in Seq(Byte) /\ Len(s_rx_buf) \in Nat
      /\ Len(s_rx_buf) = s_rx_got
  BY DEF LineType
<1> DEFINE head == SubSeq(fifo, 1, ReadLen)
<1>4. /\ head \in Seq(Byte) /\ Len(head) = ReadLen
      /\ \A i \in 1 .. ReadLen : head[i] = fifo[i]
  BY <1>1, <1>2, <1>3
<1>5. NewBuf = s_rx_buf \o head
  BY DEF NewBuf
<1>6. /\ NewBuf \in Seq(Byte)
      /\ Len(NewBuf) = Len(s_rx_buf) + Len(head)
      /\ \A i \in 1 .. Len(s_rx_buf) + Len(head) :
           NewBuf[i] = IF i <= Len(s_rx_buf) THEN s_rx_buf[i] ELSE head[i - Len(s_rx_buf)]
  <2> HIDE DEF head
  <2>1. /\ s_rx_buf \o head \in Seq(Byte)
        /\ Len(s_rx_buf \o head) = Len(s_rx_buf) + Len(head)
        /\ \A i \in 1 .. Len(s_rx_buf) + Len(head) :
             (s_rx_buf \o head)[i] = IF i <= Len(s_rx_buf) THEN s_rx_buf[i]
                                     ELSE head[i - Len(s_rx_buf)]
    BY <1>3, <1>4, ConcatProperties
  <2> QED BY <2>1, <1>5
<1> HIDE DEF head
<1>7. ASSUME NEW i \in 1 .. Len(NewBuf), ~(i <= Len(s_rx_buf))
      PROVE  head[i - Len(s_rx_buf)] = fifo[i - Len(s_rx_buf)]
  <2>1. i - Len(s_rx_buf) \in 1 .. ReadLen
    BY <1>1, <1>3, <1>4, <1>6, <1>7
  <2> QED BY <1>4, <2>1
<1>8. \A i \in 1 .. Len(NewBuf) :
        NewBuf[i] = IF i <= Len(s_rx_buf) THEN s_rx_buf[i] ELSE fifo[i - Len(s_rx_buf)]
  BY <1>4, <1>6, <1>7
<1>9. /\ Rest \in Seq(Byte)
      /\ \A i \in 1 .. Len(Rest) : ReadLen + i \in 1 .. Len(fifo) /\ Rest[i] = fifo[ReadLen + i]
  BY <1>1, <1>2, <1>3 DEF Rest
<1>10. ReadLen \in 0 .. Len(fifo)
  BY <1>1, <1>2
<1>11. NewBuf \in Seq(Byte) /\ Len(NewBuf) = s_rx_got + ReadLen
  BY <1>3, <1>4, <1>6
<1>12. \A i \in 1 .. Len(NewBuf) :
         NewBuf[i] = IF i <= Len(s_rx_buf) THEN s_rx_buf[i] ELSE fifo[i - Len(s_rx_buf)]
  BY <1>8
<1> QED BY <1>9, <1>10, <1>11, <1>12, Zenon

LEMMA TickLine ==
  ASSUME Sound, NEW n \in Time, BridgeTick(n)
  PROVE  /\ LineType'
         /\ s_bootstrap_heartbeat_rx' \in Seq(Byte) /\ s_bootstrap_heartbeat_done' \in BOOLEAN
         /\ settled' = settled
<1> USE DEF Sound, LineType, MainType, captureVars, lineVars
<1>0. <<>> \in Seq(Byte) /\ Len(<<>>) = 0
  BY EmptySeq
<1>1. CASE TickQuiet(n)
  <2>1. s_rx_got' = s_rx_got
    BY <1>1 DEF TickQuiet, TickGated, TickIdleEmpty, TickIdleNoLock, TickIdlePop,
                TickTxWaiting, OnlyHeartbeat
  <2> QED BY <1>1, <2>1 DEF TickQuiet
<1>2. CASE TickSend(n)
  <2>1. s_rx_got = 0 /\ s_rx_got' = 0
    BY <1>2 DEF TickSend, TickTxStart, TickTxStartFails, JobFailure, ActiveClear, Plain,
                CaptureInv
  <2>2. s_active.req.cmd \in Cmd
    BY DEF Plain, TypeOK, JobType, RequestType
  <2>3. [cmd |-> s_active.req.cmd, at |-> n] \in [cmd : Cmd, at : Time]
    BY <2>2
  <2>4. Append(wire, [cmd |-> s_active.req.cmd, at |-> n]) \in Seq([cmd : Cmd, at : Time])
    BY <2>3, AppendProperties
  <2>5. \/ wire' = wire \/ wire' = Append(wire, [cmd |-> s_active.req.cmd, at |-> n])
    BY <1>2 DEF TickSend
  <2>6. wire' \in Seq([cmd : Cmd, at : Time])
    BY <2>4, <2>5
  <2> QED BY <1>0, <1>2, <2>1, <2>6 DEF TickSend, Discarded
<1>3. CASE TickSent(n)
  <2>1. s_rx_got' = 0
    BY <1>3 DEF TickSent, TickTxDone, TickTxTimeout, JobFailure, ActiveClear
  <2> QED BY <1>0, <1>3, <2>1 DEF TickSent
<1>4. CASE TickReceive(n)
  <2>1. RxRead(ReadLen, EndSeen)
    BY <1>4 DEF TickReceive, TickRxComplete, TickRxWaiting, TickRxFails
  <2>2. \/ s_rx_buf' = NewBuf /\ s_rx_got' = s_rx_got + ReadLen
        \/ s_rx_buf' = <<>> /\ s_rx_got' = 0
    BY <1>4 DEF TickReceive, TickRxComplete, TickRxWaiting, TickRxFails, JobFailure,
                ActiveClear
  <2>3. s_rx_buf' \in Seq(Byte) /\ Len(s_rx_buf') = s_rx_got'
    BY <1>0, <2>1, <2>2, BytesRead
  <2>4. fifo' = Rest /\ Rest \in Seq(Byte)
    BY <1>4, <2>1, BytesRead DEF TickReceive, Rest
  <2> QED BY <1>4, <2>3, <2>4 DEF TickReceive
<1>5. CASE TickProcess(n)
  <2>1. s_rx_got' = 0
    BY <1>5 DEF TickProcess, TickProcessOk, TickProcessFails, JobFailure, ActiveClear
  <2> QED BY <1>0, <1>5, <2>1 DEF TickProcess, Capture
<1> QED BY <1>1, <1>2, <1>3, <1>4, <1>5 DEF BridgeTick

LEMMA DriftType ==
  ASSUME Plain, NEW n \in {Add(now, d) : d \in 0 .. MaxDrift}
  PROVE  n \in Time
<1>1. MaxDrift \in Nat /\ now \in Time
  BY BridgeAssumption, EngineAssumption DEF Plain, TypeOK
<1> QED BY <1>1, AddType

LEMMA TickSound ==
  ASSUME Sound, TickTask
  PROVE  Sound'
<1>1. PICK n \in {Add(now, d) : d \in 0 .. MaxDrift} : BridgeTick(n)
  BY DEF TickTask, BridgeTick
<1>2. n \in Time
  BY DriftType DEF Sound
<1>3. Plain'
  BY <1>1, <1>2, TickPlain DEF Sound
<1>4. /\ LineType'
      /\ s_bootstrap_heartbeat_rx' \in Seq(Byte) /\ s_bootstrap_heartbeat_done' \in BOOLEAN
      /\ settled' = settled
  BY <1>1, <1>2, TickLine
<1>5. MainType'
  BY <1>4 DEF Sound, MainType, TickTask, bootVars, dynVars
<1> QED BY <1>3, <1>4, <1>5 DEF Sound

LEMMA DelaySound ==
  ASSUME Sound, LoopDelay
  PROVE  Sound'
<1>1. now' \in Time
  <2>1. now \in Time /\ MaxStall \in Nat
    BY EngineAssumption DEF Sound, Plain, TypeOK
  <2> QED BY <2>1, AddType DEF LoopDelay, LaterReads
<1>2. TypeOK'
  BY <1>1 DEF LoopDelay, Sound, Plain, TypeOK, AdaptorTypeOK, jobVars, hbVars, adaptorVars
<1>3. CaptureInv' /\ s_hb_enabled' = s_hb_enabled
  BY DEF LoopDelay, Sound, Plain, CaptureInv, CaptureInBounds, ProcessesWholeReply, jobVars,
         hbVars
<1>4. MainType' /\ LineType'
  BY DEF LoopDelay, Sound, MainType, LineType, bootVars, captureVars, dynVars, lineVars,
         jobVars
<1> QED BY <1>2, <1>3, <1>4 DEF Sound, Plain

\* The UPS and the line leave the engine and the main task alone.
LEMMA PlainKept ==
  ASSUME Plain, UNCHANGED vars
  PROVE  Plain'
<1>1. TypeOK'
  BY DEF Plain, TypeOK, AdaptorTypeOK, vars, clockVars, jobVars, hbVars, adaptorVars
<1>2. CaptureInv' /\ s_hb_enabled' = s_hb_enabled
  BY DEF Plain, CaptureInv, CaptureInBounds, ProcessesWholeReply, vars, jobVars, hbVars
<1> QED BY <1>1, <1>2 DEF Plain

LEMMA UpsSound ==
  ASSUME Sound, Ups \/ UpsSettles
  PROVE  Sound'
<1> USE DEF Sound, MainType, LineType
<1>1. UNCHANGED <<vars, loop, bootVars, captureVars, dynVars, s_rx_buf>>
  BY DEF Ups, UpsAnswers, UpsSilent, UpsSettles
<1>2. Plain' /\ s_rx_got' = s_rx_got
  BY <1>1, PlainKept DEF vars, jobVars
<1>3. settled' \in BOOLEAN /\ identified' \in BOOLEAN
  BY DEF Ups, UpsAnswers, UpsSilent, UpsSettles
<1>4. fifo' \in Seq(Byte) /\ wire' \in Seq([cmd : Cmd, at : Time])
  <2>1. ASSUME NEW good \in BOOLEAN, UpsAnswers(good)
        PROVE  fifo' \in Seq(Byte) /\ wire' \in Seq([cmd : Cmd, at : Time])
    <3>1. Head(wire) \in [cmd : Cmd, at : Time] /\ Tail(wire) \in Seq([cmd : Cmd, at : Time])
      BY <2>1, HeadTailProperties DEF UpsAnswers
    <3>2. Answer(Head(wire).cmd, good) \in Seq(Byte)
      BY <3>1, AnswerType
    <3> QED BY <2>1, <3>1, <3>2, ConcatProperties DEF UpsAnswers
  <2>2. CASE UpsSilent
    BY <2>2, HeadTailProperties DEF UpsSilent
  <2>3. CASE UpsSettles
    BY <2>3 DEF UpsSettles
  <2> QED BY <2>1, <2>2, <2>3 DEF Ups
<1>5. MainType'
  BY <1>1, <1>3 DEF bootVars, captureVars, dynVars
<1> QED BY <1>1, <1>2, <1>4, <1>5

LEMMA StutterSound ==
  ASSUME Sound, UNCHANGED bridgeVars
  PROVE  Sound'
<1>1. Plain'
  BY PlainKept DEF Sound, bridgeVars
<1>2. MainType' /\ LineType'
  BY DEF Sound, MainType, LineType, bridgeVars, bootVars, captureVars, dynVars, lineVars, vars,
         jobVars
<1> QED BY <1>1, <1>2 DEF Sound

LEMMA SoundStep == Sound /\ [BridgeNext]_bridgeVars => Sound'
BY BootstrapSound, DynamicSound, TickSound, DelaySound, UpsSound, StutterSound
DEF BridgeNext, MainTask

LEMMA SoundInit == BridgeInit => Sound
<1> SUFFICES ASSUME BridgeInit PROVE Sound
  OBVIOUS
<1>1. TypeOK
  BY InitType DEF BridgeInit
<1>2. CaptureInv /\ ~s_hb_enabled
  BY NoCapture, EngineAssumption
  DEF BridgeInit, Init, CaptureInv, CaptureInBounds, ProcessesWholeReply
<1>3. MainType
  <2>1. Len(ConstantLut) \in Nat /\ Len(DynamicLut) \in Nat
    BY LutType, LenProperties
  <2>2. 0 \in 0 .. Len(ConstantLut) /\ 0 \in 0 .. Len(DynamicLut)
    BY <2>1
  <2>3. 0 \in Time
    BY ZeroInRanges
  <2>4. s_bootstrap_heartbeat_rx \in Seq(Byte)
    BY EmptySeq DEF BridgeInit
  <2> QED BY <2>2, <2>3, <2>4 DEF BridgeInit, MainType, BootstrapStates
<1>4. LineType
  BY EmptySeq DEF BridgeInit, Init, LineType
<1> QED BY <1>1, <1>2, <1>3, <1>4 DEF Sound, Plain

\* Whatever the UPS answers and however late the port comes up, every variable of
\* main.c, of the engine under it and of the line keeps its type: no table index
\* runs past its table, and s_rx_got counts the bytes that are in s_rx_buf.
THEOREM BridgeTypeCorrect == BridgeSpec => []BridgeTypeOK
<1>1. Sound => BridgeTypeOK
  BY DEF Sound, Plain, MainType, LineType, BridgeTypeOK
<1> QED BY <1>1, SoundInit, SoundStep, PTL DEF BridgeSpec

\* An iteration keeps the mutex with the job, whatever the line lets it see.
LEMMA BridgeTickLock ==
  ASSUME Plain, LockDiscipline, NEW n, BridgeTick(n)
  PROVE  LockDiscipline'
<1>0. TypeOK
  BY DEF Plain
<1>1. CASE TickQuiet(n) \/ TickSend(n) \/ TickSent(n)
  <2>1. Tick(n)
    BY <1>1 DEF Tick, TickQuiet, TickSend, TickSent
  <2> QED BY <1>0, <2>1, TickLock
<1>2. CASE TickReceive(n)
  <2>1. \/ TickRxComplete(n, ReadLen, EndSeen)
        \/ TickRxFails(n, ReadLen, EndSeen)
        \/ TickRxWaiting(n, ReadLen, EndSeen)
    BY <1>2 DEF TickReceive
  <2>2. ReadLen \in 0 .. MaxExpectedLen /\ EndSeen \in BOOLEAN
    BY <2>1, ReadLenType DEF TickRxComplete, TickRxWaiting, TickRxFails
  <2>3. Tick(n)
    BY <2>1, <2>2 DEF Tick
  <2> QED BY <1>0, <2>3, TickLock
<1>3. CASE TickProcessFails(n)
  <2>1. Tick(n)
    BY <1>3 DEF Tick
  <2> QED BY <1>0, <2>1, TickLock
<1>4. CASE \E reading \in Parsed : TickProcessOk(n, reading)
  BY <1>4 DEF TickProcessOk, ActiveClear, Unlocked, LockDiscipline
<1> QED BY <1>1, <1>2, <1>3, <1>4 DEF BridgeTick, TickProcess

LEMMA BridgeLockStep == Sound /\ LockDiscipline /\ [BridgeNext]_bridgeVars => LockDiscipline'
<1> SUFFICES ASSUME Sound, LockDiscipline, [BridgeNext]_bridgeVars
             PROVE  LockDiscipline'
  OBVIOUS
<1>1. CASE TickTask
  <2>1. PICK n \in {Add(now, d) : d \in 0 .. MaxDrift} : BridgeTick(n)
    BY <1>1 DEF TickTask, BridgeTick
  <2> QED BY <2>1, BridgeTickLock DEF Sound
<1>2. CASE UNCHANGED <<s_state, adaptorVars>>
  BY <1>2 DEF LockDiscipline, adaptorVars
<1>3. CASE BootstrapTask
  <2>1. CASE SanityPasses
    BY <1>2, <2>1 DEF SanityPasses, vars, jobVars
  <2>2. CASE ~SanityPasses
    <3>1. UNCHANGED EngineRest
      BY <1>3, <2>2
      DEF BootstrapTask, EnqueueHeartbeat, WaitHeartbeatDrain, HeartbeatVerify, WaitRetry, WaitFor,
          EnqueueConstant, EnqueueDynamic, WaitDrain, SanityFails, BootstrapDone, Bootstrap
    <3> QED BY <1>2, <3>1 DEF EngineRest
  <2> QED BY <2>1, <2>2
<1>4. CASE DynamicTask
  <2>1. UNCHANGED EngineRest
    BY <1>4 DEF DynamicTask, DynamicIdle, DynamicEnqueue, DynamicDrain, Dynamic
  <2> QED BY <1>2, <2>1 DEF EngineRest
<1>5. CASE LoopDelay
  BY <1>2, <1>5 DEF LoopDelay, jobVars
<1>6. CASE Ups \/ UpsSettles \/ UNCHANGED bridgeVars
  <2>1. UNCHANGED vars
    BY <1>6 DEF Ups, UpsAnswers, UpsSilent, UpsSettles, bridgeVars
  <2> QED BY <1>2, <2>1 DEF vars, jobVars
<1> QED BY <1>1, <1>3, <1>4, <1>5, <1>6 DEF BridgeNext, MainTask

\* The engine stays safe inside the whole program, where the callers are those of
\* main.c, several requests are queued in one call, the clock also moves between
\* two turns of the loop, and what a callback may read follows from the bytes: the
\* mutex is held exactly during a job, no reply runs past s_rx_buf, and callbacks
\* see whole replies only.
THEOREM EngineSafeInBridge ==
  BridgeSpec => [](LockDiscipline /\ CaptureInBounds /\ ProcessesWholeReply)
<1>1. BridgeInit => LockDiscipline
  BY DEF BridgeInit, Init, AdaptorInit, LockDiscipline
<1>2. Sound => CaptureInBounds /\ ProcessesWholeReply
  BY DEF Sound, Plain, CaptureInv
<1> QED BY <1>1, <1>2, SoundInit, SoundStep, BridgeLockStep, PTL DEF BridgeSpec
----------------------------------------------------------------------------
(* Which jobs are outstanding in which phase, and how many.                *)

Load == Len(s_queue) + (IF s_state = "IDLE" THEN 0 ELSE 1)

RequestsOf(lut) == {lut[i] : i \in 1 .. Len(lut)}
TableRequests == RequestsOf(ConstantLut) \union RequestsOf(DynamicLut)

ProbeStates == {"ENQUEUE_HEARTBEAT", "WAIT_HEARTBEAT_DRAIN", "HEARTBEAT_VERIFY",
                "WAIT_RETRY"}
QuietStates == {"ENQUEUE_HEARTBEAT", "HEARTBEAT_VERIFY", "WAIT_RETRY", "SANITY_CHECK"}
TableStates == {"ENQUEUE_CONSTANT", "ENQUEUE_DYNAMIC", "WAIT_DRAIN", "DONE"}

\* The inductive form of JobsFitPhase and QueueNeverRefuses: what is outstanding
\* in a phase, and no more of it than the indices have handed over.
Phased ==
  /\ s_ups_bootstrap_state = "WAIT_HEARTBEAT_DRAIN" => Outstanding \subseteq {Probe}
  /\ s_ups_bootstrap_state \in TableStates => Outstanding \subseteq TableRequests
  /\ s_ups_bootstrap_state \in QuietStates => ~Busy
  /\ s_ups_bootstrap_state \in ProbeStates =>
       s_bootstrap_constant_idx = 0 /\ s_bootstrap_dynamic_idx = 0
  /\ s_ups_bootstrap_state = "ENQUEUE_CONSTANT" =>
       s_bootstrap_dynamic_idx = 0 /\ Load <= s_bootstrap_constant_idx
  /\ s_ups_bootstrap_state = "ENQUEUE_DYNAMIC" =>
       Load <= s_bootstrap_constant_idx + s_bootstrap_dynamic_idx
  /\ s_ups_bootstrap_state = "DONE" /\ ~s_dynamic_update_cycle_active => ~Busy
  /\ s_dynamic_update_cycle_active =>
       s_ups_bootstrap_state = "DONE" /\ Load <= s_dynamic_update_idx

LEMMA NotBusy ==
  ASSUME TypeOK
  PROVE  /\ ~Busy => Outstanding = {} /\ Load = 0
         /\ Load \in Nat
         /\ Outstanding = {} => ~Busy
<1>1. s_queue \in Seq(JobType) /\ Len(s_queue) \in Nat
  BY DEF TypeOK
<1>2. s_queue # <<>> => Len(s_queue) > 0
  BY <1>1
<1>3. s_queue # <<>> => s_queue[1].req \in Outstanding
  BY <1>1, <1>2 DEF Outstanding
<1>4. ~Busy => s_state = "IDLE" /\ Len(s_queue) = 0
  BY <1>1 DEF Busy
<1>5. ~Busy => Outstanding = {}
  BY <1>4 DEF Outstanding
<1>6. s_state # "IDLE" => s_active.req \in Outstanding
  BY DEF Outstanding
<1> QED BY <1>1, <1>3, <1>4, <1>5, <1>6 DEF Busy, Load

\* An iteration of the tick adds no job: a retry is the job that was active.
LEMMA TickOutstanding ==
  ASSUME Plain, NEW n, BridgeTick(n)
  PROVE  /\ Outstanding' \subseteq Outstanding
         /\ Load' <= Load
         /\ Busy' => Busy
<1>0. Busy' => Busy
  BY TickEffect DEF Kept, Popped, Ended, Retried, Busy
<1> SUFFICES Outstanding' \subseteq Outstanding /\ Load' <= Load
  BY <1>0
<1>1. s_queue \in Seq(JobType) /\ Len(s_queue) \in Nat
  BY DEF Plain, TypeOK
<1>2. CASE Kept
  BY <1>1, <1>2 DEF Kept, Outstanding, Load
<1>3. CASE Popped
  <2>1. /\ Tail(s_queue) \in Seq(JobType) /\ Len(Tail(s_queue)) = Len(s_queue) - 1
        /\ Head(s_queue) = s_queue[1] /\ 1 \in 1 .. Len(s_queue)
        /\ \A i \in 1 .. Len(Tail(s_queue)) :
             i + 1 \in 1 .. Len(s_queue) /\ Tail(s_queue)[i] = s_queue[i + 1]
    BY <1>1, <1>3 DEF Popped
  <2>2. Load' <= Load
    BY <1>1, <1>3, <2>1 DEF Popped, Load
  <2>3. \A r \in Outstanding' : r \in Outstanding
    BY <1>1, <1>3, <2>1 DEF Popped, Outstanding
  <2> QED BY <2>2, <2>3
<1>4. CASE Ended
  BY <1>1, <1>4 DEF Ended, Outstanding, Load
<1>5. CASE Retried
  <2>1. RetryJob \in JobType /\ RetryJob.req = s_active.req
    BY RetryJobType DEF Plain, RetryJob, NewJob
  <2>2. /\ Len(Append(s_queue, RetryJob)) = Len(s_queue) + 1
        /\ \A i \in 1 .. Len(s_queue) : Append(s_queue, RetryJob)[i] = s_queue[i]
        /\ Append(s_queue, RetryJob)[Len(s_queue) + 1] = RetryJob
    BY <1>1, <2>1, AppendProperties
  <2>3. Load' <= Load
    BY <1>1, <1>5, <2>2 DEF Retried, Load
  <2>4. ASSUME NEW i \in 1 .. Len(s_queue')
        PROVE  s_queue'[i].req \in Outstanding
    <3>1. CASE i \in 1 .. Len(s_queue)
      BY <1>5, <2>2, <3>1 DEF Retried, Outstanding
    <3>2. CASE i = Len(s_queue) + 1
      BY <1>5, <2>1, <2>2, <3>2 DEF Retried, Outstanding
    <3> QED BY <1>1, <1>5, <2>2, <3>1, <3>2 DEF Retried
  <2>5. Outstanding' = {s_queue'[i].req : i \in 1 .. Len(s_queue')}
    BY <1>5 DEF Retried, Outstanding
  <2> QED BY <2>3, <2>4, <2>5
<1> QED BY <1>2, <1>3, <1>4, <1>5, TickEffect

\* A pass over a table adds requests of it, as many as the index advances.
LEMMA TableOutstanding ==
  ASSUME Plain, NEW lut \in Seq(RequestType), NEW idx \in 0 .. Len(lut),
         s_queue' = QueueAfter(lut, idx), s_state' = s_state, s_active' = s_active
  PROVE  /\ Outstanding' \subseteq Outstanding \union RequestsOf(lut)
         /\ Load' = Load + Accepted(lut, idx)
<1>1. TypeOK /\ s_queue \in Seq(JobType) /\ Len(s_queue) \in Nat /\ Len(lut) \in Nat
  BY DEF Plain, TypeOK
<1>2. /\ Len(s_queue') = Len(s_queue) + Accepted(lut, idx)
      /\ \A i \in 1 .. Len(s_queue') :
           s_queue'[i] = IF i <= Len(s_queue) THEN s_queue[i]
                         ELSE NewJob(lut[idx + (i - Len(s_queue))], FALSE)
  BY <1>1, QueueAfterIs
<1>3. Accepted(lut, idx) \in 0 .. Len(lut) - idx
  BY <1>1, AcceptedFits
<1>4. ASSUME NEW i \in 1 .. Len(s_queue')
      PROVE  s_queue'[i].req \in Outstanding \union RequestsOf(lut)
  <2>1. CASE i <= Len(s_queue)
    <3>1. i \in 1 .. Len(s_queue)
      BY <1>1, <1>2, <1>3, <2>1
    <3> QED BY <1>2, <2>1, <3>1 DEF Outstanding
  <2>2. CASE ~(i <= Len(s_queue))
    <3>1. idx + (i - Len(s_queue)) \in 1 .. Len(lut)
      BY <1>1, <1>2, <1>3, <2>2
    <3>2. s_queue'[i].req = lut[idx + (i - Len(s_queue))]
      BY <1>2, <2>2 DEF NewJob
    <3> QED BY <3>1, <3>2 DEF RequestsOf
  <2> QED BY <2>1, <2>2
<1>5. Load' = Load + Accepted(lut, idx)
  BY <1>1, <1>2, <1>3 DEF Load
<1>6. \A r \in Outstanding' : r \in Outstanding \union RequestsOf(lut)
  BY <1>4 DEF Outstanding
<1> QED BY <1>5, <1>6
----------------------------------------------------------------------------
\* ~Busy, Outstanding and Load depend on the ring and the active job alone.
LEMMA JobsKept ==
  ASSUME UNCHANGED <<s_queue, s_active, s_state>>
  PROVE  Outstanding' = Outstanding /\ Load' = Load /\ Busy' = Busy
BY DEF Outstanding, Load, Busy

LEMMA BootstrapPhased ==
  ASSUME Sound, Phased, BootstrapTask
  PROVE  Phased'
<1> USE DEF Phased, ProbeStates, QuietStates, TableStates
<1>0. TypeOK /\ Plain
  BY DEF Sound, Plain
<1>1. CASE EnqueueHeartbeat
  <2>1. CASE EnqueueResult(Probe) = "OK"
    <3>1. /\ s_ups_bootstrap_state = "ENQUEUE_HEARTBEAT"
          /\ s_ups_bootstrap_state' = "WAIT_HEARTBEAT_DRAIN"
          /\ s_queue' = Append(s_queue, NewJob(Probe, FALSE))
          /\ s_state' = s_state
          /\ UNCHANGED <<s_bootstrap_constant_idx, s_bootstrap_dynamic_idx, dynVars>>
      BY <1>1, <2>1 DEF EnqueueHeartbeat, Bootstrap, EngineRest
    <3>2. s_queue = <<>> /\ s_state = "IDLE"
      BY <3>1 DEF Busy
    <3>3. NewJob(Probe, FALSE).req = Probe
      BY DEF NewJob
    <3>4. s_queue' = <<NewJob(Probe, FALSE)>>
      BY <3>1, <3>2
    <3>5. Outstanding' = {s_queue'[i].req : i \in 1 .. Len(s_queue')}
      BY <3>1, <3>2 DEF Outstanding
    <3>6. \A i \in 1 .. Len(s_queue') : s_queue'[i] = NewJob(Probe, FALSE)
      <4> DEFINE job == NewJob(Probe, FALSE)
      <4>1. s_queue' = <<job>>
        BY <3>4
      <4> HIDE DEF job
      <4>2. \A i \in 1 .. Len(s_queue') : s_queue'[i] = job
        BY <4>1
      <4> QED BY <4>2 DEF job
    <3>7. Outstanding' \subseteq {Probe}
      BY <3>3, <3>5, <3>6
    <3> QED BY <3>1, <3>7 DEF dynVars
  <2>2. CASE EnqueueResult(Probe) # "OK"
    <3>1. UNCHANGED <<s_queue, s_active, s_state, bootVars, dynVars>>
      BY <1>1, <2>2 DEF EnqueueHeartbeat, Bootstrap, EngineRest, bootVars
    <3> QED BY <3>1, JobsKept DEF bootVars, dynVars
  <2> QED BY <2>1, <2>2
<1>2. CASE WaitHeartbeatDrain \/ WaitRetry \/ WaitDrain
  <2>1. /\ UNCHANGED <<s_queue, s_active, s_state, dynVars>>
        /\ UNCHANGED <<s_bootstrap_constant_idx, s_bootstrap_dynamic_idx>>
    BY <1>2 DEF WaitHeartbeatDrain, WaitRetry, WaitDrain, WaitFor, Bootstrap, EngineRest
  <2>2. \/ s_ups_bootstrap_state' = s_ups_bootstrap_state
        \/ /\ s_ups_bootstrap_state = "WAIT_HEARTBEAT_DRAIN" /\ ~Busy
           /\ s_ups_bootstrap_state' = "HEARTBEAT_VERIFY"
        \/ /\ s_ups_bootstrap_state = "WAIT_RETRY"
           /\ s_ups_bootstrap_state' = "ENQUEUE_HEARTBEAT"
        \/ /\ s_ups_bootstrap_state = "WAIT_DRAIN" /\ ~Busy
           /\ s_ups_bootstrap_state' = "SANITY_CHECK"
    BY <1>2 DEF WaitHeartbeatDrain, WaitRetry, WaitDrain, WaitFor, Bootstrap
  <2> QED BY <2>1, <2>2, JobsKept DEF dynVars
<1>3. CASE HeartbeatVerify \/ SanityFails
  <2>1. UNCHANGED <<s_queue, s_active, s_state, dynVars>>
    BY <1>3 DEF HeartbeatVerify, SanityFails, Bootstrap, EngineRest
  <2>2. ~Busy /\ Load = 0 /\ Outstanding = {}
    BY <1>0, <1>3, NotBusy DEF HeartbeatVerify, SanityFails, Bootstrap
  <2>3. \/ /\ s_ups_bootstrap_state = "HEARTBEAT_VERIFY"
           /\ s_ups_bootstrap_state' = "ENQUEUE_CONSTANT"
           /\ UNCHANGED <<s_bootstrap_constant_idx, s_bootstrap_dynamic_idx>>
        \/ /\ s_ups_bootstrap_state \in {"HEARTBEAT_VERIFY", "SANITY_CHECK"}
           /\ s_ups_bootstrap_state' = "WAIT_RETRY"
           /\ s_bootstrap_constant_idx' = 0 /\ s_bootstrap_dynamic_idx' = 0
    BY <1>3 DEF HeartbeatVerify, SanityFails, Bootstrap, ResetForRetry
  <2> QED BY <2>1, <2>2, <2>3, JobsKept DEF dynVars
<1>4. CASE EnqueueConstant
  <2>1. /\ s_ups_bootstrap_state = "ENQUEUE_CONSTANT"
        /\ s_ups_bootstrap_state' \in {"ENQUEUE_CONSTANT", "ENQUEUE_DYNAMIC"}
        /\ s_queue' = QueueAfter(ConstantLut, s_bootstrap_constant_idx)
        /\ s_bootstrap_constant_idx' =
             s_bootstrap_constant_idx + Accepted(ConstantLut, s_bootstrap_constant_idx)
        /\ s_bootstrap_dynamic_idx' = s_bootstrap_dynamic_idx
        /\ UNCHANGED <<s_active, s_state, dynVars>>
    BY <1>4 DEF EnqueueConstant, Bootstrap, EngineRest
  <2>2. /\ Outstanding' \subseteq Outstanding \union RequestsOf(ConstantLut)
        /\ Load' = Load + Accepted(ConstantLut, s_bootstrap_constant_idx)
    BY <1>0, <2>1, LutType, TableOutstanding DEF Sound, MainType
  <2>3. /\ Accepted(ConstantLut, s_bootstrap_constant_idx) \in Nat
        /\ Load \in Nat /\ s_bootstrap_constant_idx \in Nat
    BY <1>0, LutType, AcceptedFits, NotBusy DEF Sound, MainType
  <2>4. Outstanding' \subseteq TableRequests
    BY <2>1, <2>2 DEF TableRequests
  <2>5. s_bootstrap_dynamic_idx' = 0 /\ Load' <= s_bootstrap_constant_idx'
    BY <2>1, <2>2, <2>3
  <2>6. Load' <= s_bootstrap_constant_idx' + s_bootstrap_dynamic_idx'
    BY <2>1, <2>2, <2>3, <2>5
  <2>7. ~s_dynamic_update_cycle_active'
    BY <2>1 DEF dynVars
  <2> QED BY <2>1, <2>4, <2>5, <2>6, <2>7
<1>5. CASE EnqueueDynamic
  <2>1. /\ s_ups_bootstrap_state = "ENQUEUE_DYNAMIC"
        /\ s_ups_bootstrap_state' \in {"ENQUEUE_DYNAMIC", "WAIT_DRAIN"}
        /\ s_queue' = QueueAfter(DynamicLut, s_bootstrap_dynamic_idx)
        /\ s_bootstrap_dynamic_idx' =
             s_bootstrap_dynamic_idx + Accepted(DynamicLut, s_bootstrap_dynamic_idx)
        /\ s_bootstrap_constant_idx' = s_bootstrap_constant_idx
        /\ UNCHANGED <<s_active, s_state, dynVars>>
    BY <1>5 DEF EnqueueDynamic, Bootstrap, EngineRest
  <2>2. /\ Outstanding' \subseteq Outstanding \union RequestsOf(DynamicLut)
        /\ Load' = Load + Accepted(DynamicLut, s_bootstrap_dynamic_idx)
    BY <1>0, <2>1, LutType, TableOutstanding DEF Sound, MainType
  <2>3. /\ Accepted(DynamicLut, s_bootstrap_dynamic_idx) \in Nat
        /\ Load \in Nat /\ s_bootstrap_constant_idx \in Nat /\ s_bootstrap_dynamic_idx \in Nat
    BY <1>0, LutType, AcceptedFits, NotBusy DEF Sound, MainType
  <2>4. Outstanding' \subseteq TableRequests
    BY <2>1, <2>2 DEF TableRequests
  <2>5. Load' <= s_bootstrap_constant_idx' + s_bootstrap_dynamic_idx'
    BY <2>1, <2>2, <2>3
  <2>6. ~s_dynamic_update_cycle_active'
    BY <2>1 DEF dynVars
  <2> QED BY <2>1, <2>4, <2>5, <2>6
<1>6. CASE SanityPasses
  <2>1. /\ s_ups_bootstrap_state = "SANITY_CHECK" /\ s_ups_bootstrap_state' = "DONE"
        /\ UNCHANGED <<s_queue, s_active, s_state, s_dynamic_update_cycle_active>>
    BY <1>6 DEF SanityPasses, vars, jobVars
  <2>2. ~Busy /\ Outstanding = {}
    BY <1>0, <2>1, NotBusy
  <2> QED BY <2>1, <2>2, JobsKept
<1>7. CASE BootstrapDone
  <2>1. UNCHANGED <<s_queue, s_active, s_state, bootVars, dynVars>>
    BY <1>7 DEF BootstrapDone, Bootstrap, EngineRest
  <2> QED BY <2>1, JobsKept DEF bootVars, dynVars
<1> QED BY <1>1, <1>2, <1>3, <1>4, <1>5, <1>6, <1>7 DEF BootstrapTask

LEMMA DynamicPhased ==
  ASSUME Sound, Phased, DynamicTask
  PROVE  Phased'
<1> USE DEF Phased, ProbeStates, QuietStates, TableStates
<1>0. TypeOK /\ Plain
  BY DEF Sound, Plain
<1>1. CASE DynamicIdle
  <2>1. UNCHANGED <<s_queue, s_active, s_state, bootVars, dynVars>>
    BY <1>1 DEF DynamicIdle, Dynamic, EngineRest
  <2> QED BY <2>1, JobsKept DEF bootVars, dynVars
<1>2. CASE DynamicEnqueue
  <2>1. /\ s_ups_bootstrap_state = "DONE" /\ s_ups_bootstrap_state' = "DONE"
        /\ s_queue' = QueueAfter(DynamicLut, CycleIdx)
        /\ s_dynamic_update_idx' = CycleIdx + Accepted(DynamicLut, CycleIdx)
        /\ UNCHANGED <<s_active, s_state>>
    BY <1>2 DEF DynamicEnqueue, Dynamic, CycleRuns, EngineRest, bootVars
  <2>2. /\ Outstanding' \subseteq Outstanding \union RequestsOf(DynamicLut)
        /\ Load' = Load + Accepted(DynamicLut, CycleIdx)
    BY <1>0, <2>1, LutType, CycleIdxType, TableOutstanding DEF Sound
  <2>3. /\ Accepted(DynamicLut, CycleIdx) \in Nat
        /\ Load \in Nat /\ CycleIdx \in Nat
    BY <1>0, LutType, CycleIdxType, AcceptedFits, NotBusy DEF Sound
  <2>4. Load <= CycleIdx
    BY <1>0, <2>1, <2>3, NotBusy DEF CycleIdx
  <2>5. Outstanding' \subseteq TableRequests
    BY <2>1, <2>2 DEF TableRequests
  <2>6. Load' <= s_dynamic_update_idx' /\ s_dynamic_update_cycle_active'
    BY <1>2, <2>1, <2>2, <2>3, <2>4 DEF DynamicEnqueue
  <2> QED BY <2>1, <2>5, <2>6
<1>3. CASE DynamicDrain
  <2>1. /\ s_ups_bootstrap_state = "DONE" /\ s_ups_bootstrap_state' = "DONE"
        /\ UNCHANGED <<s_queue, s_active, s_state>>
        /\ s_dynamic_update_idx' = CycleIdx
        /\ s_dynamic_update_cycle_active' = Busy
    BY <1>3 DEF DynamicDrain, Dynamic, CycleRuns, EngineRest, bootVars
  <2>2. Busy => s_dynamic_update_cycle_active /\ CycleIdx = s_dynamic_update_idx
    BY <2>1 DEF CycleIdx
  <2> QED BY <2>1, <2>2, JobsKept
<1> QED BY <1>1, <1>2, <1>3 DEF DynamicTask

LEMMA TickPhased ==
  ASSUME Sound, Phased, TickTask
  PROVE  Phased'
<1>1. PICK n \in {Add(now, d) : d \in 0 .. MaxDrift} : BridgeTick(n)
  BY DEF TickTask, BridgeTick
<1>2. Outstanding' \subseteq Outstanding /\ Load' <= Load /\ (Busy' => Busy)
  BY <1>1, TickOutstanding DEF Sound
<1>3. TypeOK /\ TypeOK'
  BY TickSound DEF Sound, Plain
<1>4. Load \in Nat /\ Load' \in Nat
  <2>1. s_queue' \in Seq(JobType)
    BY <1>3 DEF TypeOK
  <2>2. Len(s_queue') \in Nat
    BY <2>1
  <2> QED BY <1>3, <2>2, NotBusy DEF Load
<1>5. UNCHANGED <<bootVars, dynVars>>
  BY DEF TickTask
<1>6. s_bootstrap_constant_idx \in Nat /\ s_bootstrap_dynamic_idx \in Nat
      /\ s_dynamic_update_idx \in Nat
  BY LutType DEF Sound, MainType
<1> QED BY <1>2, <1>4, <1>5, <1>6 DEF Phased, bootVars, dynVars
\* The steps that touch neither the jobs nor the main task's own variables.
LEMMA AsidePhased ==
  ASSUME Phased, UNCHANGED <<s_queue, s_active, s_state, bootVars, dynVars>>
  PROVE  Phased'
BY JobsKept DEF Phased, bootVars, dynVars

LEMMA PhasedStep ==
  ASSUME Sound, Phased, [BridgeNext]_bridgeVars
  PROVE  Phased'
<1>1. CASE LoopDelay
  BY <1>1, AsidePhased DEF LoopDelay, jobVars
<1>2. CASE Ups \/ UpsSettles
  <2>1. UNCHANGED <<vars, bootVars, dynVars>>
    BY <1>2 DEF Ups, UpsAnswers, UpsSilent, UpsSettles
  <2> QED BY <2>1, AsidePhased DEF vars, jobVars
<1>3. CASE UNCHANGED bridgeVars
  BY <1>3, AsidePhased DEF bridgeVars, vars, jobVars
<1> QED BY <1>1, <1>2, <1>3, BootstrapPhased, DynamicPhased, TickPhased
        DEF BridgeNext, MainTask

LEMMA PhasedInit == BridgeInit => Phased
<1> SUFFICES ASSUME BridgeInit PROVE Phased
  OBVIOUS
<1>1. s_queue = <<>> /\ s_state = "IDLE"
  BY DEF BridgeInit, Init
<1> QED BY <1>1 DEF BridgeInit, Phased, Busy, ProbeStates, QuietStates, TableStates

LEMMA PhasedAlways == BridgeSpec => [](Sound /\ Phased)
BY SoundInit, SoundStep, PhasedInit, PhasedStep, PTL DEF BridgeSpec

LEMMA PhasedFits ==
  ASSUME Sound, Phased
  PROVE  JobsFitPhase
<1>1. TableRequests = {ConstantLut[i] : i \in 1 .. Len(ConstantLut)} \union
                      {DynamicLut[i] : i \in 1 .. Len(DynamicLut)}
  BY DEF TableRequests, RequestsOf
<1>2. CASE s_ups_bootstrap_state = "WAIT_HEARTBEAT_DRAIN"
  BY <1>2 DEF Phased, JobsFitPhase, TelemetryStates
<1>3. CASE s_ups_bootstrap_state \in TableStates
  BY <1>1, <1>3 DEF Phased, JobsFitPhase, TableStates, TelemetryStates
<1>4. CASE s_ups_bootstrap_state \in QuietStates
  <2>1. Outstanding = {}
    BY <1>4, NotBusy DEF Phased, Sound, Plain
  <2> QED BY <1>4, <2>1 DEF JobsFitPhase, QuietStates, TelemetryStates
<1> QED BY <1>2, <1>3, <1>4
        DEF Sound, MainType, BootstrapStates, TableStates, QuietStates

LEMMA PhasedRoom ==
  ASSUME Sound, Phased
  PROVE  QueueNeverRefuses
<1> SUFFICES ASSUME Len(ConstantLut) + Len(DynamicLut) <= QueueSize
             PROVE  /\ s_ups_bootstrap_state = "ENQUEUE_HEARTBEAT" => ~QueueIsFull(s_queue)
                    /\ s_ups_bootstrap_state = "ENQUEUE_CONSTANT" =>
                         Len(s_queue) + Len(ConstantLut) - s_bootstrap_constant_idx
                           + Len(DynamicLut) - s_bootstrap_dynamic_idx <= QueueSize
                    /\ s_ups_bootstrap_state = "ENQUEUE_DYNAMIC" =>
                         Len(s_queue) + Len(DynamicLut) - s_bootstrap_dynamic_idx <= QueueSize
                    /\ s_dynamic_update_cycle_active =>
                         Len(s_queue) + Len(DynamicLut) - s_dynamic_update_idx <= QueueSize
  BY DEF QueueNeverRefuses
<1>1. /\ s_bootstrap_constant_idx \in Nat /\ s_bootstrap_dynamic_idx \in Nat
      /\ s_dynamic_update_idx \in Nat
      /\ Len(ConstantLut) \in Nat /\ Len(DynamicLut) \in Nat
      /\ QueueSize \in Nat /\ QueueSize > 0
  BY LutType, EngineAssumption DEF Sound, MainType
<1>2. s_queue \in Seq(JobType) /\ Len(s_queue) \in Nat
  BY DEF Sound, Plain, TypeOK
<1>3. Load \in Nat /\ Len(s_queue) <= Load
  BY <1>2 DEF Load
<1>4. ASSUME s_ups_bootstrap_state = "ENQUEUE_HEARTBEAT"
      PROVE  ~QueueIsFull(s_queue)
  <2>1. s_queue = <<>>
    BY <1>4 DEF Phased, QuietStates, Busy
  <2> QED BY <1>1, <2>1 DEF QueueIsFull
<1>5. ASSUME s_ups_bootstrap_state = "ENQUEUE_CONSTANT"
      PROVE  Len(s_queue) + Len(ConstantLut) - s_bootstrap_constant_idx
               + Len(DynamicLut) - s_bootstrap_dynamic_idx <= QueueSize
  <2>1. s_bootstrap_dynamic_idx = 0 /\ Load <= s_bootstrap_constant_idx
    BY <1>5 DEF Phased
  <2> QED BY <1>1, <1>2, <1>3, <2>1
<1>6. ASSUME s_ups_bootstrap_state = "ENQUEUE_DYNAMIC"
      PROVE  Len(s_queue) + Len(DynamicLut) - s_bootstrap_dynamic_idx <= QueueSize
  <2>1. Load <= s_bootstrap_constant_idx + s_bootstrap_dynamic_idx
    BY <1>6 DEF Phased
  <2>2. s_bootstrap_constant_idx <= Len(ConstantLut)
    BY DEF Sound, MainType
  <2> QED BY <1>1, <1>2, <1>3, <2>1, <2>2
<1>7. ASSUME s_dynamic_update_cycle_active
      PROVE  Len(s_queue) + Len(DynamicLut) - s_dynamic_update_idx <= QueueSize
  <2>1. Load <= s_dynamic_update_idx
    BY <1>7 DEF Phased
  <2> QED BY <1>1, <1>2, <1>3, <2>1
<1> QED BY <1>4, <1>5, <1>6, <1>7

\* Every job outstanding fits the phase of the bootstrap the main task is in: a
\* retry or a late completion never carries a request of one phase into another.
THEOREM JobsFitPhaseAlways == BridgeSpec => []JobsFitPhase
BY PhasedAlways, PhasedFits, PTL

\* With a ring as large as the two tables together a table step is never refused
\* for want of room, for whatever burst and whatever the UPS does.
THEOREM QueueNeverRefusesAlways == BridgeSpec => []QueueNeverRefuses
BY PhasedAlways, PhasedRoom, PTL

----------------------------------------------------------------------------
(* Only an answer to this round's probe identifies the UPS.                *)

\* None of these bytes is one of a good answer to the heartbeat command.
NoneGood(bytes) ==
  \A i \in 1 .. Len(bytes) : ~(bytes[i].good /\ bytes[i].cmd = HeartbeatReq.cmd)

WaitStates == {"WAIT_HEARTBEAT_DRAIN", "HEARTBEAT_VERIFY"}

\* The inductive form of IdentifiedFirst: while the UPS has not answered this
\* round's probe, nothing received since it was sent, and nothing captured,
\* passes for its answer.
Stale ==
  /\ s_state \in {"TX_WAIT", "RX_WAIT", "PROCESS"} => NoneGood(fifo)
  /\ s_state \in {"RX_WAIT", "PROCESS"} => NoneGood(s_rx_buf)
  /\ s_bootstrap_heartbeat_done =>
       s_bootstrap_heartbeat_rx # Answer(HeartbeatReq.cmd, TRUE)

Fresh ==
  /\ s_ups_bootstrap_state \in TelemetryStates => identified
  /\ s_ups_bootstrap_state \in WaitStates /\ ~identified => Stale

LEMMA BootstrapFresh ==
  ASSUME Sound, Phased, Fresh, BootstrapTask
  PROVE  Fresh'
<1> USE DEF Fresh, TelemetryStates, WaitStates
<1>1. CASE EnqueueHeartbeat
  <2>1. CASE EnqueueResult(Probe) = "OK"
    <3>1. /\ s_ups_bootstrap_state = "ENQUEUE_HEARTBEAT"
          /\ s_ups_bootstrap_state' = "WAIT_HEARTBEAT_DRAIN"
          /\ s_state' = s_state
          /\ ~s_bootstrap_heartbeat_done'
      BY <1>1, <2>1 DEF EnqueueHeartbeat, Bootstrap, EngineRest
    <3>2. s_state = "IDLE"
      BY <3>1 DEF Phased, QuietStates, Busy
    <3> QED BY <3>1, <3>2 DEF Stale
  <2>2. CASE EnqueueResult(Probe) # "OK"
    <3>1. s_ups_bootstrap_state' = "ENQUEUE_HEARTBEAT"
      BY <1>1, <2>2 DEF EnqueueHeartbeat, Bootstrap
    <3> QED BY <3>1
  <2> QED BY <2>1, <2>2
<1>2. CASE WaitHeartbeatDrain \/ WaitRetry \/ WaitDrain
  <2>1. UNCHANGED <<s_state, fifo, s_rx_buf, captureVars, identified>>
    BY <1>2 DEF WaitHeartbeatDrain, WaitRetry, WaitDrain, WaitFor, Bootstrap, EngineRest,
                lineVars
  <2>2. \/ s_ups_bootstrap_state' = s_ups_bootstrap_state
        \/ /\ s_ups_bootstrap_state = "WAIT_HEARTBEAT_DRAIN"
           /\ s_ups_bootstrap_state' = "HEARTBEAT_VERIFY"
        \/ s_ups_bootstrap_state' = "ENQUEUE_HEARTBEAT"
        \/ /\ s_ups_bootstrap_state = "WAIT_DRAIN"
           /\ s_ups_bootstrap_state' = "SANITY_CHECK"
    BY <1>2 DEF WaitHeartbeatDrain, WaitRetry, WaitDrain, WaitFor, Bootstrap
  <2>3. Stale' = Stale
    BY <2>1 DEF Stale, captureVars, NoneGood
  <2> QED BY <2>1, <2>2, <2>3
<1>3. CASE HeartbeatVerify
  <2>1. CASE MatchesExpected
    <3>1. identified
      BY <1>3, <2>1 DEF HeartbeatVerify, Bootstrap, MatchesExpected, Stale
    <3> QED BY <1>3, <3>1 DEF HeartbeatVerify
  <2>2. CASE ~MatchesExpected
    BY <1>3, <2>2 DEF HeartbeatVerify, ResetForRetry
  <2> QED BY <2>1, <2>2
<1>4. CASE SanityFails
  BY <1>4 DEF SanityFails, ResetForRetry
<1>5. CASE EnqueueConstant \/ EnqueueDynamic \/ SanityPasses \/ BootstrapDone
  BY <1>5 DEF EnqueueConstant, EnqueueDynamic, SanityPasses, BootstrapDone, Bootstrap, bootVars
<1> QED BY <1>1, <1>2, <1>3, <1>4, <1>5 DEF BootstrapTask

\* Answer(HeartbeatReq.cmd, TRUE) is made of bytes of a good answer.
LEMMA NotTheAnswer ==
  ASSUME NEW bytes, NoneGood(bytes)
  PROVE  bytes # Answer(HeartbeatReq.cmd, TRUE)
<1> SUFFICES ASSUME bytes = Answer(HeartbeatReq.cmd, TRUE) PROVE FALSE
  OBVIOUS
<1>1. bytes[1].good /\ bytes[1].cmd = HeartbeatReq.cmd
  BY DEF Answer
<1>2. 1 \in 1 .. Len(bytes)
  <2>1. Len(bytes) = 2
    BY DEF Answer
  <2>2. 1 \in 1 .. 2
    OBVIOUS
  <2> QED BY <2>1, <2>2, Zenon
<1> QED BY <1>1, <1>2, Zenon DEF NoneGood

LEMMA TickStale ==
  ASSUME Sound, Stale, NEW n, BridgeTick(n)
  PROVE  Stale'
<1> USE DEF Stale, captureVars, lineVars
<1>0. NoneGood(<<>>)
  BY DEF NoneGood
<1>1. CASE TickQuiet(n)
  <2>1. UNCHANGED <<s_rx_buf, fifo, captureVars>>
    BY <1>1 DEF TickQuiet
  <2>2. s_state' = s_state \/ s_state' = "TX_START"
    BY <1>1 DEF TickQuiet, TickGated, TickIdleEmpty, TickIdleNoLock, TickIdlePop,
                TickTxWaiting, OnlyHeartbeat
  <2> QED BY <2>1, <2>2
<1>2. CASE TickSend(n)
  <2>1. fifo' = <<>> /\ UNCHANGED captureVars
    BY <1>2 DEF TickSend, Discarded
  <2>2. s_state' \in {"TX_WAIT", "IDLE"}
    BY <1>2 DEF TickSend, TickTxStart, TickTxStartFails, JobFailure, ActiveClear
  <2> QED BY <1>0, <2>1, <2>2
<1>3. CASE TickSent(n)
  <2>1. s_state = "TX_WAIT"
    BY <1>3 DEF TickSent, TickTxDone, TickTxTimeout
  <2>2. s_rx_buf' = <<>> /\ UNCHANGED <<fifo, captureVars>>
    BY <1>3 DEF TickSent
  <2> QED BY <1>0, <2>1, <2>2
<1>4. CASE TickReceive(n)
  <2>1. RxRead(ReadLen, EndSeen) /\ s_state = "RX_WAIT" /\ UNCHANGED captureVars
    BY <1>4 DEF TickReceive, TickRxComplete, TickRxWaiting, TickRxFails, RxRead
  <2>2. NoneGood(NewBuf) /\ NoneGood(Rest)
    <3>1. NoneGood(fifo) /\ NoneGood(s_rx_buf)
      BY <2>1
    <3>2. ASSUME NEW i \in 1 .. Len(NewBuf)
          PROVE  ~(NewBuf[i].good /\ NewBuf[i].cmd = HeartbeatReq.cmd)
      <4>1. /\ ReadLen \in 0 .. Len(fifo) /\ Len(fifo) \in Nat /\ Len(s_rx_buf) \in Nat
            /\ Len(NewBuf) = Len(s_rx_buf) + ReadLen
            /\ NewBuf[i] = IF i <= Len(s_rx_buf) THEN s_rx_buf[i]
                           ELSE fifo[i - Len(s_rx_buf)]
        BY <2>1, BytesRead DEF Sound, LineType
      <4>2. CASE i <= Len(s_rx_buf)
        BY <3>1, <4>1, <4>2 DEF NoneGood
      <4>3. CASE ~(i <= Len(s_rx_buf))
        <5>1. i - Len(s_rx_buf) \in 1 .. Len(fifo)
          BY <4>1, <4>3
        <5> QED BY <3>1, <4>1, <4>3, <5>1 DEF NoneGood
      <4> QED BY <4>2, <4>3
    <3>3. ASSUME NEW i \in 1 .. Len(Rest)
          PROVE  ~(Rest[i].good /\ Rest[i].cmd = HeartbeatReq.cmd)
      <4>1. ReadLen + i \in 1 .. Len(fifo) /\ Rest[i] = fifo[ReadLen + i]
        BY <2>1, BytesRead DEF Sound
      <4> QED BY <3>1, <4>1 DEF NoneGood
    <3> QED BY <3>2, <3>3 DEF NoneGood
  <2>3. fifo' = Rest /\ (s_rx_buf' = NewBuf \/ s_rx_buf' = <<>>)
    BY <1>4 DEF TickReceive, Rest
  <2> QED BY <1>0, <2>1, <2>2, <2>3
<1>5. CASE TickProcess(n)
  <2>1. s_state = "PROCESS" /\ s_state' = "IDLE"
    BY <1>5 DEF TickProcess, TickProcessOk, TickProcessFails, JobFailure, ActiveClear
  <2>2. s_rx_buf # Answer(HeartbeatReq.cmd, TRUE)
    BY <2>1, NotTheAnswer
  <2>3. \/ s_bootstrap_heartbeat_rx' = s_rx_buf
        \/ UNCHANGED captureVars
    BY <1>5 DEF TickProcess, Capture
  <2>4. s_bootstrap_heartbeat_done' =>
          s_bootstrap_heartbeat_rx' # Answer(HeartbeatReq.cmd, TRUE)
    <3>1. CASE s_bootstrap_heartbeat_rx' = s_rx_buf
      BY <2>2, <3>1
    <3>2. CASE UNCHANGED captureVars
      BY <3>2
    <3> QED BY <2>3, <3>1, <3>2
  <2>5. s_state' \notin {"TX_WAIT", "RX_WAIT", "PROCESS"}
    BY <2>1
  <2> QED BY <2>4, <2>5
<1> QED BY <1>1, <1>2, <1>3, <1>4, <1>5 DEF BridgeTick

LEMMA UpsFresh ==
  ASSUME Sound, Fresh, Ups
  PROVE  Fresh'
<1>1. /\ s_ups_bootstrap_state' = s_ups_bootstrap_state
      /\ identified => identified'
  <2>1. \A good : UpsAnswers(good) => UNCHANGED bootVars /\ (identified => identified')
    BY DEF UpsAnswers
  <2>2. UpsSilent => UNCHANGED bootVars /\ (identified => identified')
    BY DEF UpsSilent
  <2> QED BY <2>1, <2>2 DEF Ups, bootVars
<1>2. UNCHANGED <<s_state, s_rx_buf, captureVars>>
  BY DEF Ups, UpsAnswers, UpsSilent, vars, jobVars
<1>3. ASSUME ~identified', NoneGood(fifo) PROVE NoneGood(fifo')
  <2>1. CASE UpsSilent
    BY <1>3, <2>1 DEF UpsSilent
  <2>2. ASSUME NEW good \in BOOLEAN, UpsAnswers(good) PROVE NoneGood(fifo')
    <3>1. Head(wire) \in [cmd : Cmd, at : Time]
      BY <2>2, HeadTailProperties DEF UpsAnswers, Sound, LineType
    <3> DEFINE answer == Answer(Head(wire).cmd, good)
    <3>2. answer \in Seq(Byte) /\ Len(answer) = 2
          /\ \A i \in 1 .. Len(answer) : answer[i].good = good /\ answer[i].cmd = Head(wire).cmd
      BY <3>1, AnswerType DEF Answer
    <3>3. ~(good /\ Head(wire).cmd = HeartbeatReq.cmd)
      BY <1>3, <2>2 DEF UpsAnswers
    <3>4. fifo \in Seq(Byte) /\ fifo' = fifo \o answer
      BY <2>2 DEF UpsAnswers, Sound, LineType
    <3> HIDE DEF answer
    <3>5. /\ Len(fifo \o answer) = Len(fifo) + Len(answer)
          /\ \A i \in 1 .. Len(fifo) + Len(answer) :
               (fifo \o answer)[i] = IF i <= Len(fifo) THEN fifo[i] ELSE answer[i - Len(fifo)]
      BY <3>2, <3>4, ConcatProperties
    <3>6. ASSUME NEW i \in 1 .. Len(fifo')
          PROVE  ~(fifo'[i].good /\ fifo'[i].cmd = HeartbeatReq.cmd)
      <4>1. Len(fifo) \in Nat
        BY <3>4
      <4>2. CASE i <= Len(fifo)
        BY <1>3, <3>2, <3>4, <3>5, <4>1, <4>2 DEF NoneGood
      <4>3. CASE ~(i <= Len(fifo))
        <5>1. i - Len(fifo) \in 1 .. Len(answer) /\ fifo'[i] = answer[i - Len(fifo)]
          BY <3>2, <3>4, <3>5, <4>1, <4>3
        <5> QED BY <3>2, <3>3, <5>1
      <4> QED BY <4>2, <4>3
    <3> QED BY <3>6 DEF NoneGood
  <2> QED BY <2>1, <2>2 DEF Ups
<1>4. ASSUME ~identified', Stale PROVE Stale'
  BY <1>2, <1>3, <1>4 DEF Stale, captureVars, NoneGood
<1> QED BY <1>1, <1>4 DEF Fresh

LEMMA FreshStep ==
  ASSUME Sound, Phased, Fresh, [BridgeNext]_bridgeVars
  PROVE  Fresh'
<1>1. CASE TickTask
  <2>1. PICK n \in {Add(now, d) : d \in 0 .. MaxDrift} : BridgeTick(n)
    BY <1>1 DEF TickTask, BridgeTick
  <2>2. Stale => Stale'
    BY <2>1, TickStale
  <2> QED BY <1>1, <2>2 DEF TickTask, bootVars, Fresh
<1>2. CASE DynamicTask \/ LoopDelay \/ UpsSettles \/ UNCHANGED bridgeVars
  <2>1. UNCHANGED <<s_ups_bootstrap_state, identified, s_state, fifo, s_rx_buf, captureVars>>
    BY <1>2 DEF DynamicTask, DynamicIdle, DynamicEnqueue, DynamicDrain, Dynamic, EngineRest,
                bootVars, LoopDelay, jobVars, UpsSettles, bridgeVars, vars, lineVars
  <2>2. Stale' = Stale
    BY <2>1 DEF Stale, captureVars, NoneGood
  <2> QED BY <2>1, <2>2 DEF Fresh
<1> QED BY <1>1, <1>2, BootstrapFresh, UpsFresh DEF BridgeNext, MainTask

LEMMA FreshInit == BridgeInit => Fresh
BY DEF BridgeInit, Fresh, TelemetryStates, WaitStates

\* A telemetry request of a round goes out only after the UPS has answered the
\* probe of that round: what an earlier round left in the line, in s_rx_buf or in
\* the capture never passes for the answer.
THEOREM IdentifiedFirstAlways == BridgeSpec => []IdentifiedFirst
<1>1. Fresh => IdentifiedFirst
  BY DEF Fresh, IdentifiedFirst
<1> QED BY <1>1, SoundInit, SoundStep, PhasedInit, PhasedStep, FreshInit, FreshStep, PTL
        DEF BridgeSpec
----------------------------------------------------------------------------
(* No request is queued twice.                                             *)

\* What the tables of the firmware satisfy: their requests differ pairwise.
TablesDistinct ==
  /\ \A i, j \in 1 .. Len(ConstantLut) : ConstantLut[i] = ConstantLut[j] => i = j
  /\ \A i, j \in 1 .. Len(DynamicLut) : DynamicLut[i] = DynamicLut[j] => i = j
  /\ \A i \in 1 .. Len(ConstantLut), j \in 1 .. Len(DynamicLut) :
       ConstantLut[i] # DynamicLut[j]

Distinct ==
  /\ \A i, j \in 1 .. Len(s_queue) : s_queue[i].req = s_queue[j].req => i = j
  /\ s_state # "IDLE" => \A i \in 1 .. Len(s_queue) : s_queue[i].req # s_active.req

\* The requests before an index of a table.
FirstOf(lut, idx) == {lut[i] : i \in 1 .. idx}

\* The inductive form of NoPileUp: what is outstanding was handed over in this
\* round or cycle, so that the rest of the table is not.
Apart ==
  /\ Distinct
  /\ s_ups_bootstrap_state \in {"ENQUEUE_CONSTANT", "ENQUEUE_DYNAMIC"} =>
       Outstanding \subseteq FirstOf(ConstantLut, s_bootstrap_constant_idx)
                      \union FirstOf(DynamicLut, s_bootstrap_dynamic_idx)
  /\ s_dynamic_update_cycle_active =>
       Outstanding \subseteq FirstOf(DynamicLut, s_dynamic_update_idx)

\* Nothing outstanding, nothing repeated.
LEMMA NothingRepeated ==
  ASSUME TypeOK, ~Busy
  PROVE  Distinct
<1>1. s_queue = <<>> /\ s_state = "IDLE"
  BY DEF Busy
<1>2. Len(s_queue) = 0
  BY <1>1
<1> QED BY <1>1, <1>2 DEF Distinct

LEMMA TickDistinct ==
  ASSUME Plain, Distinct, NEW n, BridgeTick(n)
  PROVE  Distinct'
<1> USE DEF Distinct
<1>1. s_queue \in Seq(JobType) /\ Len(s_queue) \in Nat
  BY DEF Plain, TypeOK
<1>2. CASE Kept
  BY <1>2 DEF Kept
<1>3. CASE Popped
  <2>1. /\ Len(Tail(s_queue)) = Len(s_queue) - 1
        /\ Head(s_queue) = s_queue[1] /\ 1 \in 1 .. Len(s_queue)
        /\ \A i \in 1 .. Len(Tail(s_queue)) :
             i + 1 \in 1 .. Len(s_queue) /\ Tail(s_queue)[i] = s_queue[i + 1]
    BY <1>1, <1>3 DEF Popped
  <2>2. ASSUME NEW i \in 1 .. Len(s_queue'), NEW j \in 1 .. Len(s_queue'),
               s_queue'[i].req = s_queue'[j].req
        PROVE  i = j
    <3>1. s_queue[i + 1].req = s_queue[j + 1].req
          /\ i + 1 \in 1 .. Len(s_queue) /\ j + 1 \in 1 .. Len(s_queue)
      BY <1>3, <2>1, <2>2 DEF Popped
    <3>2. i + 1 = j + 1
      BY <3>1
    <3> QED BY <3>2
  <2>3. ASSUME NEW i \in 1 .. Len(s_queue')
        PROVE  s_queue'[i].req # s_active'.req
    <3>1. s_queue'[i] = s_queue[i + 1] /\ i + 1 \in 1 .. Len(s_queue)
          /\ s_active' = s_queue[1] /\ i + 1 # 1
      BY <1>1, <1>3, <2>1 DEF Popped
    <3> QED BY <2>1, <3>1
  <2> QED BY <2>2, <2>3
<1>4. CASE Ended
  BY <1>4 DEF Ended
<1>5. CASE Retried
  <2>1. RetryJob \in JobType /\ RetryJob.req = s_active.req
    BY RetryJobType DEF Plain, RetryJob, NewJob
  <2>2. /\ Len(s_queue') = Len(s_queue) + 1
        /\ \A i \in 1 .. Len(s_queue) : s_queue'[i] = s_queue[i]
        /\ s_queue'[Len(s_queue) + 1] = RetryJob
    BY <1>1, <1>5, <2>1, AppendProperties DEF Retried
  <2>3. \A i \in 1 .. Len(s_queue) : s_queue[i].req # s_active.req
    BY <1>5 DEF Retried
  <2>4. ASSUME NEW i \in 1 .. Len(s_queue'), NEW j \in 1 .. Len(s_queue'),
               s_queue'[i].req = s_queue'[j].req
        PROVE  i = j
    <3>1. CASE i \in 1 .. Len(s_queue) /\ j \in 1 .. Len(s_queue)
      BY <2>2, <2>4, <3>1
    <3>2. CASE i \in 1 .. Len(s_queue) /\ j = Len(s_queue) + 1
      BY <2>1, <2>2, <2>3, <2>4, <3>2
    <3>3. CASE i = Len(s_queue) + 1 /\ j \in 1 .. Len(s_queue)
      BY <2>1, <2>2, <2>3, <2>4, <3>3
    <3> QED BY <1>1, <2>2, <3>1, <3>2, <3>3
  <2> QED BY <1>5, <2>4 DEF Retried
<1> QED BY <1>2, <1>3, <1>4, <1>5, TickEffect

\* A pass over a table whose remaining requests are not outstanding.
LEMMA TableDistinct ==
  ASSUME Plain, Distinct, NEW lut \in Seq(RequestType), NEW idx \in 0 .. Len(lut),
         s_queue' = QueueAfter(lut, idx), s_state' = s_state, s_active' = s_active,
         \A i, j \in 1 .. Len(lut) : lut[i] = lut[j] => i = j,
         \A i \in idx + 1 .. Len(lut) : lut[i] \notin Outstanding
  PROVE  /\ Distinct'
         /\ Outstanding' \subseteq Outstanding \union FirstOf(lut, idx + Accepted(lut, idx))
<1>1. TypeOK /\ s_queue \in Seq(JobType) /\ Len(s_queue) \in Nat /\ Len(lut) \in Nat
  BY DEF Plain, TypeOK
<1>2. /\ Len(s_queue') = Len(s_queue) + Accepted(lut, idx)
      /\ \A i \in 1 .. Len(s_queue') :
           s_queue'[i] = IF i <= Len(s_queue) THEN s_queue[i]
                         ELSE NewJob(lut[idx + (i - Len(s_queue))], FALSE)
  BY <1>1, QueueAfterIs
<1>3. Accepted(lut, idx) \in 0 .. Len(lut) - idx
  BY <1>1, AcceptedFits
<1>4. ASSUME NEW i \in 1 .. Len(s_queue'), i <= Len(s_queue)
      PROVE  i \in 1 .. Len(s_queue) /\ s_queue'[i] = s_queue[i]
             /\ s_queue'[i].req \in Outstanding
  <2>1. i \in 1 .. Len(s_queue)
    BY <1>1, <1>2, <1>3, <1>4
  <2>2. s_queue'[i] = s_queue[i]
    BY <1>2, <1>4
  <2> QED BY <2>1, <2>2 DEF Outstanding
<1>5. ASSUME NEW i \in 1 .. Len(s_queue'), ~(i <= Len(s_queue))
      PROVE  /\ idx + (i - Len(s_queue)) \in idx + 1 .. idx + Accepted(lut, idx)
             /\ idx + (i - Len(s_queue)) \in 1 .. Len(lut)
             /\ s_queue'[i].req = lut[idx + (i - Len(s_queue))]
             /\ s_queue'[i].req \notin Outstanding
             /\ s_queue'[i].req \in FirstOf(lut, idx + Accepted(lut, idx))
  <2>1. /\ idx + (i - Len(s_queue)) \in idx + 1 .. idx + Accepted(lut, idx)
        /\ idx + (i - Len(s_queue)) \in 1 .. Len(lut)
        /\ idx + (i - Len(s_queue)) \in idx + 1 .. Len(lut)
        /\ idx + (i - Len(s_queue)) \in 1 .. idx + Accepted(lut, idx)
    BY <1>1, <1>2, <1>3, <1>5
  <2>2. s_queue'[i].req = lut[idx + (i - Len(s_queue))]
    BY <1>2, <1>5 DEF NewJob
  <2> QED BY <2>1, <2>2 DEF FirstOf
<1>6. ASSUME NEW i \in 1 .. Len(s_queue'), NEW j \in 1 .. Len(s_queue'),
             s_queue'[i].req = s_queue'[j].req
      PROVE  i = j
  <2>1. CASE i <= Len(s_queue) /\ j <= Len(s_queue)
    BY <1>4, <1>6, <2>1 DEF Distinct
  <2>2. CASE ~(i <= Len(s_queue)) /\ ~(j <= Len(s_queue))
    <3>1. lut[idx + (i - Len(s_queue))] = lut[idx + (j - Len(s_queue))]
      BY <1>5, <1>6, <2>2
    <3>2. idx + (i - Len(s_queue)) = idx + (j - Len(s_queue))
      BY <1>5, <2>2, <3>1
    <3> QED BY <1>1, <1>2, <1>3, <3>2
  <2>3. CASE i <= Len(s_queue) /\ ~(j <= Len(s_queue))
    BY <1>4, <1>5, <1>6, <2>3
  <2>4. CASE ~(i <= Len(s_queue)) /\ j <= Len(s_queue)
    BY <1>4, <1>5, <1>6, <2>4
  <2> QED BY <2>1, <2>2, <2>3, <2>4
<1>7. ASSUME NEW i \in 1 .. Len(s_queue'), s_state # "IDLE"
      PROVE  s_queue'[i].req # s_active.req
  <2>1. s_active.req \in Outstanding
    BY <1>7 DEF Outstanding
  <2>2. CASE i <= Len(s_queue)
    BY <1>4, <1>7, <2>2 DEF Distinct
  <2>3. CASE ~(i <= Len(s_queue))
    BY <1>5, <2>1, <2>3
  <2> QED BY <2>2, <2>3
<1>8. \A r \in Outstanding' : r \in Outstanding \union FirstOf(lut, idx + Accepted(lut, idx))
  BY <1>4, <1>5 DEF Outstanding
<1>9. Distinct'
  BY <1>6, <1>7 DEF Distinct
<1> QED BY <1>8, <1>9
\* The next request of a table is not among the ones before it, nor outstanding.
LEMMA RestIsNew ==
  ASSUME NEW lut \in Seq(RequestType), NEW idx \in 0 .. Len(lut),
         \A i, j \in 1 .. Len(lut) : lut[i] = lut[j] => i = j
  PROVE  \A i \in idx + 1 .. Len(lut) : i \in 1 .. Len(lut) /\ lut[i] \notin FirstOf(lut, idx)
<1>1. Len(lut) \in Nat
  OBVIOUS
<1>2. ASSUME NEW i \in idx + 1 .. Len(lut), NEW j \in 1 .. idx
      PROVE  i \in 1 .. Len(lut) /\ j \in 1 .. Len(lut) /\ i # j
  BY <1>1
<1>3. ASSUME NEW i \in idx + 1 .. Len(lut) PROVE i \in 1 .. Len(lut)
  BY <1>1
<1> QED BY <1>2, <1>3 DEF FirstOf

LEMMA FirstGrows ==
  ASSUME NEW lut, NEW m \in Nat, NEW k \in Nat
  PROVE  FirstOf(lut, m) \subseteq FirstOf(lut, m + k)
<1>1. \A i \in 1 .. m : i \in 1 .. m + k
  OBVIOUS
<1> QED BY <1>1 DEF FirstOf

LEMMA BootstrapApart ==
  ASSUME TablesDistinct, Sound, Phased, Apart, BootstrapTask
  PROVE  Apart'
<1>0. /\ TypeOK /\ Plain /\ Distinct
      /\ ConstantLut \in Seq(RequestType) /\ DynamicLut \in Seq(RequestType)
      /\ s_bootstrap_constant_idx \in 0 .. Len(ConstantLut)
      /\ s_bootstrap_dynamic_idx \in 0 .. Len(DynamicLut)
      /\ Len(ConstantLut) \in Nat /\ Len(DynamicLut) \in Nat
  BY LutType DEF Sound, Plain, MainType, Apart
<1>1. CASE EnqueueHeartbeat /\ EnqueueResult(Probe) = "OK"
  <2>1. /\ s_ups_bootstrap_state = "ENQUEUE_HEARTBEAT"
        /\ s_ups_bootstrap_state' = "WAIT_HEARTBEAT_DRAIN"
        /\ s_queue' = Append(s_queue, NewJob(Probe, FALSE))
        /\ UNCHANGED <<s_state, dynVars>>
    BY <1>1 DEF EnqueueHeartbeat, Bootstrap, EngineRest
  <2>2. s_queue = <<>> /\ s_state = "IDLE" /\ ~s_dynamic_update_cycle_active
    BY <2>1 DEF Phased, QuietStates, Busy
  <2>3. \A i \in 1 .. Len(s_queue') : i = 1
    <3> DEFINE job == NewJob(Probe, FALSE)
    <3>1. s_queue' = <<job>>
      BY <2>1, <2>2
    <3> HIDE DEF job
    <3> QED BY <3>1
  <2>4. Distinct'
    <3>1. s_state' = "IDLE"
      BY <2>1, <2>2
    <3>2. \A i, j \in 1 .. Len(s_queue') : i = j
      BY <2>3
    <3> QED BY <3>1, <3>2 DEF Distinct
  <2> QED BY <2>1, <2>2, <2>4 DEF Apart, dynVars
<1>2. CASE \/ EnqueueHeartbeat /\ EnqueueResult(Probe) # "OK"
           \/ WaitHeartbeatDrain \/ WaitRetry \/ WaitDrain \/ SanityFails \/ SanityPasses
           \/ BootstrapDone
  <2>1. /\ UNCHANGED <<s_queue, s_active, s_state>>
        /\ UNCHANGED <<s_dynamic_update_cycle_active, s_dynamic_update_idx>>
        /\ s_ups_bootstrap_state' \notin {"ENQUEUE_CONSTANT", "ENQUEUE_DYNAMIC"}
    BY <1>2 DEF EnqueueHeartbeat, WaitHeartbeatDrain, WaitRetry, WaitDrain, WaitFor,
                SanityFails, ResetForRetry, SanityPasses, BootstrapDone, Bootstrap,
                EngineRest, vars, jobVars, bootVars, dynVars
  <2>2. Distinct'
    BY <1>0, <2>1 DEF Distinct
  <2> QED BY <2>1, <2>2, JobsKept DEF Apart
<1>3. CASE HeartbeatVerify
  <2>1. UNCHANGED <<s_queue, s_active, s_state, dynVars>>
    BY <1>3 DEF HeartbeatVerify, Bootstrap, EngineRest
  <2>2. Outstanding = {}
    BY <1>0, <1>3, NotBusy DEF HeartbeatVerify, Bootstrap, Phased, QuietStates
  <2>3. Distinct'
    BY <1>0, <2>1 DEF Distinct
  <2> QED BY <2>1, <2>2, <2>3, JobsKept DEF Apart, dynVars
<1>4. CASE EnqueueConstant
  <2> DEFINE a == Accepted(ConstantLut, s_bootstrap_constant_idx)
  <2>1. /\ s_ups_bootstrap_state = "ENQUEUE_CONSTANT"
        /\ s_queue' = QueueAfter(ConstantLut, s_bootstrap_constant_idx)
        /\ s_bootstrap_constant_idx' = s_bootstrap_constant_idx + a
        /\ s_bootstrap_dynamic_idx' = s_bootstrap_dynamic_idx
        /\ UNCHANGED <<s_active, s_state, dynVars>>
    BY <1>4 DEF EnqueueConstant, Bootstrap, EngineRest
  <2>2. a \in Nat /\ s_bootstrap_constant_idx \in Nat
    BY <1>0, AcceptedFits
  <2>3. s_bootstrap_dynamic_idx = 0 /\ ~s_dynamic_update_cycle_active
    BY <2>1 DEF Phased
  <2>4. Outstanding \subseteq FirstOf(ConstantLut, s_bootstrap_constant_idx)
    <3>1. FirstOf(DynamicLut, 0) = {}
      BY DEF FirstOf
    <3> QED BY <2>1, <2>3, <3>1 DEF Apart
  <2>5. \A i \in s_bootstrap_constant_idx + 1 .. Len(ConstantLut) :
          ConstantLut[i] \notin Outstanding
    BY <1>0, <2>4, RestIsNew DEF TablesDistinct
  <2>6. /\ Distinct'
        /\ Outstanding' \subseteq
             Outstanding \union FirstOf(ConstantLut, s_bootstrap_constant_idx + a)
    BY <1>0, <2>1, <2>5, TableDistinct DEF TablesDistinct
  <2>7. FirstOf(ConstantLut, s_bootstrap_constant_idx)
          \subseteq FirstOf(ConstantLut, s_bootstrap_constant_idx + a)
    <3> HIDE DEF a
    <3> QED BY <2>2, FirstGrows
  <2> HIDE DEF a
  <2> QED BY <2>1, <2>3, <2>4, <2>6, <2>7 DEF Apart, dynVars
<1>5. CASE EnqueueDynamic
  <2> DEFINE a == Accepted(DynamicLut, s_bootstrap_dynamic_idx)
  <2>1. /\ s_ups_bootstrap_state = "ENQUEUE_DYNAMIC"
        /\ s_queue' = QueueAfter(DynamicLut, s_bootstrap_dynamic_idx)
        /\ s_bootstrap_dynamic_idx' = s_bootstrap_dynamic_idx + a
        /\ s_bootstrap_constant_idx' = s_bootstrap_constant_idx
        /\ UNCHANGED <<s_active, s_state, dynVars>>
    BY <1>5 DEF EnqueueDynamic, Bootstrap, EngineRest
  <2>2. a \in Nat /\ s_bootstrap_dynamic_idx \in Nat
    BY <1>0, AcceptedFits
  <2>3. ~s_dynamic_update_cycle_active
    BY <2>1 DEF Phased
  <2>4. Outstanding \subseteq FirstOf(ConstantLut, s_bootstrap_constant_idx)
                       \union FirstOf(DynamicLut, s_bootstrap_dynamic_idx)
    BY <2>1 DEF Apart
  <2>5. ASSUME NEW i \in s_bootstrap_dynamic_idx + 1 .. Len(DynamicLut)
        PROVE  DynamicLut[i] \notin Outstanding
    <3>1. i \in 1 .. Len(DynamicLut)
          /\ DynamicLut[i] \notin FirstOf(DynamicLut, s_bootstrap_dynamic_idx)
      BY <1>0, RestIsNew DEF TablesDistinct
    <3>2. \A j \in 1 .. s_bootstrap_constant_idx : j \in 1 .. Len(ConstantLut)
      BY <1>0
    <3>3. DynamicLut[i] \notin FirstOf(ConstantLut, s_bootstrap_constant_idx)
      BY <3>1, <3>2 DEF TablesDistinct, FirstOf
    <3> QED BY <2>4, <3>1, <3>3
  <2>6. /\ Distinct'
        /\ Outstanding' \subseteq
             Outstanding \union FirstOf(DynamicLut, s_bootstrap_dynamic_idx + a)
    BY <1>0, <2>1, <2>5, TableDistinct DEF TablesDistinct
  <2>7. FirstOf(DynamicLut, s_bootstrap_dynamic_idx)
          \subseteq FirstOf(DynamicLut, s_bootstrap_dynamic_idx + a)
    <3> HIDE DEF a
    <3> QED BY <2>2, FirstGrows
  <2> HIDE DEF a
  <2> QED BY <2>1, <2>3, <2>4, <2>6, <2>7 DEF Apart, dynVars
<1> QED BY <1>1, <1>2, <1>3, <1>4, <1>5 DEF BootstrapTask

LEMMA DynamicApart ==
  ASSUME TablesDistinct, Sound, Phased, Apart, DynamicTask
  PROVE  Apart'
<1>0. TypeOK /\ Plain /\ Distinct /\ DynamicLut \in Seq(RequestType)
      /\ CycleIdx \in 0 .. Len(DynamicLut) /\ Len(DynamicLut) \in Nat
  BY LutType, CycleIdxType DEF Sound, Plain, Apart
<1>1. CASE DynamicIdle
  <2>1. UNCHANGED <<s_queue, s_active, s_state, bootVars, dynVars>>
    BY <1>1 DEF DynamicIdle, Dynamic, EngineRest
  <2>2. Distinct'
    BY <1>0, <2>1 DEF Distinct
  <2> QED BY <2>1, <2>2, JobsKept DEF Apart, bootVars, dynVars
<1>2. CASE DynamicEnqueue
  <2> DEFINE a == Accepted(DynamicLut, CycleIdx)
  <2>1. /\ s_ups_bootstrap_state = "DONE" /\ s_ups_bootstrap_state' = "DONE"
        /\ s_queue' = QueueAfter(DynamicLut, CycleIdx)
        /\ s_dynamic_update_idx' = CycleIdx + a
        /\ UNCHANGED <<s_active, s_state>>
    BY <1>2 DEF DynamicEnqueue, Dynamic, CycleRuns, EngineRest, bootVars
  <2>2. a \in Nat /\ CycleIdx \in Nat
    BY <1>0, AcceptedFits
  <2>3. Outstanding \subseteq FirstOf(DynamicLut, CycleIdx)
    <3>1. CASE s_dynamic_update_cycle_active
      BY <3>1 DEF Apart, CycleIdx
    <3>2. CASE ~s_dynamic_update_cycle_active
      BY <1>0, <2>1, <3>2, NotBusy DEF Phased
    <3> QED BY <3>1, <3>2
  <2>4. \A i \in CycleIdx + 1 .. Len(DynamicLut) : DynamicLut[i] \notin Outstanding
    BY <1>0, <2>3, RestIsNew DEF TablesDistinct
  <2>5. /\ Distinct'
        /\ Outstanding' \subseteq Outstanding \union FirstOf(DynamicLut, CycleIdx + a)
    BY <1>0, <2>1, <2>4, TableDistinct DEF TablesDistinct
  <2>6. FirstOf(DynamicLut, CycleIdx) \subseteq FirstOf(DynamicLut, CycleIdx + a)
    <3> HIDE DEF a
    <3> QED BY <2>2, FirstGrows
  <2> HIDE DEF a
  <2> QED BY <2>1, <2>3, <2>5, <2>6 DEF Apart
<1>3. CASE DynamicDrain
  <2>1. /\ s_ups_bootstrap_state = "DONE" /\ s_ups_bootstrap_state' = "DONE"
        /\ UNCHANGED <<s_queue, s_active, s_state>>
        /\ s_dynamic_update_idx' = CycleIdx
        /\ s_dynamic_update_cycle_active' = Busy
    BY <1>3 DEF DynamicDrain, Dynamic, CycleRuns, EngineRest, bootVars
  <2>2. Busy => s_dynamic_update_cycle_active /\ CycleIdx = s_dynamic_update_idx
    BY <2>1 DEF Phased, CycleIdx
  <2>3. Distinct'
    BY <1>0, <2>1 DEF Distinct
  <2> QED BY <2>1, <2>2, <2>3, JobsKept DEF Apart
<1> QED BY <1>1, <1>2, <1>3 DEF DynamicTask

LEMMA ApartStep ==
  ASSUME TablesDistinct, Sound, Phased, Apart, [BridgeNext]_bridgeVars
  PROVE  Apart'
<1>1. CASE TickTask
  <2>1. PICK n \in {Add(now, d) : d \in 0 .. MaxDrift} : BridgeTick(n)
    BY <1>1 DEF TickTask, BridgeTick
  <2>2. Distinct' /\ Outstanding' \subseteq Outstanding
    BY <2>1, TickDistinct, TickOutstanding DEF Sound, Apart
  <2> QED BY <1>1, <2>2 DEF TickTask, bootVars, dynVars, Apart
<1>2. CASE LoopDelay \/ Ups \/ UpsSettles \/ UNCHANGED bridgeVars
  <2>1. UNCHANGED <<s_queue, s_active, s_state, bootVars, dynVars>>
    BY <1>2 DEF LoopDelay, Ups, UpsAnswers, UpsSilent, UpsSettles, bridgeVars, vars, jobVars
  <2>2. Distinct'
    BY <2>1 DEF Distinct, Apart
  <2> QED BY <2>1, <2>2, JobsKept DEF Apart, bootVars, dynVars
<1> QED BY <1>1, <1>2, BootstrapApart, DynamicApart DEF BridgeNext, MainTask

LEMMA ApartInit == BridgeInit => Apart
<1> SUFFICES ASSUME BridgeInit PROVE Apart
  OBVIOUS
<1>1. TypeOK /\ ~Busy
  BY InitType DEF BridgeInit, Init, Busy
<1> QED BY <1>1, NothingRepeated DEF BridgeInit, Apart

LEMMA ApartNoPileUp ==
  ASSUME Apart
  PROVE  NoPileUp
BY DEF Apart, Distinct, NoPileUp

\* No request is ever in the ring twice, nor both in the ring and active: with
\* tables of different requests a refresh never starts on top of an unfinished
\* one, however slow the UPS and however often it makes the engine retry.
THEOREM NoPileUpAlways ==
  ASSUME TablesDistinct
  PROVE  BridgeSpec => []NoPileUp
<1>1. BridgeInit => Apart
  BY ApartInit
<1>2. Sound /\ Phased /\ Apart /\ [BridgeNext]_bridgeVars => Apart'
  BY ApartStep
<1> QED BY <1>1, <1>2, SoundInit, SoundStep, PhasedInit, PhasedStep, ApartNoPileUp, PTL
        DEF BridgeSpec
==============================================================================
