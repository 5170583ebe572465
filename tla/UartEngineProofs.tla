--------------------------- MODULE UartEngineProofs ---------------------------
(***************************************************************************)
(* Theorems about UartEngine, for every value of its constants: every      *)
(* clock modulus, queue size, buffer size, set of requests and of          *)
(* heartbeat configurations that satisfy the assumptions.  First its       *)
(* invariants and action properties, then that it implements JobService:   *)
(* each step of the engine is a step of the service or leaves the service  *)
(* as it is.                                                               *)
(***************************************************************************)
EXTENDS EngineRefinesService, SequenceTheorems, TLAPS

----------------------------------------------------------------------------
(* The clock and the helpers.                                               *)

\* A timestamp plus a duration is a timestamp, across the wrap.
LEMMA AddType ==
  ASSUME NEW t \in Time, NEW d \in Nat
  PROVE  Add(t, d) \in Time
BY ClockModAssumption DEF Add, Time

\* Every value the next read of the clock can return is a timestamp.
LEMMA ReadsType ==
  ASSUME TypeOK, NEW n \in Reads
  PROVE  n \in Time
<1>1. PICK d \in 0 .. MaxStall : n = Add(now, d)
  BY DEF Reads
<1>2. now \in Time /\ d \in Nat
  BY EngineAssumption DEF TypeOK
<1> QED BY <1>1, <1>2, AddType

\* The job a push writes is a job.
LEMMA NewJobType ==
  ASSUME NEW req \in RequestType, NEW hb \in BOOLEAN
  PROVE  NewJob(req, hb) \in JobType
BY EngineAssumption DEF NewJob, JobType, RequestType

LEMMA ZeroTypes ==
  /\ ZeroRequest \in RequestType
  /\ ZeroCfg \in CfgType
  /\ ZeroJob \in JobType
BY EngineAssumption
DEF ZeroRequest, ZeroCfg, ZeroJob, RequestType, CfgType, JobType

\* The request of a heartbeat configuration is a request.
LEMMA CfgReqType ==
  ASSUME NEW cfg \in CfgType
  PROVE  cfg.req \in RequestType /\ cfg.interval_ms \in Nat
BY DEF CfgType

\* The queue an iteration works on: still jobs, still within the ring.
LEMMA QueueHType ==
  ASSUME TypeOK, NEW n
  PROVE  QueueH(n) \in Seq(JobType) /\ Len(QueueH(n)) <= QueueSize
<1>1. NewJob(s_hb_cfg.req, TRUE) \in JobType
  BY NewJobType, CfgReqType DEF TypeOK
<1>2. CASE HeartbeatDue(n)
  <2>1. s_queue \in Seq(JobType) /\ Len(s_queue) \in Nat /\ QueueSize \in Nat
    BY EngineAssumption DEF TypeOK
  <2>2. Len(s_queue) < QueueSize
    BY <1>2, <2>1 DEF HeartbeatDue, QueueIsFull
  <2>3. QueueH(n) = Append(s_queue, NewJob(s_hb_cfg.req, TRUE))
    BY <1>2 DEF QueueH
  <2>4. /\ Append(s_queue, NewJob(s_hb_cfg.req, TRUE)) \in Seq(JobType)
        /\ Len(Append(s_queue, NewJob(s_hb_cfg.req, TRUE))) = Len(s_queue) + 1
    BY <1>1, <2>1, AppendProperties
  <2>5. QueueH(n) \in Seq(JobType)
    BY <2>3, <2>4
  <2>6. Len(QueueH(n)) <= QueueSize
    BY <2>1, <2>2, <2>3, <2>4
  <2> QED BY <2>5, <2>6
<1>3. CASE ~HeartbeatDue(n)
  BY <1>3 DEF QueueH, TypeOK
<1> QED BY <1>2, <1>3

\* What Iteration assigns keeps its type.
LEMMA IterationType ==
  ASSUME TypeOK, NEW n \in Time, Iteration(n)
  PROVE  /\ now' \in Time
         /\ s_hb_next_due_ms' \in Time
         /\ s_enabled' \in BOOLEAN /\ s_hb_enabled' \in BOOLEAN
         /\ s_hb_cfg' \in CfgType
<1>1. HeartbeatInterval \in Nat
  BY EngineAssumption, CfgReqType DEF HeartbeatInterval, TypeOK
<1> QED BY <1>1, AddType DEF Iteration, TypeOK

\* The loop counter stays below its bound.
LEMMA StepType ==
  ASSUME TypeOK, Progressed \/ TickEnds
  PROVE  step' \in 0 .. MaxSteps - 1
BY EngineAssumption DEF TypeOK, Progressed, TickEnds

\* A gate moved by set_not_before_ms() is a timestamp.
LEMMA NotBeforeType ==
  ASSUME NEW old \in Time, NEW cand \in Time
  PROVE  NotBefore(old, cand) \in Time
BY DEF NotBefore

\* The job pushed for another attempt is a job.
LEMMA RetryJobType ==
  ASSUME TypeOK
  PROVE  RetryJob \in JobType
<1>1. s_active.req \in RequestType /\ s_active.is_heartbeat \in BOOLEAN
      /\ s_active.tries \in 0 .. MaxTries
  BY DEF TypeOK, JobType
<1>2. NewJob(s_active.req, s_active.is_heartbeat) \in JobType
  BY <1>1, NewJobType
<1> QED BY <1>1, <1>2, EngineAssumption DEF RetryJob, JobType

\* The telemetry forced by the heartbeat monitor is telemetry.
LEMMA ForcedType == ForcedTelemetry \in TelemetryType
BY DEF ForcedTelemetry, TelemetryType

\* The heartbeat flag after maybe_enqueue_heartbeat(), and after the end of a
\* heartbeat, is Boolean.
LEMMA FlagType ==
  ASSUME NEW n
  PROVE  FlagH(n) \in BOOLEAN /\ \A flag \in BOOLEAN : FlagAfterEnd(flag) \in BOOLEAN
BY DEF FlagH, FlagAfterEnd

\* UART2_Unlock() leaves the mutex in one of its states.
LEMMA UnlockedType == Unlocked \in {"null", "free"}
BY DEF Unlocked

\* active_clear()
LEMMA ActiveClearType ==
  ASSUME TypeOK, ActiveClear
  PROVE  /\ s_state' \in States
         /\ s_active' \in JobType
         /\ s_rx_got' \in Nat
         /\ s_state_start_ms' \in Time
BY ZeroTypes DEF ActiveClear, TypeOK, States

\* The failure counter saturates at the largest uint8_t.
LEMMA FinalFailureType ==
  ASSUME TypeOK, FinalFailure
  PROVE  /\ s_hb_consecutive_failures' \in 0 .. U8Max
         /\ telemetry' \in TelemetryType
<1> DEFINE count == IF s_hb_consecutive_failures < U8Max
                    THEN s_hb_consecutive_failures + 1 ELSE s_hb_consecutive_failures
<1>1. count \in 0 .. U8Max
  BY EngineAssumption DEF TypeOK
<1>2. \/ /\ s_hb_consecutive_failures' = count
         /\ telemetry' = ForcedTelemetry \/ telemetry' = telemetry
      \/ UNCHANGED <<s_hb_consecutive_failures, telemetry>>
  BY DEF FinalFailure
<1> HIDE DEF count
<1>3. s_hb_consecutive_failures' \in 0 .. U8Max
  BY <1>1, <1>2 DEF TypeOK
<1>4. telemetry' \in TelemetryType
  BY <1>2, ForcedType DEF TypeOK
<1> QED BY <1>3, <1>4

\* A failed attempt, retried or not, leaves everything it assigns in its type;
\* the retried job finds room in the ring.
LEMMA JobFailureType ==
  ASSUME TypeOK, NEW n \in Time, NEW flag \in BOOLEAN, JobFailure(n, flag)
  PROVE  /\ s_uart_lock' \in {"null", "free"}
         /\ s_queue' \in Seq(JobType)
         /\ Len(s_queue') <= QueueSize
         /\ s_hb_queued_or_active' \in BOOLEAN
         /\ s_retry_not_before_ms' \in Time
         /\ s_hb_consecutive_failures' \in 0 .. U8Max
         /\ telemetry' \in TelemetryType
         /\ s_state' \in States
         /\ s_active' \in JobType
         /\ s_rx_got' \in Nat
         /\ s_state_start_ms' \in Time
<1> DEFINE again == s_active.retries_left > 0 /\ ~QueueIsFull(QueueH(n))
<1> DEFINE gate == IF again THEN Add(n, RetryCooldown) ELSE s_retry_not_before_ms
<1>1. s_uart_lock' \in {"null", "free"}
  BY UnlockedType DEF JobFailure
<1>2. ActiveClear
  BY DEF JobFailure
<1>3. gate \in Time /\ Add(n, InterjobCooldown) \in Time
  BY AddType, EngineAssumption DEF TypeOK
<1>4. s_retry_not_before_ms' = NotBefore(gate, Add(n, InterjobCooldown))
  BY DEF JobFailure
<1>5. s_retry_not_before_ms' \in Time
  <2> HIDE DEF gate
  <2> QED BY <1>3, <1>4, NotBeforeType
<1>6. QueueH(n) \in Seq(JobType) /\ Len(QueueH(n)) <= QueueSize
  BY QueueHType
<1>7. CASE again
  <2>1. /\ s_queue' = Append(QueueH(n), RetryJob)
        /\ s_hb_queued_or_active' = flag
        /\ UNCHANGED <<s_hb_consecutive_failures, telemetry>>
    BY <1>7 DEF JobFailure, Requeue
  <2>2. /\ Append(QueueH(n), RetryJob) \in Seq(JobType)
        /\ Len(Append(QueueH(n), RetryJob)) = Len(QueueH(n)) + 1
    BY <1>6, RetryJobType, AppendProperties
  <2>3. Len(QueueH(n)) < QueueSize
    BY <1>6, <1>7, EngineAssumption, LenProperties DEF QueueIsFull
  <2>4. Len(s_queue') <= QueueSize
    BY <1>6, <2>1, <2>2, <2>3, EngineAssumption, LenProperties
  <2>5. s_queue' \in Seq(JobType)
    BY <2>1, <2>2
  <2>6. s_hb_consecutive_failures' \in 0 .. U8Max /\ telemetry' \in TelemetryType
    BY <2>1 DEF TypeOK
  <2> QED BY <1>1, <1>2, <1>5, <2>1, <2>4, <2>5, <2>6, ActiveClearType
<1>8. CASE ~again
  <2>1. /\ s_queue' = QueueH(n)
        /\ s_hb_queued_or_active' = FlagAfterEnd(flag)
        /\ FinalFailure
    BY <1>8 DEF JobFailure
  <2>2. s_hb_queued_or_active' \in BOOLEAN
    BY <2>1, FlagType
  <2>3. s_queue' \in Seq(JobType) /\ Len(s_queue') <= QueueSize
    BY <1>6, <2>1
  <2> QED BY <1>1, <1>2, <1>5, <2>1, <2>2, <2>3, ActiveClearType, FinalFailureType
<1> QED BY <1>7, <1>8

\* An iteration that only runs the heartbeat scheduler.
LEMMA OnlyHeartbeatType ==
  ASSUME TypeOK, NEW n \in Time, OnlyHeartbeat(n)
  PROVE  /\ s_queue' \in Seq(JobType) /\ Len(s_queue') <= QueueSize
         /\ s_hb_queued_or_active' \in BOOLEAN
         /\ s_active' \in JobType /\ s_state' \in States
         /\ s_state_start_ms' \in Time /\ s_rx_got' \in Nat
         /\ telemetry' \in TelemetryType /\ s_retry_not_before_ms' \in Time
         /\ s_hb_consecutive_failures' \in 0 .. U8Max
<1>1. s_queue' = QueueH(n) /\ s_hb_queued_or_active' = FlagH(n)
  BY DEF OnlyHeartbeat
<1>2. s_queue' \in Seq(JobType) /\ Len(s_queue') <= QueueSize
  BY <1>1, QueueHType
<1>3. s_hb_queued_or_active' \in BOOLEAN
  BY <1>1, FlagType
<1> QED BY <1>2, <1>3 DEF OnlyHeartbeat, TypeOK

\* An iteration of a job under way that leaves queue and gate alone.
LEMMA JobStepType ==
  ASSUME TypeOK, NEW n \in Time, JobStep(n)
  PROVE  /\ s_queue' \in Seq(JobType) /\ Len(s_queue') <= QueueSize
         /\ s_hb_queued_or_active' \in BOOLEAN
         /\ s_active' \in JobType
         /\ telemetry' \in TelemetryType /\ s_retry_not_before_ms' \in Time
         /\ s_hb_consecutive_failures' \in 0 .. U8Max
<1>1. s_queue' = QueueH(n) /\ s_hb_queued_or_active' = FlagH(n)
  BY DEF JobStep
<1>2. s_queue' \in Seq(JobType) /\ Len(s_queue') <= QueueSize
  BY <1>1, QueueHType
<1>3. s_hb_queued_or_active' \in BOOLEAN
  BY <1>1, FlagType
<1> QED BY <1>2, <1>3 DEF JobStep, TypeOK

----------------------------------------------------------------------------
(* Type correctness, one action at a time.                                  *)

\* A callback that leaves telemetry in the fields leaves every type.
LEMMA ProcessOkType ==
  ASSUME TypeOK, NEW n \in Time, NEW reading \in TelemetryType, TickProcessOk(n, reading)
  PROVE  TypeOK'
<1>1. Iteration(n) /\ Progressed /\ ActiveClear
  BY DEF TickProcessOk
<1>2. telemetry' \in TelemetryType
  BY DEF TickProcessOk, TypeOK
<1>3. s_queue' \in Seq(JobType) /\ Len(s_queue') <= QueueSize
  BY QueueHType DEF TickProcessOk
<1>4. s_hb_consecutive_failures' \in 0 .. U8Max
  BY EngineAssumption DEF TickProcessOk, TypeOK
<1>5. s_hb_queued_or_active' \in BOOLEAN
  BY FlagType DEF TickProcessOk
<1>6. s_retry_not_before_ms' \in Time
  BY AddType, NotBeforeType, EngineAssumption DEF TickProcessOk, TypeOK
<1>7. AdaptorTypeOK'
  BY UnlockedType DEF TickProcessOk, TypeOK, AdaptorTypeOK
<1> QED BY <1>1, <1>2, <1>3, <1>4, <1>5, <1>6, <1>7, ActiveClearType, IterationType,
           StepType DEF TypeOK

LEMMA TickType ==
  ASSUME TypeOK, NEW n \in Time, Tick(n)
  PROVE  TypeOK'
<1>1. CASE TickDisabled(n)
  BY <1>1 DEF TickDisabled, TypeOK, AdaptorTypeOK, jobVars, hbVars, adaptorVars
<1>2. CASE TickGated(n)
  <2>1. Iteration(n) /\ OnlyHeartbeat(n) /\ TickEnds
    BY <1>2 DEF TickGated
  <2>2. AdaptorTypeOK'
    BY <1>2 DEF TickGated, TypeOK, AdaptorTypeOK, adaptorVars, TryLockFails, InitFails, TxDone
  <2> QED BY <2>1, <2>2, OnlyHeartbeatType, IterationType, StepType DEF TypeOK
<1>3. CASE TickIdleEmpty(n)
  <2>1. Iteration(n) /\ OnlyHeartbeat(n) /\ TickEnds
    BY <1>3 DEF TickIdleEmpty
  <2>2. AdaptorTypeOK'
    BY <1>3 DEF TickIdleEmpty, TypeOK, AdaptorTypeOK, adaptorVars, TryLockFails, InitFails, TxDone
  <2> QED BY <2>1, <2>2, OnlyHeartbeatType, IterationType, StepType DEF TypeOK
<1>4. CASE TickIdleNoLock(n)
  <2>1. Iteration(n) /\ OnlyHeartbeat(n) /\ TickEnds
    BY <1>4 DEF TickIdleNoLock
  <2>2. AdaptorTypeOK'
    BY <1>4 DEF TickIdleNoLock, TypeOK, AdaptorTypeOK, adaptorVars, TryLockFails, InitFails, TxDone
  <2> QED BY <2>1, <2>2, OnlyHeartbeatType, IterationType, StepType DEF TypeOK
<1>5. CASE TickIdlePop(n)
  <2>1. Iteration(n) /\ Progressed /\ QueueH(n) # <<>>
    BY <1>5 DEF TickIdlePop
  <2>2. QueueH(n) \in Seq(JobType) /\ Len(QueueH(n)) <= QueueSize
    BY QueueHType
  <2>3. /\ s_active' \in JobType
        /\ s_queue' \in Seq(JobType) /\ Len(s_queue') = Len(QueueH(n)) - 1
    BY <1>5, <2>1, <2>2, HeadTailProperties DEF TickIdlePop
  <2>4. Len(s_queue') <= QueueSize
    BY <2>2, <2>3, EngineAssumption, LenProperties
  <2>5. s_hb_queued_or_active' \in BOOLEAN
    BY <1>5 DEF TickIdlePop
  <2>6. AdaptorTypeOK'
    BY <1>5 DEF TickIdlePop, TryLockSucceeds, InitSucceeds, TypeOK, AdaptorTypeOK
  <2>7. s_state' \in States /\ s_state_start_ms' \in Time
    BY <1>5 DEF TickIdlePop, States
  <2>8. UNCHANGED <<s_rx_got, telemetry, s_retry_not_before_ms, s_hb_consecutive_failures>>
    BY <1>5 DEF TickIdlePop
  <2> QED BY <2>1, <2>3, <2>4, <2>5, <2>6, <2>7, <2>8, IterationType, StepType
          DEF TypeOK
<1>6. CASE TickTxStart(n)
  <2>1. Iteration(n) /\ JobStep(n) /\ (Progressed \/ TickEnds)
    BY <1>6 DEF TickTxStart
  <2>2. s_state' \in States /\ s_state_start_ms' \in Time /\ s_rx_got' \in Nat
    BY <1>6 DEF TickTxStart, States, TypeOK
  <2>3. AdaptorTypeOK'
    BY <1>6 DEF TickTxStart, TypeOK, AdaptorTypeOK, adaptorVars, SendStarted, TxDone
  <2> QED BY <2>1, <2>2, <2>3, JobStepType, IterationType, StepType DEF TypeOK
<1>7. CASE TickTxStartFails(n)
  <2>1. Iteration(n) /\ Progressed /\ JobFailure(n, FlagH(n))
    BY <1>7 DEF TickTxStartFails
  <2>2. FlagH(n) \in BOOLEAN
    BY FlagType
  <2>3. AdaptorTypeOK'
    BY <1>7, <2>1, <2>2, JobFailureType
    DEF TickTxStartFails, AdaptorTypeOK, TypeOK, SendStarted, TxDone
  <2> QED BY <2>1, <2>2, <2>3, JobFailureType, IterationType, StepType DEF TypeOK
<1>8. CASE TickTxDone(n)
  <2>1. Iteration(n) /\ JobStep(n) /\ (Progressed \/ TickEnds)
    BY <1>8 DEF TickTxDone
  <2>2. s_state' \in States /\ s_state_start_ms' \in Time /\ s_rx_got' \in Nat
    BY <1>8 DEF TickTxDone, States, TypeOK
  <2>3. AdaptorTypeOK'
    BY <1>8 DEF TickTxDone, TypeOK, AdaptorTypeOK, adaptorVars, SendStarted, TxDone
  <2> QED BY <2>1, <2>2, <2>3, JobStepType, IterationType, StepType DEF TypeOK
<1>9. CASE TickTxTimeout(n)
  <2>1. Iteration(n) /\ Progressed /\ JobFailure(n, FlagH(n))
    BY <1>9 DEF TickTxTimeout
  <2>2. FlagH(n) \in BOOLEAN
    BY FlagType
  <2>3. AdaptorTypeOK'
    BY <1>9, <2>1, <2>2, JobFailureType
    DEF TickTxTimeout, AdaptorTypeOK, TypeOK, SendStarted, TxDone
  <2> QED BY <2>1, <2>2, <2>3, JobFailureType, IterationType, StepType DEF TypeOK
<1>10. CASE TickTxWaiting(n)
  <2>1. Iteration(n) /\ OnlyHeartbeat(n) /\ TickEnds
    BY <1>10 DEF TickTxWaiting
  <2>2. AdaptorTypeOK'
    BY <1>10 DEF TickTxWaiting, TypeOK, AdaptorTypeOK, adaptorVars, TryLockFails, InitFails, TxDone
  <2> QED BY <2>1, <2>2, OnlyHeartbeatType, IterationType, StepType DEF TypeOK
<1>11. CASE TickRxNone(n)
  <2>1. Iteration(n) /\ JobStep(n) /\ (Progressed \/ TickEnds)
    BY <1>11 DEF TickRxNone
  <2>2. s_state' \in States /\ s_state_start_ms' \in Time /\ s_rx_got' \in Nat
    BY <1>11 DEF TickRxNone, States, TypeOK
  <2>3. AdaptorTypeOK'
    BY <1>11 DEF TickRxNone, TypeOK, AdaptorTypeOK, adaptorVars, SendStarted, TxDone
  <2> QED BY <2>1, <2>2, <2>3, JobStepType, IterationType, StepType DEF TypeOK
<1>12. CASE \E bytes \in 0 .. MaxExpectedLen, ends \in BOOLEAN : TickRxComplete(n, bytes, ends)
  <2>1. Iteration(n) /\ JobStep(n) /\ (Progressed \/ TickEnds)
    BY <1>12 DEF TickRxComplete
  <2>2. s_state' \in States /\ s_state_start_ms' \in Time /\ s_rx_got' \in Nat
    BY <1>12, EngineAssumption DEF TickRxComplete, States, TypeOK
  <2>3. AdaptorTypeOK'
    BY <1>12 DEF TickRxComplete, TypeOK, AdaptorTypeOK, adaptorVars, SendStarted, TxDone
  <2> QED BY <2>1, <2>2, <2>3, JobStepType, IterationType, StepType DEF TypeOK
<1>13. CASE \E bytes \in 0 .. MaxExpectedLen, ends \in BOOLEAN : TickRxFails(n, bytes, ends)
  <2>1. Iteration(n) /\ Progressed /\ JobFailure(n, FlagH(n))
    BY <1>13 DEF TickRxFails
  <2>2. FlagH(n) \in BOOLEAN
    BY FlagType
  <2>3. AdaptorTypeOK'
    BY <1>13, <2>1, <2>2, JobFailureType
    DEF TickRxFails, AdaptorTypeOK, TypeOK, SendStarted, TxDone
  <2> QED BY <2>1, <2>2, <2>3, JobFailureType, IterationType, StepType DEF TypeOK
<1>14. CASE \E bytes \in 0 .. MaxExpectedLen, ends \in BOOLEAN : TickRxWaiting(n, bytes, ends)
  <2>1. Iteration(n) /\ JobStep(n) /\ (Progressed \/ TickEnds)
    BY <1>14 DEF TickRxWaiting
  <2>2. s_state' \in States /\ s_state_start_ms' \in Time /\ s_rx_got' \in Nat
    BY <1>14, EngineAssumption DEF TickRxWaiting, States, TypeOK
  <2>3. AdaptorTypeOK'
    BY <1>14 DEF TickRxWaiting, TypeOK, AdaptorTypeOK, adaptorVars, SendStarted, TxDone
  <2> QED BY <2>1, <2>2, <2>3, JobStepType, IterationType, StepType DEF TypeOK
<1>15. CASE \E reading \in Readings \union {telemetry} : TickProcessOk(n, reading)
  <2>1. PICK reading \in Readings \union {telemetry} : TickProcessOk(n, reading)
    BY <1>15
  <2>2. reading \in TelemetryType
    BY EngineAssumption DEF TypeOK
  <2> QED BY <2>1, <2>2, ProcessOkType
<1>16. CASE TickProcessFails(n)
  <2>1. Iteration(n) /\ Progressed /\ JobFailure(n, FlagAfterEnd(FlagH(n)))
    BY <1>16 DEF TickProcessFails
  <2>2. FlagAfterEnd(FlagH(n)) \in BOOLEAN
    BY FlagType
  <2>3. AdaptorTypeOK'
    BY <1>16, <2>1, <2>2, JobFailureType
    DEF TickProcessFails, AdaptorTypeOK, TypeOK, SendStarted, TxDone
  <2> QED BY <2>1, <2>2, <2>3, JobFailureType, IterationType, StepType DEF TypeOK
<1> QED BY <1>1, <1>2, <1>3, <1>4, <1>5, <1>6, <1>7, <1>8, <1>9, <1>10, <1>11, <1>12,
           <1>13, <1>14, <1>15, <1>16 DEF Tick

LEMMA ZeroInRanges ==
  0 \in Time /\ 0 \in 0 .. U8Max /\ 0 \in 0 .. MaxSteps - 1
BY ClockModAssumption, EngineAssumption DEF Time

LEMMA InitType == Init => TypeOK
<1> SUFFICES ASSUME Init PROVE TypeOK
  OBVIOUS
<1>1. s_queue \in Seq(JobType) /\ Len(s_queue) <= QueueSize
  BY EmptySeq, EngineAssumption DEF Init
<1>2. AdaptorTypeOK
  BY DEF Init, AdaptorInit, AdaptorTypeOK
<1>3. telemetry \in TelemetryType
  BY DEF Init, InitTelemetry, TelemetryType
<1>4. s_state \in States
  BY DEF Init, States
<1> QED BY <1>1, <1>2, <1>3, <1>4, ZeroTypes, ZeroInRanges DEF Init, TypeOK

LEMMA NextType ==
  ASSUME TypeOK, [Next]_vars
  PROVE  TypeOK'
<1>1. CASE \E n \in Reads : Tick(n)
  BY <1>1, ReadsType, TickType
<1>2. CASE \E req \in Requests : Enqueue(req)
  <2>1. PICK req \in Requests : Enqueue(req)
    BY <1>2
  <2>2. NewJob(req, FALSE) \in JobType
    BY NewJobType, EngineAssumption
  <2>3. CASE EnqueueResult(req) = "OK"
    <3>1. s_queue' = Append(s_queue, NewJob(req, FALSE))
      BY <2>1, <2>3 DEF Enqueue
    <3>2. Len(s_queue) < QueueSize
      <4>1. ~(Len(s_queue) >= QueueSize)
        BY <2>3 DEF EnqueueResult, QueueIsFull
      <4>2. Len(s_queue) \in Nat /\ QueueSize \in Nat
        BY EngineAssumption, LenProperties DEF TypeOK
      <4> QED BY <4>1, <4>2
    <3>3. s_queue' \in Seq(JobType) /\ Len(s_queue') = Len(s_queue) + 1
      BY <2>2, <3>1, AppendProperties DEF TypeOK
    <3>4. Len(s_queue') <= QueueSize
      BY <3>2, <3>3, EngineAssumption, LenProperties DEF TypeOK
    <3> QED BY <2>1, <3>3, <3>4
            DEF Enqueue, TypeOK, AdaptorTypeOK, clockVars, hbVars, adaptorVars
  <2>4. CASE EnqueueResult(req) # "OK"
    BY <2>1, <2>4 DEF Enqueue, TypeOK, AdaptorTypeOK, clockVars, hbVars, adaptorVars
  <2> QED BY <2>3, <2>4
<1>3. CASE Enable
  BY <1>3 DEF Enable, TypeOK, AdaptorTypeOK, clockVars, jobVars, hbVars, adaptorVars
<1>4. CASE Disable
  <2>1. AdaptorTypeOK'
    BY <1>4, UnlockedType DEF Disable, TypeOK, AdaptorTypeOK
  <2>2. s_queue' \in Seq(JobType) /\ Len(s_queue') <= QueueSize
    BY <1>4, EmptySeq, EngineAssumption DEF Disable
  <2>3. s_state' \in States
    BY <1>4 DEF Disable, States
  <2> QED BY <1>4, <2>1, <2>2, <2>3, ZeroTypes, ZeroInRanges
          DEF Disable, TypeOK, clockVars
<1>5. CASE ClearHeartbeat
  BY <1>5, ZeroInRanges
  DEF ClearHeartbeat, TypeOK, AdaptorTypeOK, clockVars, jobVars, adaptorVars
<1>6. CASE \E cfg \in HbConfigs : RefuseHeartbeat(cfg)
  BY <1>6, EngineAssumption
  DEF RefuseHeartbeat, TypeOK, AdaptorTypeOK, clockVars, jobVars, adaptorVars
<1>7. CASE \E n \in Reads, cfg \in HbConfigs : StartHeartbeat(n, cfg)
  <2>1. PICK n \in Reads, cfg \in HbConfigs : StartHeartbeat(n, cfg)
    BY <1>7
  <2>2. s_hb_cfg' \in CfgType
    BY <2>1, EngineAssumption DEF StartHeartbeat, CfgType
  <2>3. now' \in Time /\ s_hb_next_due_ms' \in Time
    BY <2>1, ReadsType DEF StartHeartbeat
  <2> QED BY <2>1, <2>2, <2>3, ZeroInRanges
          DEF StartHeartbeat, TypeOK, AdaptorTypeOK, jobVars, adaptorVars
<1>8. CASE UNCHANGED vars
  BY <1>8 DEF vars, clockVars, jobVars, hbVars, adaptorVars, TypeOK, AdaptorTypeOK
<1> QED BY <1>1, <1>2, <1>3, <1>4, <1>5, <1>6, <1>7, <1>8 DEF Next

\* Type correctness of uart_engine.c and of the adaptor state it drives, in
\* every reachable state: in particular the job ring never holds more than
\* UART_ENGINE_QUEUE_SIZE jobs (queue_push() after a retry and
\* maybe_enqueue_heartbeat() included) and the failure counter never wraps.
THEOREM TypeCorrect == Spec => []TypeOK
<1>1. Init => TypeOK
  BY InitType
<1>2. TypeOK /\ [Next]_vars => TypeOK'
  BY NextType
<1> QED BY <1>1, <1>2, PTL DEF Spec

----------------------------------------------------------------------------
(* The disabled engine.                                                     *)

\* Every action of the engine but these runs iterations, which need s_enabled
\* and leave it alone.
LEMMA TickKeepsEnabled ==
  ASSUME NEW n, Tick(n), ~TickDisabled(n)
  PROVE  s_enabled = TRUE /\ s_enabled' = s_enabled
BY DEF Tick, Iteration, TickGated, TickIdleEmpty, TickIdleNoLock, TickIdlePop, TickTxStart,
       TickTxStartFails, TickTxDone, TickTxTimeout, TickTxWaiting, TickRxNone,
       TickRxComplete, TickRxFails, TickRxWaiting, TickProcessOk, TickProcessFails

\* What uart_engine.h promises of a disabled engine holds in every reachable
\* state: nothing queued or under way, heartbeat stopped, UART mutex released,
\* whatever is called while it is disabled.
THEOREM DisabledIsInertAlways == Spec => []DisabledIsInert
<1>1. Init => DisabledIsInert
  BY DEF Init, DisabledIsInert
<1>2. TypeOK /\ DisabledIsInert /\ [Next]_vars => DisabledIsInert'
  <2> SUFFICES ASSUME TypeOK, DisabledIsInert, [Next]_vars PROVE DisabledIsInert'
    OBVIOUS
  <2>1. CASE \E n \in Reads : Tick(n)
    <3>1. PICK n \in Reads : Tick(n)
      BY <2>1
    <3>2. CASE TickDisabled(n)
      BY <3>2 DEF TickDisabled, DisabledIsInert, Busy, jobVars, hbVars, adaptorVars
    <3>3. CASE ~TickDisabled(n)
      <4>1. s_enabled' = TRUE
        BY <3>1, <3>3, TickKeepsEnabled
      <4> QED BY <4>1 DEF DisabledIsInert
    <3> QED BY <3>2, <3>3
  <2>2. CASE \E req \in Requests : Enqueue(req)
    <3>1. PICK req \in Requests : Enqueue(req)
      BY <2>2
    <3>2. ~s_enabled => s_queue' = s_queue
      BY <3>1 DEF Enqueue, EnqueueResult
    <3> QED BY <3>1, <3>2 DEF Enqueue, DisabledIsInert, Busy, hbVars, adaptorVars
  <2>3. CASE Enable
    BY <2>3 DEF Enable, DisabledIsInert
  <2>4. CASE Disable
    BY <2>4, UnlockedType DEF Disable, DisabledIsInert, Busy
  <2>5. CASE ClearHeartbeat
    BY <2>5 DEF ClearHeartbeat, DisabledIsInert
  <2>6. CASE \E cfg \in HbConfigs : RefuseHeartbeat(cfg)
    BY <2>6 DEF RefuseHeartbeat, DisabledIsInert
  <2>7. CASE \E n \in Reads, cfg \in HbConfigs : StartHeartbeat(n, cfg)
    BY <2>7 DEF StartHeartbeat, DisabledIsInert
  <2>8. CASE UNCHANGED vars
    BY <2>8 DEF vars, jobVars, hbVars, adaptorVars, DisabledIsInert, Busy
  <2> QED BY <2>1, <2>2, <2>3, <2>4, <2>5, <2>6, <2>7, <2>8 DEF Next
<1> QED BY <1>1, <1>2, TypeCorrect, PTL DEF Spec

----------------------------------------------------------------------------
(* The UART mutex.                                                          *)

\* An iteration keeps the mutex with the job.
LEMMA TickLock ==
  ASSUME TypeOK, LockDiscipline, NEW n, Tick(n)
  PROVE  LockDiscipline'
<1> USE DEF LockDiscipline
<1>1. CASE TickDisabled(n)
  BY <1>1 DEF TickDisabled, jobVars, adaptorVars
<1>2. CASE TickGated(n) \/ TickIdleEmpty(n)
  BY <1>2 DEF TickGated, TickIdleEmpty, OnlyHeartbeat, adaptorVars
<1>3. CASE TickIdleNoLock(n)
  <2>1. UNCHANGED <<s_state, s_uart_ready, s_uart_lock>>
    BY <1>3 DEF TickIdleNoLock, OnlyHeartbeat, adaptorVars, TryLockFails, InitFails
  <2> QED BY <2>1
<1>4. CASE TickIdlePop(n)
  BY <1>4 DEF TickIdlePop, TryLockSucceeds, InitSucceeds
<1>5. CASE TickTxStart(n) \/ TickTxDone(n) \/ TickRxNone(n)
  BY <1>5 DEF TickTxStart, TickTxDone, TickRxNone, adaptorVars
<1>6. CASE TickTxWaiting(n)
  BY <1>6 DEF TickTxWaiting, OnlyHeartbeat
<1>7. CASE \E bytes \in 0 .. MaxExpectedLen, ends \in BOOLEAN :
             TickRxComplete(n, bytes, ends) \/ TickRxWaiting(n, bytes, ends)
  BY <1>7 DEF TickRxComplete, TickRxWaiting, RxRead, adaptorVars
<1>8. CASE TickTxStartFails(n) \/ TickTxTimeout(n) \/ TickProcessFails(n)
  BY <1>8 DEF TickTxStartFails, TickTxTimeout, TickProcessFails, JobFailure,
              ActiveClear, Unlocked
<1>9. CASE \E bytes \in 0 .. MaxExpectedLen, ends \in BOOLEAN : TickRxFails(n, bytes, ends)
  BY <1>9 DEF TickRxFails, RxRead, JobFailure, ActiveClear, Unlocked
<1>10. CASE \E reading \in Readings \union {telemetry} : TickProcessOk(n, reading)
  BY <1>10 DEF TickProcessOk, ActiveClear, Unlocked
<1> QED BY <1>1, <1>2, <1>3, <1>4, <1>5, <1>6, <1>7, <1>8, <1>9, <1>10 DEF Tick

\* The UART mutex is held exactly while a job is under way: every way a job can
\* end gives it back (job_finish_failure(), both branches of PROCESS, the reset
\* of a disabled engine) and no other path takes it.
THEOREM LockDisciplineAlways == Spec => []LockDiscipline
<1>1. Init => LockDiscipline
  BY DEF Init, AdaptorInit, LockDiscipline
<1>2. TypeOK /\ LockDiscipline /\ [Next]_vars => LockDiscipline'
  <2> SUFFICES ASSUME TypeOK, LockDiscipline, [Next]_vars PROVE LockDiscipline'
    OBVIOUS
  <2> USE DEF LockDiscipline
  <2>1. CASE \E n \in Reads : Tick(n)
    BY <2>1, TickLock
  <2>2. CASE \E req \in Requests : Enqueue(req)
    BY <2>2 DEF Enqueue, adaptorVars
  <2>3. CASE Enable
    BY <2>3 DEF Enable, jobVars, adaptorVars
  <2>4. CASE Disable
    BY <2>4 DEF Disable, Unlocked
  <2>5. CASE ClearHeartbeat
    BY <2>5 DEF ClearHeartbeat, jobVars, adaptorVars
  <2>6. CASE \E cfg \in HbConfigs : RefuseHeartbeat(cfg)
    BY <2>6 DEF RefuseHeartbeat, jobVars, adaptorVars
  <2>7. CASE \E n \in Reads, cfg \in HbConfigs : StartHeartbeat(n, cfg)
    BY <2>7 DEF StartHeartbeat, jobVars, adaptorVars
  <2>8. CASE UNCHANGED vars
    BY <2>8 DEF vars, jobVars, adaptorVars
  <2> QED BY <2>1, <2>2, <2>3, <2>4, <2>5, <2>6, <2>7, <2>8 DEF Next
<1> QED BY <1>1, <1>2, TypeCorrect, PTL DEF Spec

----------------------------------------------------------------------------
(* The receive buffer.                                                      *)

\* Every job of a queue passed request_is_valid().
ValidJobs(q) == \A i \in 1 .. Len(q) : RequestIsValid(q[i].req)

\* CaptureInBounds and ProcessesWholeReply are not inductive by themselves: a
\* new attempt must also begin with an empty capture.
CaptureInv ==
  /\ CaptureInBounds
  /\ ProcessesWholeReply
  /\ s_state \in {"IDLE", "TX_START", "TX_WAIT"} => s_rx_got = 0

\* A request the engine accepted never asks for more than s_rx_buf holds.
LEMMA RxCapBound ==
  ASSUME NEW req \in RequestType
  PROVE  RxCap(req) \in Nat /\ (RequestIsValid(req) => RxCap(req) <= MaxExpectedLen)
BY EngineAssumption DEF RequestType, RequestIsValid, RxCap

LEMMA NoCapture == RxCap(ZeroJob.req) = 0
BY DEF RxCap, ZeroJob, ZeroRequest

\* Appending a valid job keeps a queue valid.
LEMMA AppendValid ==
  ASSUME NEW q \in Seq(JobType), ValidJobs(q), NEW job \in JobType, RequestIsValid(job.req)
  PROVE  ValidJobs(Append(q, job))
<1>1. /\ Len(Append(q, job)) = Len(q) + 1
      /\ \A i \in 1 .. Len(q) : Append(q, job)[i] = q[i]
      /\ Append(q, job)[Len(q) + 1] = job
  BY AppendProperties
<1>2. SUFFICES ASSUME NEW i \in 1 .. Len(q) + 1
               PROVE  RequestIsValid(Append(q, job)[i].req)
  BY <1>1 DEF ValidJobs
<1>3. i \in 1 .. Len(q) \/ i = Len(q) + 1
  BY LenProperties
<1> QED BY <1>1, <1>3 DEF ValidJobs

\* The heartbeat is only scheduled with a valid request.
LEMMA QueueHValid ==
  ASSUME TypeOK, CaptureInBounds, NEW n
  PROVE  ValidJobs(QueueH(n))
<1>1. ValidJobs(s_queue)
  BY DEF CaptureInBounds, ValidJobs
<1>2. CASE HeartbeatDue(n)
  <2>1. NewJob(s_hb_cfg.req, TRUE) \in JobType
    BY NewJobType, CfgReqType DEF TypeOK
  <2>2. RequestIsValid(NewJob(s_hb_cfg.req, TRUE).req)
    BY <1>2 DEF HeartbeatDue, CaptureInBounds, NewJob
  <2>3. QueueH(n) = Append(s_queue, NewJob(s_hb_cfg.req, TRUE))
    BY <1>2 DEF QueueH
  <2>4. s_queue \in Seq(JobType)
    BY DEF TypeOK
  <2> QED BY <1>1, <2>1, <2>2, <2>3, <2>4, AppendValid
<1>3. CASE ~HeartbeatDue(n)
  BY <1>1, <1>3 DEF QueueH
<1> QED BY <1>2, <1>3

\* An iteration that ends in IDLE with a valid queue and a cleared job.
LEMMA ClearedCapture ==
  ASSUME CaptureInBounds, ActiveClear, ValidJobs(s_queue)',
         s_hb_enabled' = s_hb_enabled, s_hb_cfg' = s_hb_cfg
  PROVE  CaptureInv'
<1>1. s_state' = "IDLE" /\ s_rx_got' = 0 /\ s_active' = ZeroJob
  BY DEF ActiveClear
<1>2. RxCap(s_active.req)' = 0
  BY <1>1, NoCapture
<1>3. CaptureInBounds'
  BY <1>1, <1>2, EngineAssumption DEF CaptureInBounds, ValidJobs
<1> QED BY <1>1, <1>3 DEF CaptureInv, ProcessesWholeReply

\* A failed attempt: the job put back is valid because the active one was.
LEMMA JobFailureCapture ==
  ASSUME TypeOK, CaptureInBounds, s_state # "IDLE", NEW n, NEW flag,
         Iteration(n), JobFailure(n, flag)
  PROVE  CaptureInv'
<1>1. ActiveClear /\ s_hb_enabled' = s_hb_enabled /\ s_hb_cfg' = s_hb_cfg
  BY DEF JobFailure, Iteration
<1>2. ValidJobs(QueueH(n)) /\ QueueH(n) \in Seq(JobType)
  BY QueueHValid, QueueHType
<1>3. RetryJob \in JobType /\ RequestIsValid(RetryJob.req)
  BY RetryJobType DEF CaptureInBounds, RetryJob, NewJob
<1>4. ValidJobs(Requeue(QueueH(n)))
  BY <1>2, <1>3, AppendValid DEF Requeue
<1>5. s_queue' = QueueH(n) \/ s_queue' = Requeue(QueueH(n))
  BY DEF JobFailure
<1>6. ValidJobs(s_queue)'
  BY <1>2, <1>4, <1>5
<1> QED BY <1>1, <1>6, ClearedCapture

\* An iteration that keeps the active job and stays within its capture.
LEMMA KeptCapture ==
  ASSUME TypeOK, CaptureInBounds, NEW n, Iteration(n), s_queue' = QueueH(n),
         s_active' = s_active, s_state = "IDLE" => s_state' = "IDLE",
         s_rx_got' \in 0 .. RxCap(s_active.req),
         s_rx_got' <= MaxExpectedLen
  PROVE  CaptureInBounds'
<1>1. ValidJobs(s_queue)'
  BY QueueHValid
<1>2. s_hb_enabled' = s_hb_enabled /\ s_hb_cfg' = s_hb_cfg
  BY DEF Iteration
<1>3. RxCap(s_active.req) \in Nat
  BY RxCapBound DEF TypeOK, JobType
<1> QED BY <1>1, <1>2, <1>3 DEF CaptureInBounds, ValidJobs

LEMMA ZeroCapture ==
  ASSUME TypeOK
  PROVE  0 \in 0 .. RxCap(s_active.req) /\ 0 <= MaxExpectedLen
BY RxCapBound, EngineAssumption DEF TypeOK, JobType

\* What UART2_Read() appends fits the capture.
LEMMA ReadFits ==
  ASSUME TypeOK, CaptureInBounds, NEW bytes, NEW ends, RxRead(bytes, ends)
  PROVE  /\ s_rx_got + bytes \in 0 .. RxCap(s_active.req)
         /\ s_rx_got + bytes <= MaxExpectedLen
         /\ bytes \in Nat
<1>1. RxCap(s_active.req) \in Nat /\ RxCap(s_active.req) <= MaxExpectedLen
  BY RxCapBound DEF TypeOK, JobType, RxRead, CaptureInBounds
<1>2. bytes \in 0 .. (RxCap(s_active.req) - s_rx_got)
  BY DEF RxRead
<1> QED BY <1>1, <1>2, EngineAssumption DEF TypeOK

\* Whatever the callback leaves in the fields, the capture is cleared.
LEMMA ProcessOkCapture ==
  ASSUME TypeOK, CaptureInBounds, NEW n, NEW reading, TickProcessOk(n, reading)
  PROVE  CaptureInv'
<1>1. Iteration(n) /\ ActiveClear /\ s_queue' = QueueH(n)
  BY DEF TickProcessOk
<1>2. ValidJobs(s_queue)'
  BY <1>1, QueueHValid
<1> QED BY <1>1, <1>2, ClearedCapture DEF Iteration

LEMMA TickCapture ==
  ASSUME TypeOK, CaptureInv, NEW n, Tick(n)
  PROVE  CaptureInv'
<1>. CaptureInBounds
  BY DEF CaptureInv
<1>1. CASE TickDisabled(n)
  BY <1>1 DEF TickDisabled, jobVars, hbVars, CaptureInv, CaptureInBounds, ProcessesWholeReply
<1>2. CASE TickGated(n) \/ TickIdleEmpty(n) \/ TickIdleNoLock(n) \/ TickTxWaiting(n)
  <2>1. Iteration(n) /\ OnlyHeartbeat(n)
    BY <1>2 DEF TickGated, TickIdleEmpty, TickIdleNoLock, TickTxWaiting
  <2>2. s_rx_got \in 0 .. RxCap(s_active.req)
    BY RxCapBound DEF CaptureInBounds, TypeOK, JobType
  <2>3. CaptureInBounds'
    BY <2>1, <2>2, KeptCapture DEF OnlyHeartbeat, CaptureInBounds
  <2> QED BY <2>1, <2>3 DEF OnlyHeartbeat, CaptureInv, ProcessesWholeReply
<1>3. CASE TickIdlePop(n)
  <2>1. /\ s_active' = Head(QueueH(n)) /\ s_queue' = Tail(QueueH(n))
        /\ QueueH(n) # <<>> /\ s_state' = "TX_START" /\ s_rx_got' = 0
        /\ Iteration(n)
    BY <1>3 DEF TickIdlePop, CaptureInv
  <2>2. QueueH(n) \in Seq(JobType) /\ ValidJobs(QueueH(n))
    BY QueueHType, QueueHValid
  <2>3. Len(QueueH(n)) \in Nat \ {0} /\ Head(QueueH(n)) = QueueH(n)[1]
    BY <2>1, <2>2, EmptySeq
  <2>4. s_active' \in JobType /\ RequestIsValid(s_active'.req)
    BY <2>1, <2>2, <2>3, HeadTailProperties DEF ValidJobs
  <2>5. ValidJobs(s_queue)'
    <3>1. /\ Len(s_queue') = Len(QueueH(n)) - 1
          /\ \A i \in 1 .. Len(s_queue') : s_queue'[i] = QueueH(n)[i + 1]
      BY <2>1, <2>2, HeadTailProperties
    <3> QED BY <2>2, <2>3, <3>1 DEF ValidJobs
  <2>6. RxCap(s_active'.req) \in Nat
    BY <2>4, RxCapBound DEF JobType
  <2>7. s_hb_enabled' = s_hb_enabled /\ s_hb_cfg' = s_hb_cfg
    BY <2>1 DEF Iteration
  <2>8. RequestIsValid(s_active.req)' /\ s_rx_got' <= RxCap(s_active.req)'
        /\ s_rx_got' <= MaxExpectedLen
    BY <2>1, <2>4, <2>6, EngineAssumption
  <2> QED BY <2>1, <2>5, <2>7, <2>8
          DEF CaptureInv, CaptureInBounds, ProcessesWholeReply, ValidJobs
<1>4. CASE TickTxStart(n) \/ TickTxDone(n)
  <2>1. /\ Iteration(n) /\ JobStep(n) /\ s_state # "IDLE" /\ s_rx_got' = 0
        /\ s_state' \in {"TX_WAIT", "RX_WAIT"}
    BY <1>4 DEF TickTxStart, TickTxDone, CaptureInv
  <2>2. CaptureInBounds'
    BY <2>1, KeptCapture, ZeroCapture DEF JobStep
  <2> QED BY <2>1, <2>2 DEF CaptureInv, ProcessesWholeReply
<1>5. CASE TickRxNone(n)
  <2>1. /\ Iteration(n) /\ JobStep(n) /\ s_state = "RX_WAIT" /\ s_state' = "PROCESS"
        /\ s_rx_got' = s_rx_got /\ RxCap(s_active.req) = 0
    BY <1>5 DEF TickRxNone
  <2>2. s_rx_got = 0
    BY <2>1 DEF CaptureInBounds, TypeOK
  <2>3. CaptureInBounds'
    BY <2>1, <2>2, KeptCapture, ZeroCapture DEF JobStep
  <2>4. ~s_active.req.expected_ending /\ s_active.req.expected_len = 0
    BY <2>1, EngineAssumption
    DEF RxCap, RequestIsValid, CaptureInBounds, TypeOK, JobType, RequestType
  <2> QED BY <2>1, <2>2, <2>3, <2>4 DEF JobStep, CaptureInv, ProcessesWholeReply
<1>6. CASE \E bytes \in 0 .. MaxExpectedLen, ends \in BOOLEAN : TickRxComplete(n, bytes, ends)
  <2>1. PICK bytes \in 0 .. MaxExpectedLen, ends \in BOOLEAN : TickRxComplete(n, bytes, ends)
    BY <1>6
  <2>2. /\ Iteration(n) /\ JobStep(n) /\ s_state = "RX_WAIT" /\ s_state' = "PROCESS"
        /\ s_rx_got' = s_rx_got + bytes
        /\ RxRead(bytes, ends) /\ RxComplete(bytes, ends)
    BY <2>1 DEF TickRxComplete, RxRead
  <2>3. /\ s_rx_got' \in 0 .. RxCap(s_active.req)
        /\ s_rx_got' <= MaxExpectedLen
    BY <2>2, ReadFits
  <2>4. CaptureInBounds'
    BY <2>2, <2>3, KeptCapture DEF JobStep
  <2>5. CASE s_active.req.expected_ending
    <3>1. bytes > 0 /\ s_rx_got' >= s_active.req.expected_ending_len
      BY <2>2, <2>5 DEF RxRead, RxComplete
    <3>2. s_rx_got' > 0
      BY <2>2, <3>1 DEF TypeOK
    <3> QED BY <2>2, <2>4, <2>5, <3>1, <3>2 DEF JobStep, CaptureInv, ProcessesWholeReply
  <2>6. CASE ~s_active.req.expected_ending
    <3>1. RxCap(s_active.req) = s_active.req.expected_len /\ RxCap(s_active.req) \in Nat
      BY <2>6, RxCapBound DEF RxCap, TypeOK, JobType
    <3>2. s_rx_got' = s_active.req.expected_len
      BY <2>2, <2>3, <2>6, <3>1 DEF RxComplete
    <3> QED BY <2>2, <2>4, <2>6, <3>2 DEF JobStep, CaptureInv, ProcessesWholeReply
  <2> QED BY <2>5, <2>6
<1>7. CASE \E bytes \in 0 .. MaxExpectedLen, ends \in BOOLEAN : TickRxWaiting(n, bytes, ends)
  <2>1. PICK bytes \in 0 .. MaxExpectedLen, ends \in BOOLEAN : TickRxWaiting(n, bytes, ends)
    BY <1>7
  <2>2. /\ Iteration(n) /\ JobStep(n) /\ s_state = "RX_WAIT" /\ s_state' = "RX_WAIT"
        /\ s_rx_got' = s_rx_got + bytes /\ RxRead(bytes, ends)
    BY <2>1 DEF TickRxWaiting, RxRead
  <2>3. /\ s_rx_got' \in 0 .. RxCap(s_active.req)
        /\ s_rx_got' <= MaxExpectedLen
    BY <2>2, ReadFits
  <2>4. CaptureInBounds'
    BY <2>2, <2>3, KeptCapture DEF JobStep
  <2> QED BY <2>2, <2>4 DEF CaptureInv, ProcessesWholeReply
<1>8. CASE TickTxStartFails(n) \/ TickTxTimeout(n) \/ TickProcessFails(n)
  <2>1. Iteration(n) /\ s_state # "IDLE"
        /\ \E flag \in {FlagH(n), FlagAfterEnd(FlagH(n))} : JobFailure(n, flag)
    BY <1>8 DEF TickTxStartFails, TickTxTimeout, TickProcessFails
  <2> QED BY <2>1, JobFailureCapture
<1>9. CASE \E bytes \in 0 .. MaxExpectedLen, ends \in BOOLEAN : TickRxFails(n, bytes, ends)
  <2>1. Iteration(n) /\ s_state # "IDLE" /\ JobFailure(n, FlagH(n))
    BY <1>9 DEF TickRxFails, RxRead
  <2> QED BY <2>1, JobFailureCapture
<1>10. CASE \E reading \in Readings \union {telemetry} : TickProcessOk(n, reading)
  BY <1>10, ProcessOkCapture
<1> QED BY <1>1, <1>2, <1>3, <1>4, <1>5, <1>6, <1>7, <1>8, <1>9, <1>10 DEF Tick

LEMMA NextCapture ==
  ASSUME TypeOK, CaptureInv, [Next]_vars
  PROVE  CaptureInv'
<1> USE DEF CaptureInv, CaptureInBounds, ProcessesWholeReply
<1>1. CASE \E n \in Reads : Tick(n)
  BY <1>1, TickCapture
<1>2. CASE \E req \in Requests : Enqueue(req)
  <2>1. PICK req \in Requests : Enqueue(req)
    BY <1>2
  <2>2. CASE EnqueueResult(req) = "OK"
    <3>1. s_queue' = Append(s_queue, NewJob(req, FALSE))
      BY <2>1, <2>2 DEF Enqueue
    <3>2. /\ RequestIsValid(NewJob(req, FALSE).req)
          /\ NewJob(req, FALSE) \in JobType /\ s_queue \in Seq(JobType)
      BY <2>2, NewJobType, EngineAssumption DEF EnqueueResult, NewJob, TypeOK
    <3>3. ValidJobs(s_queue)'
      <4>1. ValidJobs(s_queue)
        BY DEF ValidJobs
      <4> QED BY <3>1, <3>2, <4>1, AppendValid
    <3> QED BY <2>1, <3>3 DEF Enqueue, ValidJobs, hbVars
  <2>3. CASE EnqueueResult(req) # "OK"
    BY <2>1, <2>3 DEF Enqueue, hbVars
  <2> QED BY <2>2, <2>3
<1>3. CASE Enable
  BY <1>3 DEF Enable, jobVars, hbVars
<1>4. CASE Disable
  BY <1>4, NoCapture, EngineAssumption DEF Disable
<1>5. CASE ClearHeartbeat
  BY <1>5 DEF ClearHeartbeat, jobVars
<1>6. CASE \E cfg \in HbConfigs : RefuseHeartbeat(cfg)
  BY <1>6 DEF RefuseHeartbeat, jobVars
<1>7. CASE \E n \in Reads, cfg \in HbConfigs : StartHeartbeat(n, cfg)
  <2>1. PICK n \in Reads, cfg \in HbConfigs : StartHeartbeat(n, cfg)
    BY <1>7
  <2>2. RequestIsValid(s_hb_cfg.req)'
    BY <2>1, EngineAssumption DEF StartHeartbeat, CfgType
  <2> QED BY <2>1, <2>2 DEF StartHeartbeat, jobVars
<1>8. CASE UNCHANGED vars
  BY <1>8 DEF vars, jobVars, hbVars
<1> QED BY <1>1, <1>2, <1>3, <1>4, <1>5, <1>6, <1>7, <1>8 DEF Next

LEMMA CaptureInvAlways == Spec => []CaptureInv
<1>1. Init => CaptureInv
  BY NoCapture, EngineAssumption
  DEF Init, CaptureInv, CaptureInBounds, ProcessesWholeReply
<1>2. TypeOK /\ CaptureInv /\ [Next]_vars => CaptureInv'
  BY NextCapture
<1> QED BY <1>1, <1>2, TypeCorrect, PTL DEF Spec

\* No reply is ever written past the end of s_rx_buf, for any buffer size and
\* any request: the check made once, when a request is enqueued or configured as
\* heartbeat, covers every attempt and retry.
THEOREM CaptureInBoundsAlways == Spec => []CaptureInBounds
<1>1. CaptureInv => CaptureInBounds
  BY DEF CaptureInv
<1> QED BY <1>1, CaptureInvAlways, PTL

\* The process callback only ever sees a reply of the length its request asks
\* for, or one that ends with the terminator it asks for.
THEOREM ProcessesWholeReplyAlways == Spec => []ProcessesWholeReply
<1>1. CaptureInv => ProcessesWholeReply
  BY DEF CaptureInv
<1> QED BY <1>1, CaptureInvAlways, PTL

----------------------------------------------------------------------------
(* The heartbeat monitor.                                                   *)

HeartbeatIn(q) == \E i \in 1 .. Len(q) : q[i].is_heartbeat

LEMMA AppendHeartbeat ==
  ASSUME NEW q \in Seq(JobType), NEW job \in JobType,
         HeartbeatIn(q) \/ job.is_heartbeat
  PROVE  HeartbeatIn(Append(q, job))
<1>1. /\ Len(Append(q, job)) = Len(q) + 1 /\ Len(q) \in Nat
      /\ \A i \in 1 .. Len(q) : Append(q, job)[i] = q[i]
      /\ Append(q, job)[Len(q) + 1] = job
  BY AppendProperties, LenProperties
<1>2. CASE HeartbeatIn(q)
  <2>1. PICK i \in 1 .. Len(q) : q[i].is_heartbeat
    BY <1>2 DEF HeartbeatIn
  <2>2. i \in 1 .. Len(Append(q, job)) /\ Append(q, job)[i].is_heartbeat
    BY <1>1, <2>1
  <2> QED BY <2>2 DEF HeartbeatIn
<1>3. CASE job.is_heartbeat
  <2>1. Len(q) + 1 \in 1 .. Len(Append(q, job))
        /\ Append(q, job)[Len(q) + 1].is_heartbeat
    BY <1>1, <1>3
  <2> QED BY <2>1 DEF HeartbeatIn
<1> QED BY <1>2, <1>3

\* After maybe_enqueue_heartbeat() the flag still tells the truth.
LEMMA FlagHTrue ==
  ASSUME TypeOK, HeartbeatNeverWedged, NEW n, FlagH(n)
  PROVE  (s_state # "IDLE" /\ s_active.is_heartbeat) \/ HeartbeatIn(QueueH(n))
<1>1. CASE HeartbeatDue(n)
  <2>1. QueueH(n) = Append(s_queue, NewJob(s_hb_cfg.req, TRUE)) /\ s_queue \in Seq(JobType)
    BY <1>1 DEF QueueH, TypeOK
  <2>2. NewJob(s_hb_cfg.req, TRUE) \in JobType /\ NewJob(s_hb_cfg.req, TRUE).is_heartbeat
    BY NewJobType, CfgReqType DEF TypeOK, NewJob
  <2> QED BY <2>1, <2>2, AppendHeartbeat
<1>2. CASE ~HeartbeatDue(n)
  BY <1>2 DEF FlagH, QueueH, HeartbeatNeverWedged, HeartbeatIn
<1> QED BY <1>1, <1>2

\* A failed attempt: retried, the heartbeat is back in the queue; otherwise the
\* flag goes down with it.
LEMMA JobFailureFlag ==
  ASSUME TypeOK, HeartbeatNeverWedged, NEW n, NEW flag,
         flag => FlagH(n), JobFailure(n, flag), s_hb_queued_or_active'
  PROVE  HeartbeatIn(s_queue)'
<1> DEFINE again == s_active.retries_left > 0 /\ ~QueueIsFull(QueueH(n))
<1>1. QueueH(n) \in Seq(JobType) /\ RetryJob \in JobType
  BY QueueHType, RetryJobType
<1>2. RetryJob.is_heartbeat = s_active.is_heartbeat
  BY DEF RetryJob, NewJob
<1>3. CASE again
  <2>1. s_queue' = Append(QueueH(n), RetryJob) /\ s_hb_queued_or_active' = flag
    BY <1>3 DEF JobFailure, Requeue
  <2>2. FlagH(n)
    BY <2>1
  <2>3. HeartbeatIn(QueueH(n)) \/ RetryJob.is_heartbeat
    BY <1>2, <2>2, FlagHTrue
  <2> QED BY <1>1, <2>1, <2>3, AppendHeartbeat
<1>4. CASE ~again
  <2>1. s_queue' = QueueH(n) /\ s_hb_queued_or_active' = FlagAfterEnd(flag)
    BY <1>4 DEF JobFailure
  <2>2. FlagH(n) /\ ~s_active.is_heartbeat
    BY <2>1 DEF FlagAfterEnd
  <2>3. HeartbeatIn(QueueH(n))
    BY <2>2, FlagHTrue
  <2> QED BY <2>1, <2>3
<1> QED BY <1>3, <1>4

LEMMA TickFlag ==
  ASSUME TypeOK, HeartbeatNeverWedged, NEW n, Tick(n)
  PROVE  HeartbeatNeverWedged'
<1> SUFFICES ASSUME s_hb_queued_or_active'
             PROVE  \/ s_state' # "IDLE" /\ s_active'.is_heartbeat
                    \/ HeartbeatIn(s_queue)'
  BY DEF HeartbeatNeverWedged, HeartbeatIn
<1>1. CASE TickDisabled(n)
  BY <1>1 DEF TickDisabled, jobVars, hbVars, HeartbeatNeverWedged, HeartbeatIn
<1>2. CASE TickGated(n) \/ TickIdleEmpty(n) \/ TickIdleNoLock(n) \/ TickTxWaiting(n)
  <2>1. OnlyHeartbeat(n)
    BY <1>2 DEF TickGated, TickIdleEmpty, TickIdleNoLock, TickTxWaiting
  <2> QED BY <2>1, FlagHTrue DEF OnlyHeartbeat
<1>3. CASE TickIdlePop(n)
  <2>1. /\ s_active' = Head(QueueH(n)) /\ s_queue' = Tail(QueueH(n))
        /\ QueueH(n) # <<>> /\ s_state = "IDLE" /\ s_state' = "TX_START"
        /\ FlagH(n) \/ s_active'.is_heartbeat
    BY <1>3 DEF TickIdlePop
  <2>2. CASE s_active'.is_heartbeat
    BY <2>1, <2>2
  <2>3. CASE ~s_active'.is_heartbeat
    <3>1. HeartbeatIn(QueueH(n))
      BY <2>1, <2>3, FlagHTrue
    <3>2. PICK i \in 1 .. Len(QueueH(n)) : QueueH(n)[i].is_heartbeat
      BY <3>1 DEF HeartbeatIn
    <3>3. QueueH(n) \in Seq(JobType) /\ Len(QueueH(n)) \in Nat
      BY QueueHType, LenProperties
    <3>4. i # 1
      BY <2>1, <2>3, <3>2, <3>3
    <3>5. /\ Len(s_queue') = Len(QueueH(n)) - 1
          /\ \A j \in 1 .. Len(s_queue') : s_queue'[j] = QueueH(n)[j + 1]
      BY <2>1, <3>3, HeadTailProperties
    <3>6. i - 1 \in 1 .. Len(s_queue') /\ s_queue'[i - 1] = QueueH(n)[i]
      BY <3>3, <3>4, <3>5
    <3> QED BY <3>2, <3>6 DEF HeartbeatIn
  <2> QED BY <2>2, <2>3
<1>4. CASE TickTxStart(n) \/ TickTxDone(n) \/ TickRxNone(n)
  <2>1. JobStep(n) /\ s_state # "IDLE" /\ s_state' # "IDLE"
    BY <1>4 DEF TickTxStart, TickTxDone, TickRxNone
  <2> QED BY <2>1, FlagHTrue DEF JobStep
<1>5. CASE \E bytes \in 0 .. MaxExpectedLen, ends \in BOOLEAN :
             TickRxComplete(n, bytes, ends) \/ TickRxWaiting(n, bytes, ends)
  <2>1. JobStep(n) /\ s_state # "IDLE" /\ s_state' # "IDLE"
    BY <1>5 DEF TickRxComplete, TickRxWaiting, RxRead
  <2> QED BY <2>1, FlagHTrue DEF JobStep
<1>6. CASE TickTxStartFails(n) \/ TickTxTimeout(n) \/ TickProcessFails(n)
  <2>1. \E flag \in {FlagH(n), FlagAfterEnd(FlagH(n))} : JobFailure(n, flag)
    BY <1>6 DEF TickTxStartFails, TickTxTimeout, TickProcessFails
  <2>2. FlagAfterEnd(FlagH(n)) => FlagH(n)
    BY DEF FlagAfterEnd
  <2> QED BY <2>1, <2>2, JobFailureFlag
<1>7. CASE \E bytes \in 0 .. MaxExpectedLen, ends \in BOOLEAN : TickRxFails(n, bytes, ends)
  <2>1. JobFailure(n, FlagH(n))
    BY <1>7 DEF TickRxFails
  <2> QED BY <2>1, JobFailureFlag
<1>8. CASE \E reading \in Readings \union {telemetry} : TickProcessOk(n, reading)
  <2>1. s_queue' = QueueH(n) /\ s_hb_queued_or_active' = FlagAfterEnd(FlagH(n))
    BY <1>8 DEF TickProcessOk
  <2>2. FlagH(n) /\ ~s_active.is_heartbeat
    BY <2>1 DEF FlagAfterEnd
  <2> QED BY <2>1, <2>2, FlagHTrue
<1> QED BY <1>1, <1>2, <1>3, <1>4, <1>5, <1>6, <1>7, <1>8 DEF Tick

\* The heartbeat monitor never wedges: s_hb_queued_or_active is only set while a
\* heartbeat really is queued or under way, through every success, failure,
\* retry and reconfiguration, for any queue size and any configuration.
THEOREM HeartbeatNeverWedgedAlways == Spec => []HeartbeatNeverWedged
<1>1. Init => HeartbeatNeverWedged
  BY DEF Init, HeartbeatNeverWedged
<1>2. TypeOK /\ HeartbeatNeverWedged /\ [Next]_vars => HeartbeatNeverWedged'
  <2> SUFFICES ASSUME TypeOK, HeartbeatNeverWedged, [Next]_vars
               PROVE  HeartbeatNeverWedged'
    OBVIOUS
  <2> USE DEF HeartbeatNeverWedged
  <2>1. CASE \E n \in Reads : Tick(n)
    BY <2>1, TickFlag
  <2>2. CASE \E req \in Requests : Enqueue(req)
    <3>1. PICK req \in Requests : Enqueue(req)
      BY <2>2
    <3>2. NewJob(req, FALSE) \in JobType /\ s_queue \in Seq(JobType)
      BY NewJobType, EngineAssumption DEF TypeOK
    <3>3. HeartbeatIn(s_queue) => HeartbeatIn(s_queue)'
      BY <3>1, <3>2, AppendHeartbeat DEF Enqueue
    <3> QED BY <3>1, <3>3 DEF Enqueue, hbVars, HeartbeatIn
  <2>3. CASE Enable
    BY <2>3 DEF Enable, jobVars, hbVars
  <2>4. CASE Disable
    BY <2>4 DEF Disable
  <2>5. CASE ClearHeartbeat
    BY <2>5 DEF ClearHeartbeat
  <2>6. CASE \E cfg \in HbConfigs : RefuseHeartbeat(cfg)
    BY <2>6 DEF RefuseHeartbeat, jobVars
  <2>7. CASE \E n \in Reads, cfg \in HbConfigs : StartHeartbeat(n, cfg)
    BY <2>7 DEF StartHeartbeat
  <2>8. CASE UNCHANGED vars
    BY <2>8 DEF vars, jobVars, hbVars
  <2> QED BY <2>1, <2>2, <2>3, <2>4, <2>5, <2>6, <2>7, <2>8 DEF Next
<1> QED BY <1>1, <1>2, TypeCorrect, PTL DEF Spec

----------------------------------------------------------------------------
(* The engine implements the service: what the service sees.                *)

\* What the service sees of the engine.
Line == ServiceLine(s_queue)
Serving == IF s_state = "IDLE" THEN Nobody ELSE ServiceJob(s_active)
serviceVars == <<s_enabled, Line, Serving>>

----------------------------------------------------------------------------
(* The waiting line follows the queue.                                      *)

LEMMA LineAppend ==
  ASSUME NEW q \in Seq(JobType), NEW job \in JobType
  PROVE  /\ ServiceLine(Append(q, job)) = Append(ServiceLine(q), ServiceJob(job))
         /\ Len(ServiceLine(q)) = Len(q)
BY AppendProperties, LenProperties DEF ServiceLine

LEMMA LinePop ==
  ASSUME NEW q \in Seq(JobType), q # <<>>
  PROVE  /\ ServiceLine(q) # <<>>
         /\ Head(ServiceLine(q)) = ServiceJob(Head(q))
         /\ Tail(ServiceLine(q)) = ServiceLine(Tail(q))
BY HeadTailProperties, EmptySeq DEF ServiceLine

----------------------------------------------------------------------------
(* What the refinement needs to know of the engine's state.                 *)

\* A job carries the whole budget of its request: the push that queued it, for
\* the first time or again, has just set it.
FullBudget(job) == job.retries_left = job.req.max_retries

AllFull(q) == \A i \in 1 .. Len(q) : FullBudget(q[i])

RefinementInv ==
  /\ AllFull(s_queue)
  /\ FullBudget(s_active)
  /\ s_hb_enabled => s_hb_cfg.req \in ScheduledRequests

LEMMA NewJobFull ==
  ASSUME NEW req, NEW hb
  PROVE  FullBudget(NewJob(req, hb)) /\ FullBudget(ZeroJob) /\ FullBudget(RetryJob)
BY DEF FullBudget, NewJob, ZeroJob, ZeroRequest, RetryJob

LEMMA AppendFull ==
  ASSUME NEW q \in Seq(JobType), AllFull(q), NEW job \in JobType, FullBudget(job)
  PROVE  AllFull(Append(q, job))
<1>1. SUFFICES ASSUME NEW i \in 1 .. Len(q) + 1
               PROVE  FullBudget(Append(q, job)[i])
  BY AppendProperties DEF AllFull
<1>2. i \in 1 .. Len(q) \/ i = Len(q) + 1
  BY LenProperties
<1> QED BY <1>2, AppendProperties DEF AllFull

LEMMA QueueHFull ==
  ASSUME TypeOK, RefinementInv, NEW n
  PROVE  AllFull(QueueH(n))
<1>1. NewJob(s_hb_cfg.req, TRUE) \in JobType /\ s_queue \in Seq(JobType)
  BY NewJobType, CfgReqType DEF TypeOK
<1> QED BY <1>1, AppendFull, NewJobFull DEF RefinementInv, QueueH

\* A failed attempt keeps every budget full: the decremented one is thrown away.
LEMMA JobFailureFull ==
  ASSUME TypeOK, RefinementInv, NEW n, NEW flag, Iteration(n), JobFailure(n, flag)
  PROVE  RefinementInv'
<1>1. s_active' = ZeroJob /\ s_hb_enabled' = s_hb_enabled /\ s_hb_cfg' = s_hb_cfg
  BY DEF JobFailure, ActiveClear, Iteration
<1>2. AllFull(QueueH(n)) /\ QueueH(n) \in Seq(JobType) /\ RetryJob \in JobType
  BY QueueHFull, QueueHType, RetryJobType
<1>3. AllFull(Requeue(QueueH(n)))
  BY <1>2, NewJobFull, AppendFull DEF Requeue
<1>4. s_queue' = QueueH(n) \/ s_queue' = Requeue(QueueH(n))
  BY DEF JobFailure
<1>5. AllFull(s_queue)'
  BY <1>2, <1>3, <1>4
<1> QED BY <1>1, <1>5, NewJobFull DEF RefinementInv

LEMMA TickFull ==
  ASSUME TypeOK, RefinementInv, NEW n, Tick(n)
  PROVE  RefinementInv'
<1>1. CASE TickDisabled(n)
  BY <1>1 DEF TickDisabled, jobVars, hbVars, RefinementInv
<1>2. CASE \/ TickGated(n) \/ TickIdleEmpty(n) \/ TickIdleNoLock(n) \/ TickTxStart(n)
           \/ TickTxDone(n) \/ TickTxWaiting(n) \/ TickRxNone(n)
           \/ \E bytes \in 0 .. MaxExpectedLen, ends \in BOOLEAN :
                TickRxComplete(n, bytes, ends) \/ TickRxWaiting(n, bytes, ends)
  <2>1. Iteration(n) /\ s_queue' = QueueH(n) /\ s_active' = s_active
    BY <1>2 DEF TickGated, TickIdleEmpty, TickIdleNoLock, TickTxStart, TickTxDone,
                TickTxWaiting, TickRxNone, TickRxComplete, TickRxWaiting, OnlyHeartbeat,
                JobStep
  <2>2. AllFull(s_queue)'
    BY <2>1, QueueHFull
  <2> QED BY <2>1, <2>2 DEF Iteration, RefinementInv
<1>3. CASE TickIdlePop(n)
  <2>1. /\ Iteration(n) /\ QueueH(n) # <<>>
        /\ s_active' = Head(QueueH(n)) /\ s_queue' = Tail(QueueH(n))
    BY <1>3 DEF TickIdlePop
  <2>2. QueueH(n) \in Seq(JobType) /\ AllFull(QueueH(n))
    BY QueueHType, QueueHFull
  <2>3. Len(QueueH(n)) \in Nat \ {0} /\ Head(QueueH(n)) = QueueH(n)[1]
    BY <2>1, <2>2, EmptySeq
  <2>4. FullBudget(s_active)'
    BY <2>1, <2>2, <2>3 DEF AllFull
  <2>5. /\ Len(s_queue') = Len(QueueH(n)) - 1
        /\ \A i \in 1 .. Len(s_queue') : s_queue'[i] = QueueH(n)[i + 1]
    BY <2>1, <2>2, HeadTailProperties
  <2>6. AllFull(s_queue)'
    BY <2>2, <2>3, <2>5 DEF AllFull
  <2> QED BY <2>1, <2>4, <2>6 DEF Iteration, RefinementInv
<1>4. CASE \/ TickTxStartFails(n) \/ TickTxTimeout(n) \/ TickProcessFails(n)
           \/ \E bytes \in 0 .. MaxExpectedLen, ends \in BOOLEAN :
                TickRxFails(n, bytes, ends)
  <2>1. Iteration(n) /\ \E flag \in {FlagH(n), FlagAfterEnd(FlagH(n))} : JobFailure(n, flag)
    BY <1>4 DEF TickTxStartFails, TickTxTimeout, TickProcessFails, TickRxFails
  <2> QED BY <2>1, JobFailureFull
<1>5. CASE \E reading \in Readings \union {telemetry} : TickProcessOk(n, reading)
  <2>1. Iteration(n) /\ s_queue' = QueueH(n) /\ s_active' = ZeroJob
    BY <1>5 DEF TickProcessOk, ActiveClear
  <2>2. AllFull(s_queue)' /\ FullBudget(s_active)'
    BY <2>1, QueueHFull, NewJobFull
  <2> QED BY <2>1, <2>2 DEF Iteration, RefinementInv
<1> QED BY <1>1, <1>2, <1>3, <1>4, <1>5 DEF Tick

LEMMA NextFull ==
  ASSUME TypeOK, RefinementInv, [Next]_vars
  PROVE  RefinementInv'
<1> USE DEF RefinementInv
<1>1. CASE \E n \in Reads : Tick(n)
  BY <1>1, TickFull
<1>2. CASE \E req \in Requests : Enqueue(req)
  <2>1. PICK req \in Requests : Enqueue(req)
    BY <1>2
  <2>2. NewJob(req, FALSE) \in JobType /\ s_queue \in Seq(JobType)
    BY NewJobType, EngineAssumption DEF TypeOK
  <2>3. AllFull(s_queue)'
    BY <2>1, <2>2, AppendFull, NewJobFull DEF Enqueue
  <2> QED BY <2>1, <2>3 DEF Enqueue, hbVars
<1>3. CASE Enable
  BY <1>3 DEF Enable, jobVars, hbVars
<1>4. CASE Disable
  BY <1>4, NewJobFull DEF Disable, AllFull
<1>5. CASE ClearHeartbeat
  BY <1>5 DEF ClearHeartbeat, jobVars
<1>6. CASE \E cfg \in HbConfigs : RefuseHeartbeat(cfg)
  BY <1>6 DEF RefuseHeartbeat, jobVars
<1>7. CASE \E n \in Reads, cfg \in HbConfigs : StartHeartbeat(n, cfg)
  <2>1. PICK n \in Reads, cfg \in HbConfigs : StartHeartbeat(n, cfg)
    BY <1>7
  <2>2. s_hb_cfg'.req = cfg.req
    BY <2>1, EngineAssumption DEF StartHeartbeat, CfgType
  <2>3. s_hb_cfg'.req \in ScheduledRequests
    BY <2>1, <2>2 DEF StartHeartbeat, ScheduledRequests
  <2> QED BY <2>1, <2>3 DEF StartHeartbeat, jobVars
<1>8. CASE UNCHANGED vars
  BY <1>8 DEF vars, jobVars, hbVars
<1> QED BY <1>1, <1>2, <1>3, <1>4, <1>5, <1>6, <1>7, <1>8 DEF Next

LEMMA RefinementInvAlways == Spec => []RefinementInv
<1>1. Init => RefinementInv
  BY NewJobFull DEF Init, RefinementInv, AllFull
<1>2. TypeOK /\ RefinementInv /\ [Next]_vars => RefinementInv'
  BY NextFull
<1> QED BY <1>1, <1>2, TypeCorrect, PTL DEF Spec

----------------------------------------------------------------------------
(* The steps.                                                               *)

\* The queue after maybe_enqueue_heartbeat() is a line the service may have.
LEMMA LineWithHeartbeat ==
  ASSUME TypeOK, CaptureInBounds, RefinementInv, s_enabled, NEW n
  PROVE  ServiceLine(QueueH(n)) \in Service!WithHeartbeat
<1>1. CASE HeartbeatDue(n)
  <2>1. NewJob(s_hb_cfg.req, TRUE) \in JobType /\ s_queue \in Seq(JobType)
    BY NewJobType, CfgReqType DEF TypeOK
  <2>2. ServiceLine(QueueH(n)) = Append(Line, ServiceJob(NewJob(s_hb_cfg.req, TRUE)))
    BY <1>1, <2>1, LineAppend DEF QueueH, Line
  <2>3. ServiceJob(NewJob(s_hb_cfg.req, TRUE)) = Service!Job(s_hb_cfg.req, TRUE)
    BY DEF ServiceJob, NewJob, Service!Job
  <2>4. s_hb_cfg.req \in ScheduledRequests
    BY <1>1 DEF HeartbeatDue, RefinementInv
  <2>5. Len(Line) < QueueSize
    <3>1. Len(s_queue) < QueueSize
      BY <1>1, <2>1, EngineAssumption, LenProperties DEF HeartbeatDue, QueueIsFull
    <3>2. Len(Line) = Len(s_queue)
      BY <2>1 DEF Line, ServiceLine
    <3> QED BY <3>1, <3>2
  <2>6. s_enabled = TRUE
    BY DEF TypeOK
  <2> QED BY <2>2, <2>3, <2>4, <2>5, <2>6 DEF Service!WithHeartbeat, Line
<1>2. CASE ~HeartbeatDue(n)
  BY <1>2 DEF QueueH, Service!WithHeartbeat
<1> QED BY <1>1, <1>2

\* A job under way is served: it is never mistaken for nobody, whose request is
\* not one the engine accepts.
LEMMA SomebodyServed ==
  ASSUME CaptureInBounds, s_state # "IDLE"
  PROVE  Serving = ServiceJob(s_active) /\ Serving # Nobody
<1>1. RequestIsValid(s_active.req) /\ ~RequestIsValid(ZeroRequest)
  BY DEF CaptureInBounds, RequestIsValid, ZeroRequest
<1> QED BY <1>1 DEF Serving, ServiceJob, Nobody

\* An iteration that starts or ends no job at most adds a heartbeat.
LEMMA KeptService ==
  ASSUME TypeOK, CaptureInBounds, RefinementInv, NEW n, Iteration(n),
         s_queue' = QueueH(n), s_active' = s_active,
         s_state = "IDLE" <=> s_state' = "IDLE"
  PROVE  Service!AddHeartbeat
<1>1. Line' \in Service!WithHeartbeat
  BY LineWithHeartbeat DEF Iteration, Line
<1>2. s_enabled' = s_enabled /\ Serving' = Serving
  BY DEF Iteration, Serving
<1> QED BY <1>1, <1>2 DEF Service!AddHeartbeat, Line, Serving

\* A failed attempt is a retry or the end of the job.
LEMMA FailureService ==
  ASSUME TypeOK, CaptureInBounds, RefinementInv, s_state # "IDLE", NEW n, NEW flag,
         Iteration(n), JobFailure(n, flag)
  PROVE  Service!Retry \/ Service!Finish
<1> DEFINE again == s_active.retries_left > 0 /\ ~QueueIsFull(QueueH(n))
<1>1. Serving = ServiceJob(s_active) /\ Serving # Nobody
  BY SomebodyServed
<1>2. Serving' = Nobody /\ s_enabled' = s_enabled
  BY DEF JobFailure, ActiveClear, Serving, Iteration
<1>3. ServiceLine(QueueH(n)) \in Service!WithHeartbeat
  BY LineWithHeartbeat DEF Iteration
<1>4. QueueH(n) \in Seq(JobType) /\ RetryJob \in JobType
  BY QueueHType, RetryJobType
<1>5. CASE again
  <2>1. s_queue' = Append(QueueH(n), RetryJob)
    BY <1>5 DEF JobFailure, Requeue
  <2>2. ServiceJob(RetryJob) = ServiceJob(s_active)
    BY DEF RetryJob, NewJob, ServiceJob
  <2>3. Line' = Append(ServiceLine(QueueH(n)), Serving)
    BY <1>1, <1>4, <2>1, <2>2, LineAppend DEF Line
  <2>4. Len(ServiceLine(QueueH(n))) < QueueSize
    BY <1>4, <1>5, LineAppend, LenProperties, EngineAssumption DEF QueueIsFull
  <2>5. MaxRetries(Serving.req) > 0
    BY <1>1, <1>5 DEF RefinementInv, FullBudget, MaxRetries, ServiceJob
  <2> QED BY <1>1, <1>2, <1>3, <2>3, <2>4, <2>5 DEF Service!Retry, Line, Serving
<1>6. CASE ~again
  <2>1. Line' = ServiceLine(QueueH(n))
    BY <1>6 DEF JobFailure, Line
  <2> QED BY <1>1, <1>2, <1>3, <2>1 DEF Service!Finish, Line, Serving
<1> QED BY <1>5, <1>6

LEMMA TickService ==
  ASSUME TypeOK, CaptureInBounds, RefinementInv, NEW n, Tick(n)
  PROVE  [Service!Next]_serviceVars
<1>1. CASE TickDisabled(n)
  BY <1>1 DEF TickDisabled, jobVars, serviceVars, Line, Serving
<1>2. CASE \/ TickGated(n) \/ TickIdleEmpty(n) \/ TickIdleNoLock(n) \/ TickTxStart(n)
           \/ TickTxDone(n) \/ TickTxWaiting(n) \/ TickRxNone(n)
           \/ \E bytes \in 0 .. MaxExpectedLen, ends \in BOOLEAN :
                TickRxComplete(n, bytes, ends) \/ TickRxWaiting(n, bytes, ends)
  <2>1. /\ Iteration(n) /\ s_queue' = QueueH(n) /\ s_active' = s_active
        /\ s_state = "IDLE" <=> s_state' = "IDLE"
    BY <1>2 DEF TickGated, TickIdleEmpty, TickIdleNoLock, TickTxStart, TickTxDone,
                TickTxWaiting, TickRxNone, TickRxComplete, TickRxWaiting, OnlyHeartbeat,
                JobStep, RxRead
  <2> QED BY <2>1, KeptService DEF Service!Next
<1>3. CASE TickIdlePop(n)
  <2>1. /\ Iteration(n) /\ QueueH(n) # <<>> /\ s_state = "IDLE" /\ s_state' = "TX_START"
        /\ s_active' = Head(QueueH(n)) /\ s_queue' = Tail(QueueH(n))
    BY <1>3 DEF TickIdlePop
  <2>2. ServiceLine(QueueH(n)) \in Service!WithHeartbeat
    BY <2>1, LineWithHeartbeat DEF Iteration
  <2>3. /\ ServiceLine(QueueH(n)) # <<>>
        /\ Head(ServiceLine(QueueH(n))) = ServiceJob(s_active')
        /\ Tail(ServiceLine(QueueH(n))) = ServiceLine(s_queue')
    BY <2>1, QueueHType, LinePop
  <2>4. Serving = Nobody /\ Serving' = ServiceJob(s_active') /\ s_enabled' = s_enabled
    BY <2>1 DEF Serving, Iteration
  <2>5. Service!Start
    BY <2>2, <2>3, <2>4 DEF Service!Start, Serving
  <2> QED BY <2>5 DEF Service!Next
<1>4. CASE \/ TickTxStartFails(n) \/ TickTxTimeout(n) \/ TickProcessFails(n)
           \/ \E bytes \in 0 .. MaxExpectedLen, ends \in BOOLEAN :
                TickRxFails(n, bytes, ends)
  <2>1. Iteration(n) /\ s_state # "IDLE"
        /\ \E flag \in {FlagH(n), FlagAfterEnd(FlagH(n))} : JobFailure(n, flag)
    BY <1>4 DEF TickTxStartFails, TickTxTimeout, TickProcessFails, TickRxFails, RxRead
  <2> QED BY <2>1, FailureService DEF Service!Next
<1>5. CASE \E reading \in Readings \union {telemetry} : TickProcessOk(n, reading)
  <2>1. Iteration(n) /\ s_state # "IDLE" /\ s_queue' = QueueH(n) /\ s_state' = "IDLE"
    BY <1>5 DEF TickProcessOk, ActiveClear
  <2>2. Line' \in Service!WithHeartbeat
    BY <2>1, LineWithHeartbeat DEF Iteration, Line
  <2>3. Serving # Nobody /\ Serving' = Nobody /\ s_enabled' = s_enabled
    BY <2>1, SomebodyServed DEF Serving, Iteration
  <2>4. Service!Finish
    BY <2>2, <2>3 DEF Service!Finish, Line, Serving
  <2> QED BY <2>4 DEF Service!Next
<1> QED BY <1>1, <1>2, <1>3, <1>4, <1>5 DEF Tick

LEMMA NextService ==
  ASSUME TypeOK, CaptureInBounds, RefinementInv, [Next]_vars
  PROVE  [Service!Next]_serviceVars
<1>1. CASE \E n \in Reads : Tick(n)
  BY <1>1, TickService
<1>2. CASE \E req \in Requests : Enqueue(req)
  <2>1. PICK req \in Requests : Enqueue(req)
    BY <1>2
  <2>2. s_enabled' = s_enabled /\ Serving' = Serving
    BY <2>1 DEF Enqueue, Serving
  <2>3. CASE EnqueueResult(req) = "OK"
    <3>1. NewJob(req, FALSE) \in JobType /\ s_queue \in Seq(JobType)
      BY NewJobType, EngineAssumption DEF TypeOK
    <3>2. s_enabled = TRUE /\ RequestIsValid(req) /\ ~QueueIsFull(s_queue)
      BY <2>3 DEF EnqueueResult, TypeOK
    <3>3. ServiceJob(NewJob(req, FALSE)) = Service!Job(req, FALSE)
      BY DEF ServiceJob, NewJob, Service!Job
    <3>4. Line' = Append(Line, Service!Job(req, FALSE)) /\ Len(Line) = Len(s_queue)
      BY <2>1, <2>3, <3>1, <3>3, LineAppend DEF Enqueue, Line
    <3>5. Len(Line) < QueueSize
      BY <3>1, <3>2, <3>4, LenProperties, EngineAssumption DEF QueueIsFull
    <3>6. req \in AcceptedRequests
      BY <3>2 DEF AcceptedRequests
    <3>7. Service!Accept(req)
      BY <2>2, <3>2, <3>4, <3>5 DEF Service!Accept, Line, Serving
    <3> QED BY <3>6, <3>7 DEF Service!Next
  <2>4. CASE EnqueueResult(req) # "OK"
    <3>1. Line' = Line
      BY <2>1, <2>4 DEF Enqueue, Line
    <3> QED BY <2>2, <3>1 DEF serviceVars
  <2> QED BY <2>3, <2>4
<1>3. CASE Enable
  <2>1. Service!Open
    BY <1>3 DEF Enable, Service!Open, jobVars, TypeOK
  <2> QED BY <2>1 DEF Service!Next
<1>4. CASE Disable
  <2>1. Service!Close
    BY <1>4 DEF Disable, Service!Close, ServiceLine, TypeOK
  <2> QED BY <2>1 DEF Service!Next
<1>5. CASE \/ ClearHeartbeat
           \/ \E cfg \in HbConfigs : RefuseHeartbeat(cfg)
           \/ \E n \in Reads, cfg \in HbConfigs : StartHeartbeat(n, cfg)
  <2>1. UNCHANGED <<s_enabled, s_queue, s_state, s_active>>
    BY <1>5 DEF ClearHeartbeat, RefuseHeartbeat, StartHeartbeat, jobVars
  <2> QED BY <2>1 DEF serviceVars, Line, Serving
<1>6. CASE UNCHANGED vars
  BY <1>6 DEF vars, jobVars, serviceVars, Line, Serving
<1> QED BY <1>1, <1>2, <1>3, <1>4, <1>5, <1>6 DEF Next

\* The engine implements the service, for every value of the constants: whatever
\* uart_engine_tick() and the other calls do, the jobs are served one at a time
\* in the order they were queued; none is lost, duplicated or overtaken, except
\* that disabling drops them and a retry, allowed by its request and with room in
\* the ring, goes to the tail.
THEOREM EngineImplementsService == Spec => ImplementsService
<1>1. Init => Service!Init
  BY DEF Init, Service!Init, ServiceLine
<1>2. TypeOK /\ CaptureInBounds /\ RefinementInv /\ [Next]_vars => [Service!Next]_serviceVars
  BY NextService
<1>3. TypeOK /\ CaptureInBounds /\ RefinementInv /\ [Next]_vars
      => [Service!Next]_<<s_enabled, ServiceLine(s_queue),
                          IF s_state = "IDLE" THEN Nobody ELSE ServiceJob(s_active)>>
  BY <1>2 DEF serviceVars, Line, Serving
<1> QED BY <1>1, <1>3, TypeCorrect, CaptureInBoundsAlways, RefinementInvAlways, PTL
        DEF Spec, ImplementsService, Service!Spec

=============================================================================
