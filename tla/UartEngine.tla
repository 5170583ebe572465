------------------------------ MODULE UartEngine ------------------------------
(***************************************************************************)
(* The non-blocking UART request engine, uart_engine.c.                    *)
(*                                                                         *)
(* One FreeRTOS task calls the whole API, so calls never overlap; inside   *)
(* uart_engine_tick() the loop runs up to UART_ENGINE_MAX_STEPS_PER_TICK   *)
(* iterations, each reading the clock afresh.  One iteration is one action *)
(* here (Tick... below); `step` counts the iterations of the tick under    *)
(* way and an API call happens only between ticks (step = 0).              *)
(*                                                                         *)
(* What the environment decides is a parameter of the action: how far the  *)
(* clock moved since it was last read, whether the driver took and sent    *)
(* the bytes, how many bytes uart_read_bytes() returned and whether they   *)
(* complete the terminator, what the process callback answered.            *)
(***************************************************************************)
EXTENDS TickClock, UartAdaptor, Sequences

CONSTANTS
  Cmd,               \* identities of commands (cmd with its out_value)
  ZeroCmd,           \* the command of a zeroed request structure
  Requests,          \* requests the callers of uart_engine_enqueue() pass
  HbConfigs,         \* configurations passed to uart_engine_set_heartbeat()
  QueueSize,         \* UART_ENGINE_QUEUE_SIZE
  MaxExpectedLen,    \* UART_ENGINE_MAX_EXPECTED_LEN, the size of s_rx_buf
  MaxEndingLen,      \* UART_ENGINE_MAX_ENDING_LEN
  TxTimeout,         \* UART_ENGINE_TX_TIMEOUT_MS
  RetryCooldown,     \* UART_ENGINE_RETRY_COOLDOWN_MS
  InterjobCooldown,  \* UART_ENGINE_INTERJOB_COOLDOWN_MS
  MaxSteps,          \* UART_ENGINE_MAX_STEPS_PER_TICK
  DefaultThreshold,  \* failure_threshold used for 0
  DefaultInterval,   \* interval_ms used for 0
  U8Max,             \* largest uint8_t
  Readings,          \* what the telemetry fields can hold after a callback
  MaxStall,          \* bound: clock advance between two reads of the clock
  MaxTries           \* bound: where the history counter `tries` saturates

----------------------------------------------------------------------------
\* uart_engine_request_t.  process_fn is whether there is a callback.
RequestType ==
  [cmd : Cmd, cmd_bits : Nat, expected_len : Nat, expected_ending : BOOLEAN,
   expected_ending_len : Nat, timeout_ms : Nat, max_retries : 0..U8Max,
   process_fn : BOOLEAN]

\* uart_engine_heartbeat_cfg_t
CfgType == [req : RequestType, interval_ms : Nat, failure_threshold : 0..U8Max]

\* uart_engine_job_t, and a history field: attempts that failed before.
JobType == [req : RequestType, retries_left : 0..U8Max, is_heartbeat : BOOLEAN,
            tries : 0..MaxTries]

\* The fields of g_battery and g_power_summary_present_status that the
\* heartbeat monitor forces.
TelemetryType ==
  [remaining_capacity : Nat, remaining_time_limit_s : Nat,
   fully_charged : BOOLEAN, below_remaining_capacity_limit : BOOLEAN,
   shutdown_imminent : BOOLEAN, charging : BOOLEAN, discharging : BOOLEAN,
   ac_present : BOOLEAN]

ASSUME EngineAssumption ==
  /\ ZeroCmd \in Cmd
  /\ Requests \subseteq RequestType
  /\ HbConfigs \subseteq CfgType
  /\ Readings \subseteq TelemetryType
  /\ QueueSize \in Nat \ {0}
  /\ MaxExpectedLen \in Nat \ {0}
  /\ MaxEndingLen \in Nat
  /\ TxTimeout \in Nat
  /\ RetryCooldown \in Nat
  /\ InterjobCooldown \in Nat
  /\ MaxSteps \in Nat \ {0}
  /\ DefaultInterval \in Nat
  /\ U8Max \in Nat
  /\ DefaultThreshold \in 0..U8Max
  /\ MaxStall \in Nat
  /\ MaxTries \in Nat

States == {"IDLE", "TX_START", "TX_WAIT", "RX_WAIT", "PROCESS"}

VARIABLES
  now,                        \* value of the last ups_tick_ms() read
  step,                       \* iterations done in the tick under way
  s_enabled,
  s_queue,                    \* the jobs of the ring s_queue, oldest first
  s_active, s_state, s_state_start_ms, s_retry_not_before_ms, s_rx_got,
  s_hb_enabled, s_hb_cfg, s_hb_next_due_ms, s_hb_consecutive_failures,
  s_hb_queued_or_active,
  telemetry                   \* g_battery, g_power_summary_present_status

clockVars == <<now, step>>
jobVars   == <<s_queue, s_active, s_state, s_state_start_ms, s_rx_got>>
hbVars    == <<s_hb_enabled, s_hb_cfg, s_hb_next_due_ms,
               s_hb_consecutive_failures, s_hb_queued_or_active>>
vars == <<clockVars, s_enabled, jobVars, s_retry_not_before_ms, hbVars,
          telemetry, adaptorVars>>

----------------------------------------------------------------------------
\* memset(0) values of the structures.
ZeroRequest ==
  [cmd |-> ZeroCmd, cmd_bits |-> 0, expected_len |-> 0, expected_ending |-> FALSE,
   expected_ending_len |-> 0, timeout_ms |-> 0, max_retries |-> 0,
   process_fn |-> FALSE]
ZeroCfg == [req |-> ZeroRequest, interval_ms |-> 0, failure_threshold |-> 0]
ZeroJob == [req |-> ZeroRequest, retries_left |-> 0, is_heartbeat |-> FALSE,
            tries |-> 0]

\* request_is_valid()
RequestIsValid(req) ==
  /\ req.cmd_bits \in {8, 16}
  /\ req.expected_len <= MaxExpectedLen
  /\ req.expected_ending => req.expected_ending_len \in 1 .. MaxEndingLen

RxCapPlain(req) == req.expected_len

\* request_rx_cap()
RxCap(req) ==
  IF req.expected_ending /\ req.expected_len = 0
  THEN MaxExpectedLen
  ELSE req.expected_len

\* The job queue_push() writes: the retry budget is that of the request.
NewJob(req, hb) ==
  [req |-> req, retries_left |-> req.max_retries, is_heartbeat |-> hb, tries |-> 0]

QueueIsFullLate(q) == Len(q) > QueueSize

\* queue_is_full()
QueueIsFull(q) == Len(q) >= QueueSize

\* The job queue_push(&s_active.req, s_active.is_heartbeat) writes on a retry.
RetryJob ==
  [NewJob(s_active.req, s_active.is_heartbeat) EXCEPT
     !.tries = IF s_active.tries < MaxTries THEN s_active.tries + 1
                                            ELSE MaxTries]

RequeueFirst(q) == <<RetryJob>> \o q

\* queue_push() of the active job for another attempt: behind all others.
Requeue(q) == Append(q, RetryJob)

NotBeforeUnsigned(old, cand) == IF cand > old THEN cand ELSE old

\* set_not_before_ms(cand) applied to a gate at old
NotBefore(old, cand) == IF After(cand, old) THEN cand ELSE old

\* What on_job_final_failure() writes once the threshold is reached.
ForcedTelemetry ==
  [remaining_capacity |-> 1, remaining_time_limit_s |-> 1,
   fully_charged |-> FALSE, below_remaining_capacity_limit |-> TRUE,
   shutdown_imminent |-> TRUE, charging |-> FALSE, discharging |-> TRUE,
   ac_present |-> FALSE]

\* The telemetry the program starts with (static initialisers of main.c).
InitTelemetry ==
  [remaining_capacity |-> 0, remaining_time_limit_s |-> 0,
   fully_charged |-> FALSE, below_remaining_capacity_limit |-> FALSE,
   shutdown_imminent |-> FALSE, charging |-> FALSE, discharging |-> FALSE,
   ac_present |-> FALSE]

----------------------------------------------------------------------------
\* uart_engine_init(), shortly after reset: the clock is near its start.
Init ==
  /\ AdaptorInit
  /\ now = 0
  /\ step = 0
  /\ s_enabled = TRUE
  /\ s_queue = <<>>
  /\ s_active = ZeroJob
  /\ s_state = "IDLE"
  /\ s_state_start_ms = 0
  /\ s_retry_not_before_ms = 0
  /\ s_rx_got = 0
  /\ s_hb_enabled = FALSE
  /\ s_hb_cfg = ZeroCfg
  /\ s_hb_next_due_ms = 0
  /\ s_hb_consecutive_failures = 0
  /\ s_hb_queued_or_active = FALSE
  /\ telemetry = InitTelemetry

BusyForgetsActive == s_queue # <<>>

\* uart_engine_is_busy()
Busy == s_state # "IDLE" \/ s_queue # <<>>

----------------------------------------------------------------------------
(***************************************************************************)
(* The part every iteration starts with: the clock is read (it may have    *)
(* moved by up to MaxStall since), then maybe_enqueue_heartbeat() runs.    *)
(* QueueH and FlagH are s_queue and s_hb_queued_or_active after that.      *)
(***************************************************************************)
HeartbeatDueUnbounded(n) ==
  /\ s_hb_enabled
  /\ ~s_hb_queued_or_active
  /\ ~Before(n, s_hb_next_due_ms)

HeartbeatDue(n) ==
  /\ s_hb_enabled
  /\ ~s_hb_queued_or_active
  /\ ~Before(n, s_hb_next_due_ms)
  /\ ~QueueIsFull(s_queue)

QueueH(n) == IF HeartbeatDue(n) THEN Append(s_queue, NewJob(s_hb_cfg.req, TRUE))
                                ELSE s_queue

FlagH(n) == s_hb_queued_or_active \/ HeartbeatDue(n)

HeartbeatInterval ==
  IF s_hb_cfg.interval_ms = 0 THEN DefaultInterval ELSE s_hb_cfg.interval_ms

\* An iteration of the loop at clock value n, up to and including the call
\* of maybe_enqueue_heartbeat() (s_queue and the flag are left to the caller).
Iteration(n) ==
  /\ s_enabled
  /\ now' = n
  /\ s_hb_next_due_ms' = IF HeartbeatDue(n) THEN Add(n, HeartbeatInterval)
                                            ELSE s_hb_next_due_ms
  /\ UNCHANGED <<s_enabled, s_hb_enabled, s_hb_cfg>>

\* The retry/inter-job cooldown lets the switch run.
GateOpen(n) == ~Before(n, s_retry_not_before_ms)

Progressed == step' = (step + 1) % MaxSteps
TickEnds   == step' = 0

\* The iteration changes nothing but what maybe_enqueue_heartbeat() did.
OnlyHeartbeat(n) ==
  /\ s_queue' = QueueH(n)
  /\ s_hb_queued_or_active' = FlagH(n)
  /\ UNCHANGED <<s_active, s_state, s_state_start_ms, s_rx_got, telemetry,
                 s_retry_not_before_ms, s_hb_consecutive_failures>>

\* An iteration of a job under way that leaves queue, heartbeat and gate alone.
JobStep(n) ==
  /\ s_queue' = QueueH(n)
  /\ s_hb_queued_or_active' = FlagH(n)
  /\ UNCHANGED <<s_active, telemetry, s_retry_not_before_ms,
                 s_hb_consecutive_failures>>

\* s_state = IDLE; active_clear()
ActiveClear ==
  /\ s_state' = "IDLE"
  /\ s_active' = ZeroJob
  /\ s_rx_got' = 0
  /\ UNCHANGED s_state_start_ms

FlagKept(flag) == flag

\* if (s_active.is_heartbeat) s_hb_queued_or_active = false
FlagAfterEnd(flag) == flag /\ ~s_active.is_heartbeat

\* on_job_final_failure(&s_active)
Threshold ==
  IF s_hb_cfg.failure_threshold = 0 THEN DefaultThreshold
                                    ELSE s_hb_cfg.failure_threshold

FinalFailure ==
  LET count == IF s_hb_consecutive_failures < U8Max
               THEN s_hb_consecutive_failures + 1 ELSE s_hb_consecutive_failures
  IN IF s_active.is_heartbeat
     THEN /\ s_hb_consecutive_failures' = count
          /\ telemetry' = IF count >= Threshold THEN ForcedTelemetry ELSE telemetry
     ELSE UNCHANGED <<s_hb_consecutive_failures, telemetry>>

(***************************************************************************)
(* An attempt fails at time n: job_finish_failure(), and the failure       *)
(* branch of UART_ENGINE_STATE_PROCESS, which only differs in having       *)
(* cleared s_hb_queued_or_active first; flag is its value at this point.   *)
(***************************************************************************)
JobFailure(n, flag) ==
  LET again == s_active.retries_left > 0 /\ ~QueueIsFull(QueueH(n))
      gate  == IF again THEN Add(n, RetryCooldown) ELSE s_retry_not_before_ms
  IN /\ s_uart_lock' = Unlocked
     /\ IF again
        THEN /\ s_queue' = Requeue(QueueH(n))
             /\ s_hb_queued_or_active' = flag
             /\ UNCHANGED <<s_hb_consecutive_failures, telemetry>>
        ELSE /\ s_queue' = QueueH(n)
             /\ s_hb_queued_or_active' = FlagAfterEnd(flag)
             /\ FinalFailure
     /\ s_retry_not_before_ms' = NotBefore(gate, Add(n, InterjobCooldown))
     /\ ActiveClear

----------------------------------------------------------------------------
\* uart_engine_tick() on a disabled engine returns at once.
TickDisabled(n) ==
  /\ ~s_enabled
  /\ step = 0
  /\ now' = n
  /\ UNCHANGED <<step, s_enabled, jobVars, s_retry_not_before_ms, hbVars,
                 telemetry, adaptorVars>>

\* The cooldown holds the iteration back and ends the tick.
TickGated(n) ==
  /\ Iteration(n)
  /\ ~GateOpen(n)
  /\ OnlyHeartbeat(n)
  /\ TickEnds
  /\ UNCHANGED adaptorVars

\* IDLE with nothing queued.
TickIdleEmpty(n) ==
  /\ s_state = "IDLE"
  /\ Iteration(n)
  /\ GateOpen(n)
  /\ QueueH(n) = <<>>
  /\ OnlyHeartbeat(n)
  /\ TickEnds
  /\ UNCHANGED adaptorVars

\* IDLE with a job queued, but UART2_TryLock() refuses.
TickIdleNoLock(n) ==
  /\ s_state = "IDLE"
  /\ Iteration(n)
  /\ GateOpen(n)
  /\ QueueH(n) # <<>>
  /\ TryLockFails
  /\ OnlyHeartbeat(n)
  /\ TickEnds

\* IDLE: the oldest job becomes the active one.
TickIdlePop(n) ==
  /\ s_state = "IDLE"
  /\ Iteration(n)
  /\ GateOpen(n)
  /\ QueueH(n) # <<>>
  /\ TryLockSucceeds
  /\ s_active' = Head(QueueH(n))
  /\ s_queue' = Tail(QueueH(n))
  /\ s_state' = "TX_START"
  /\ s_state_start_ms' = n
  /\ s_hb_queued_or_active' = (FlagH(n) \/ s_active'.is_heartbeat)
  /\ Progressed
  /\ UNCHANGED <<s_rx_got, telemetry, s_retry_not_before_ms,
                 s_hb_consecutive_failures>>

\* TX_START, job_start_tx(): discard what is buffered and send the command.
TickTxStart(n) ==
  /\ s_state = "TX_START"
  /\ Iteration(n)
  /\ GateOpen(n)
  /\ s_active.req.cmd_bits \in {8, 16}
  /\ SendStarted(TRUE)
  /\ JobStep(n)
  /\ s_state' = "TX_WAIT"
  /\ s_state_start_ms' = n
  /\ Progressed
  /\ UNCHANGED <<s_rx_got, driver_installed, s_uart_ready, s_uart_lock>>

\* TX_START: the driver takes fewer bytes than given, or there is none to
\* send (then the adaptor is not called).
TickTxStartFails(n) ==
  /\ s_state = "TX_START"
  /\ Iteration(n)
  /\ GateOpen(n)
  /\ IF s_active.req.cmd_bits \in {8, 16} THEN SendStarted(FALSE)
                                          ELSE UNCHANGED s_tx_inflight
  /\ JobFailure(n, FlagH(n))
  /\ Progressed
  /\ UNCHANGED <<driver_installed, s_uart_ready>>

\* TX_WAIT: the last byte has left, the reply is awaited from now on.
TickTxDone(n) ==
  /\ s_state = "TX_WAIT"
  /\ Iteration(n)
  /\ GateOpen(n)
  /\ TxDone(TRUE)
  /\ JobStep(n)
  /\ s_state' = "RX_WAIT"
  /\ s_state_start_ms' = n
  /\ s_rx_got' = 0
  /\ Progressed
  /\ UNCHANGED <<driver_installed, s_uart_ready, s_uart_lock>>

\* TX_WAIT: not sent within UART_ENGINE_TX_TIMEOUT_MS.
TickTxTimeout(n) ==
  /\ s_state = "TX_WAIT"
  /\ Iteration(n)
  /\ GateOpen(n)
  /\ TxDone(FALSE)
  /\ Elapsed(n, s_state_start_ms) >= TxTimeout
  /\ JobFailure(n, FlagH(n))
  /\ Progressed
  /\ UNCHANGED <<driver_installed, s_uart_ready>>

\* TX_WAIT: still sending.
TickTxWaiting(n) ==
  /\ s_state = "TX_WAIT"
  /\ Iteration(n)
  /\ GateOpen(n)
  /\ TxDone(FALSE)
  /\ Elapsed(n, s_state_start_ms) < TxTimeout
  /\ OnlyHeartbeat(n)
  /\ TickEnds
  /\ UNCHANGED <<driver_installed, s_uart_ready, s_uart_lock>>

(***************************************************************************)
(* RX_WAIT: UART2_Read() appends `bytes` bytes to s_rx_buf; `ends` is      *)
(* whether rx_has_expected_ending() then finds the terminator at its end.  *)
(* A buffer that ended with it before would already have left RX_WAIT, so  *)
(* new bytes are needed.                                                   *)
(***************************************************************************)
RxRead(bytes, ends) ==
  /\ s_state = "RX_WAIT"
  /\ RxCap(s_active.req) > 0
  /\ bytes \in 0 .. (RxCap(s_active.req) - s_rx_got)
  /\ ends => /\ bytes > 0
             /\ s_active.req.expected_ending
             /\ s_rx_got + bytes >= s_active.req.expected_ending_len

\* The reply is complete: its terminator was seen, or its length reached.
RxComplete(bytes, ends) ==
  IF s_active.req.expected_ending THEN ends
  ELSE s_rx_got + bytes >= RxCap(s_active.req)

\* The capture is full and its terminator never came.
RxOverrun(bytes, ends) ==
  /\ s_active.req.expected_ending
  /\ ~ends
  /\ s_rx_got + bytes >= RxCap(s_active.req)

RxExpiredWhenSilent(n) ==
  s_rx_got = 0 /\ Elapsed(n, s_state_start_ms) >= s_active.req.timeout_ms

\* The overall RX timeout of the request has passed.
RxExpired(n) == Elapsed(n, s_state_start_ms) >= s_active.req.timeout_ms

\* RX_WAIT of a request that expects no bytes.
TickRxNone(n) ==
  /\ s_state = "RX_WAIT"
  /\ Iteration(n)
  /\ GateOpen(n)
  /\ RxCap(s_active.req) = 0
  /\ JobStep(n)
  /\ s_state' = "PROCESS"
  /\ Progressed
  /\ UNCHANGED <<s_state_start_ms, s_rx_got, adaptorVars>>

TickRxComplete(n, bytes, ends) ==
  /\ RxRead(bytes, ends)
  /\ Iteration(n)
  /\ GateOpen(n)
  /\ RxComplete(bytes, ends)
  /\ JobStep(n)
  /\ s_state' = "PROCESS"
  /\ s_rx_got' = s_rx_got + bytes
  /\ Progressed
  /\ UNCHANGED <<s_state_start_ms, adaptorVars>>

\* "rx ending not found", or "rx timeout" with what has come so far.
TickRxFails(n, bytes, ends) ==
  /\ RxRead(bytes, ends)
  /\ Iteration(n)
  /\ GateOpen(n)
  /\ ~RxComplete(bytes, ends)
  /\ RxOverrun(bytes, ends) \/ RxExpired(n)
  /\ JobFailure(n, FlagH(n))
  /\ Progressed
  /\ UNCHANGED <<driver_installed, s_uart_ready, s_tx_inflight>>

\* Still receiving; the tick goes on if something came.
TickRxWaiting(n, bytes, ends) ==
  /\ RxRead(bytes, ends)
  /\ Iteration(n)
  /\ GateOpen(n)
  /\ ~RxComplete(bytes, ends)
  /\ ~RxOverrun(bytes, ends)
  /\ ~RxExpired(n)
  /\ JobStep(n)
  /\ s_rx_got' = s_rx_got + bytes
  /\ IF bytes > 0 THEN Progressed ELSE TickEnds
  /\ UNCHANGED <<s_state, s_state_start_ms, adaptorVars>>

\* PROCESS: no callback, or it returns true having written `reading`.
TickProcessOk(n, reading) ==
  /\ s_state = "PROCESS"
  /\ Iteration(n)
  /\ GateOpen(n)
  /\ telemetry' = IF s_active.req.process_fn THEN reading ELSE telemetry
  /\ s_uart_lock' = Unlocked
  /\ s_queue' = QueueH(n)
  /\ s_hb_consecutive_failures' =
       IF s_active.is_heartbeat THEN 0 ELSE s_hb_consecutive_failures
  /\ s_hb_queued_or_active' = FlagAfterEnd(FlagH(n))
  /\ s_retry_not_before_ms' =
       NotBefore(s_retry_not_before_ms, Add(n, InterjobCooldown))
  /\ ActiveClear
  /\ Progressed
  /\ UNCHANGED <<driver_installed, s_uart_ready, s_tx_inflight>>

\* PROCESS: the callback returns false.
TickProcessFails(n) ==
  /\ s_state = "PROCESS"
  /\ Iteration(n)
  /\ GateOpen(n)
  /\ s_active.req.process_fn
  /\ JobFailure(n, FlagAfterEnd(FlagH(n)))
  /\ Progressed
  /\ UNCHANGED <<driver_installed, s_uart_ready, s_tx_inflight>>

----------------------------------------------------------------------------
EnqueueResultAlways(req) ==
  CASE ~RequestIsValid(req) -> "ERR_BAD_PARAM"
    [] RequestIsValid(req) /\ QueueIsFull(s_queue) -> "ERR_QUEUE_FULL"
    [] OTHER -> "OK"

EnqueueResultUnvalidated(req) ==
  CASE ~s_enabled -> "ERR_DISABLED"
    [] s_enabled /\ QueueIsFull(s_queue) -> "ERR_QUEUE_FULL"
    [] OTHER -> "OK"

\* uart_engine_enqueue(): what it returns, and the call.
EnqueueResult(req) ==
  CASE ~s_enabled             -> "ERR_DISABLED"
    [] s_enabled /\ ~RequestIsValid(req) -> "ERR_BAD_PARAM"
    [] s_enabled /\ RequestIsValid(req) /\ QueueIsFull(s_queue) -> "ERR_QUEUE_FULL"
    [] OTHER                  -> "OK"

Enqueue(req) ==
  /\ step = 0
  /\ s_queue' = IF EnqueueResult(req) = "OK"
                THEN Append(s_queue, NewJob(req, FALSE)) ELSE s_queue
  /\ UNCHANGED <<clockVars, s_enabled, s_active, s_state, s_state_start_ms,
                 s_rx_got, s_retry_not_before_ms, hbVars, telemetry, adaptorVars>>

\* uart_engine_set_enabled(true) on a disabled engine.
Enable ==
  /\ step = 0
  /\ ~s_enabled
  /\ s_enabled' = TRUE
  /\ UNCHANGED <<clockVars, jobVars, s_retry_not_before_ms, hbVars, telemetry,
                 adaptorVars>>

\* uart_engine_set_enabled(false) on an enabled one: uart_engine_reset_internal().
Disable ==
  /\ step = 0
  /\ s_enabled
  /\ s_enabled' = FALSE
  /\ s_queue' = <<>>
  /\ s_active' = ZeroJob
  /\ s_state' = "IDLE"
  /\ s_state_start_ms' = 0
  /\ s_retry_not_before_ms' = 0
  /\ s_rx_got' = 0
  /\ s_hb_enabled' = FALSE
  /\ s_hb_cfg' = ZeroCfg
  /\ s_hb_next_due_ms' = 0
  /\ s_hb_consecutive_failures' = 0
  /\ s_hb_queued_or_active' = FALSE
  /\ s_uart_lock' = Unlocked
  /\ UNCHANGED <<clockVars, telemetry, driver_installed, s_uart_ready,
                 s_tx_inflight>>

\* uart_engine_set_heartbeat(NULL)
ClearHeartbeat ==
  /\ step = 0
  /\ s_enabled
  /\ s_hb_enabled' = FALSE
  /\ s_hb_queued_or_active' = FALSE
  /\ s_hb_consecutive_failures' = 0
  /\ UNCHANGED <<clockVars, s_enabled, jobVars, s_retry_not_before_ms, s_hb_cfg,
                 s_hb_next_due_ms, telemetry, adaptorVars>>

\* uart_engine_set_heartbeat(cfg) with a request the engine refuses: the
\* configuration is stored, the schedule stopped.
RefuseHeartbeat(cfg) ==
  /\ step = 0
  /\ s_enabled
  /\ ~RequestIsValid(cfg.req)
  /\ s_hb_cfg' = cfg
  /\ s_hb_enabled' = FALSE
  /\ UNCHANGED <<clockVars, s_enabled, jobVars, s_retry_not_before_ms,
                 s_hb_next_due_ms, s_hb_consecutive_failures,
                 s_hb_queued_or_active, telemetry, adaptorVars>>

\* uart_engine_set_heartbeat(cfg) at time n: due at once.
StartHeartbeat(n, cfg) ==
  /\ step = 0
  /\ s_enabled
  /\ RequestIsValid(cfg.req)
  /\ now' = n
  /\ s_hb_cfg' = [cfg EXCEPT !.failure_threshold =
                    IF cfg.failure_threshold = 0 THEN DefaultThreshold
                                                 ELSE cfg.failure_threshold]
  /\ s_hb_enabled' = TRUE
  /\ s_hb_next_due_ms' = n
  /\ s_hb_consecutive_failures' = 0
  /\ s_hb_queued_or_active' = FALSE
  /\ UNCHANGED <<step, s_enabled, jobVars, s_retry_not_before_ms, telemetry,
                 adaptorVars>>

----------------------------------------------------------------------------
\* One iteration of the tick at clock value n.
Tick(n) ==
  \/ TickDisabled(n) \/ TickGated(n)
  \/ TickIdleEmpty(n) \/ TickIdleNoLock(n) \/ TickIdlePop(n)
  \/ TickTxStart(n) \/ TickTxStartFails(n)
  \/ TickTxDone(n) \/ TickTxTimeout(n) \/ TickTxWaiting(n)
  \/ TickRxNone(n)
  \/ \E bytes \in 0 .. MaxExpectedLen, ends \in BOOLEAN :
       \/ TickRxComplete(n, bytes, ends)
       \/ TickRxFails(n, bytes, ends)
       \/ TickRxWaiting(n, bytes, ends)
  \/ \E reading \in Readings \union {telemetry} : TickProcessOk(n, reading)
  \/ TickProcessFails(n)

\* Clock values the next read can return, and those that show time passed.
Reads == {Add(now, d) : d \in 0 .. MaxStall}
LaterReads == {Add(now, d) : d \in 1 .. MaxStall}

Next ==
  \/ \E n \in Reads : Tick(n)
  \/ \E req \in Requests : Enqueue(req)
  \/ Enable
  \/ Disable
  \/ ClearHeartbeat
  \/ \E cfg \in HbConfigs : RefuseHeartbeat(cfg)
  \/ \E n \in Reads, cfg \in HbConfigs : StartHeartbeat(n, cfg)

Spec == Init /\ [][Next]_vars

\* The main loop never ends: it calls uart_engine_tick() and then vTaskDelay()s
\* for at least a tick period, so ticks keep coming and the clock keeps moving
\* between them.
Fairness == WF_vars(\E n \in LaterReads : Tick(n))

FairSpec == Spec /\ Fairness

----------------------------------------------------------------------------
\* Every variable keeps its type; the queue keeps within its ring.
TypeOK ==
  /\ now \in Time
  /\ step \in 0 .. MaxSteps - 1
  /\ s_enabled \in BOOLEAN
  /\ s_queue \in Seq(JobType)
  /\ Len(s_queue) <= QueueSize
  /\ s_active \in JobType
  /\ s_state \in States
  /\ s_state_start_ms \in Time
  /\ s_retry_not_before_ms \in Time
  /\ s_rx_got \in Nat
  /\ s_hb_enabled \in BOOLEAN
  /\ s_hb_cfg \in CfgType
  /\ s_hb_next_due_ms \in Time
  /\ s_hb_consecutive_failures \in 0 .. U8Max
  /\ s_hb_queued_or_active \in BOOLEAN
  /\ telemetry \in TelemetryType
  /\ AdaptorTypeOK

\* The UART mutex is held exactly while a job is under way, on each of the
\* ways a job can end (success, the five failures, disabling): nobody is locked
\* out by an idle engine and no job runs without the port.
LockDiscipline ==
  /\ s_uart_lock = "held" <=> s_state # "IDLE"
  /\ s_uart_lock = "null" <=> ~s_uart_ready

\* A heartbeat the engine believes to be outstanding really is: otherwise
\* maybe_enqueue_heartbeat() would never queue another one and the loss of the
\* UPS would go unnoticed for good.
HeartbeatNeverWedged ==
  s_hb_queued_or_active =>
    \/ s_state # "IDLE" /\ s_active.is_heartbeat
    \/ \E i \in 1 .. Len(s_queue) : s_queue[i].is_heartbeat

\* What uart_engine.h promises of a disabled engine: jobs dropped, heartbeat
\* stopped, lock released.
DisabledIsInert ==
  ~s_enabled => /\ ~Busy
                /\ s_active = ZeroJob
                /\ ~s_hb_enabled
                /\ ~s_hb_queued_or_active
                /\ s_uart_lock # "held"

\* Whatever is queued, scheduled or under way passed request_is_valid(), also
\* after the heartbeat was reconfigured to a request the engine refuses, so a
\* capture never runs past s_rx_buf and a command always has bytes to send.
CaptureInBounds ==
  /\ \A i \in 1 .. Len(s_queue) : RequestIsValid(s_queue[i].req)
  /\ s_hb_enabled => RequestIsValid(s_hb_cfg.req)
  /\ s_state # "IDLE" => RequestIsValid(s_active.req)
  /\ s_rx_got <= RxCap(s_active.req)
  /\ s_rx_got <= MaxExpectedLen

\* The callback is only given a whole reply of this attempt: all the bytes of
\* a fixed-length one, at least the terminator of the other kind.
ProcessesWholeReply ==
  s_state = "PROCESS" =>
    IF s_active.req.expected_ending
    THEN s_rx_got >= s_active.req.expected_ending_len /\ s_rx_got > 0
    ELSE s_rx_got = s_active.req.expected_len

\* The serial port never comes up: an ESP-IDF call in ups_uart_init_if_needed()
\* fails each time, or failed once after uart_driver_install().
PortStaysDown == <>[](~s_uart_ready)

\* Every attempt ends, whatever the UPS, the driver and the callback do and
\* however often the clock wraps: the engine comes back to IDLE, lock free.
EveryAttemptEnds == (s_state # "IDLE") ~> (s_state = "IDLE")

\* A queued request reaches the head of the queue and is tried, unless the
\* engine is disabled or the port never comes up: retries and heartbeats go to
\* the tail and cannot hold the jobs before them back.
Queued(req) == \E i \in 1 .. Len(s_queue) :
                 s_queue[i].req = req /\ ~s_queue[i].is_heartbeat

Tried(req) == s_state # "IDLE" /\ s_active.req = req /\ ~s_active.is_heartbeat

QueuedIsTried ==
  \A req \in Requests : (Queued(req) ~> (Tried(req) \/ ~s_enabled)) \/ PortStaysDown

\* An enabled heartbeat keeps being sent: again and again one is under way, or
\* the queue has no room for it.
HeartbeatRecurs ==
  \/ []<>(\/ ~s_hb_enabled
          \/ s_state # "IDLE" /\ s_active.is_heartbeat
          \/ QueueIsFull(s_queue))
  \/ PortStaysDown

----------------------------------------------------------------------------
(* What the comments of uart_engine.h say and the code does not do.         *)

\* uart_engine.h:49, "engine will attempt 1 + max_retries total": a job under
\* way has failed at most max_retries times before.
AttemptsBounded ==
  s_state # "IDLE" => s_active.tries <= s_active.req.max_retries

\* UART_ENGINE_RETRY_COOLDOWN_MS: once enabled (uart_engine.h:52, "at runtime")
\* the engine holds a job back no longer than the longest cooldown.
CooldownBounded ==
  s_enabled /\ ~GateOpen(now) =>
    \/ Elapsed(s_retry_not_before_ms, now) <= RetryCooldown
    \/ Elapsed(s_retry_not_before_ms, now) <= InterjobCooldown
==============================================================================
