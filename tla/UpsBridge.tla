------------------------------ MODULE UpsBridge ------------------------------
(***************************************************************************)
(* The firmware's main task (main.c) driving the request engine against a  *)
(* UPS at the other end of the serial line.                                *)
(*                                                                         *)
(* app_main() loops for ever over ups_bootstrap_task(),                    *)
(* ups_dynamic_update_task(), uart_engine_tick() and a delay; `loop` says  *)
(* which of them comes next.  The engine is UartEngine, unchanged: this    *)
(* module only decides what it left open, the bytes uart_read_bytes()      *)
(* returns and the answers of the callbacks, from the state of the line.   *)
(* The firmware never disables the engine nor configures a heartbeat.      *)
(*                                                                         *)
(* The UPS and the line are external.  A command written by the driver is  *)
(* answered once, or not at all (lost command, lost answer, UPS busy), in  *)
(* one piece: answers are shorter than the UART FIFO threshold, so the     *)
(* driver hands them over together.  Bytes are abstracted to a body and a  *)
(* terminator, each tagged with the command it answers.                    *)
(***************************************************************************)
EXTENDS UartEngine

CONSTANTS
  HeartbeatReq,     \* g_spm2k_constant_heartbeat
  ConstantLut,      \* g_spm2k_constant_lut, a sequence of requests
  DynamicLut,       \* g_spm2k_dynamic_lut
  CapacityCmd,      \* the command that reads g_battery.remaining_capacity
  Capacities,       \* the capacities the UPS can report
  Burst,            \* UPS_ENQUEUE_BURST_PER_TICK
  InitRetryPeriod,  \* UPS_INIT_RETRY_PERIOD_MS
  UpdatePeriod,     \* UPS_DYNAMIC_UPDATE_PERIOD_MS
  ReplyWithin,      \* the UPS answers within this time of the command, or never
  MaxDrift,         \* bound: clock advance between two reads in one tick
  MaxWire           \* bound: commands the UPS remembers unanswered

ASSUME BridgeAssumption ==
  /\ HeartbeatReq \in RequestType
  /\ ConstantLut \in Seq(RequestType)
  /\ DynamicLut \in Seq(RequestType)
  /\ Capacities \subseteq Nat
  /\ Burst \in Nat \ {0}
  /\ InitRetryPeriod \in Time /\ UpdatePeriod \in Time
  /\ ReplyWithin \in Nat
  /\ MaxDrift \in 0 .. MaxStall
  /\ MaxWire \in Nat \ {0}

\* Every request of spm2k.c waits for bytes: TickRxNone has no counterpart below.
ASSUME RepliesAssumption ==
  /\ RxCap(HeartbeatReq) > 0
  /\ \A i \in 1 .. Len(ConstantLut) : RxCap(ConstantLut[i]) > 0
  /\ \A i \in 1 .. Len(DynamicLut) : RxCap(DynamicLut[i]) > 0

VARIABLES
  loop,                        \* the call app_main() makes next
  s_ups_bootstrap_state,
  s_bootstrap_constant_idx,
  s_bootstrap_dynamic_idx,
  s_init_retry_not_before_ms,
  s_bootstrap_heartbeat_done,
  s_bootstrap_heartbeat_rx,    \* the captured bytes
  s_dynamic_update_cycle_active,
  s_dynamic_update_idx,
  s_next_dynamic_update_ms,
  s_rx_buf,                    \* the bytes of s_rx_buf up to s_rx_got
  fifo,                        \* external: received bytes the driver holds
  wire,                        \* external: commands the UPS has yet to answer
  settled,                     \* external: nothing is lost or garbled any more
  identified                   \* history: the UPS answered this round's probe

bootVars == <<s_ups_bootstrap_state, s_bootstrap_constant_idx,
              s_bootstrap_dynamic_idx, s_init_retry_not_before_ms>>
captureVars == <<s_bootstrap_heartbeat_done, s_bootstrap_heartbeat_rx>>
dynVars == <<s_dynamic_update_cycle_active, s_dynamic_update_idx,
             s_next_dynamic_update_ms>>
lineVars == <<s_rx_buf, fifo, wire, settled>>
bridgeVars == <<vars, loop, bootVars, captureVars, dynVars, lineVars, identified>>

BootstrapStates ==
  {"ENQUEUE_HEARTBEAT", "WAIT_HEARTBEAT_DRAIN", "HEARTBEAT_VERIFY", "WAIT_RETRY",
   "ENQUEUE_CONSTANT", "ENQUEUE_DYNAMIC", "WAIT_DRAIN", "SANITY_CHECK", "DONE"}

----------------------------------------------------------------------------
\* One byte of an answer: which command it answers, whether it is the
\* terminator, and whether the answer is what the UPS means to say.
Byte == [cmd : Cmd, end : BOOLEAN, good : BOOLEAN]

Answer(cmd, good) == <<[cmd |-> cmd, end |-> FALSE, good |-> good],
                       [cmd |-> cmd, end |-> TRUE,  good |-> good]>>

\* hb_req of ups_bootstrap_task(): the heartbeat with the capture callback.
Probe == [HeartbeatReq EXCEPT !.process_fn = TRUE]

CapturedSomething == s_bootstrap_heartbeat_done

\* ups_bootstrap_heartbeat_matches_expected()
MatchesExpected ==
  /\ s_bootstrap_heartbeat_done
  /\ s_bootstrap_heartbeat_rx = Answer(HeartbeatReq.cmd, TRUE)

AcceptedAtOnce(lut, idx) ==
  IF Len(s_queue) + Len(lut) - idx <= QueueSize THEN Len(lut) - idx ELSE 0

\* ups_enqueue_full_lut_step(): how many requests of lut from idx on
\* uart_engine_enqueue() takes before it refuses one or the burst is used up.
Accepted(lut, idx) ==
  LET fits(k) == /\ k <= Burst
                 /\ Len(s_queue) + k <= QueueSize
                 /\ \A j \in 1 .. k : RequestIsValid(lut[idx + j])
  IN CHOOSE k \in 0 .. Len(lut) - idx :
       fits(k) /\ \A m \in 0 .. Len(lut) - idx : fits(m) => m <= k

QueueAfter(lut, idx) ==
  s_queue \o [j \in 1 .. Accepted(lut, idx) |-> NewJob(lut[idx + j], FALSE)]

----------------------------------------------------------------------------
BridgeInit ==
  /\ Init
  /\ loop = "bootstrap"
  /\ s_ups_bootstrap_state = "ENQUEUE_HEARTBEAT"
  /\ s_bootstrap_constant_idx = 0
  /\ s_bootstrap_dynamic_idx = 0
  /\ s_init_retry_not_before_ms = 0
  /\ s_bootstrap_heartbeat_done = FALSE
  /\ s_bootstrap_heartbeat_rx = <<>>
  /\ s_dynamic_update_cycle_active = FALSE
  /\ s_dynamic_update_idx = 0
  /\ s_next_dynamic_update_ms = 0
  /\ s_rx_buf = <<>>
  /\ fifo = <<>>
  /\ wire = <<>>
  /\ settled = FALSE
  /\ identified = FALSE

\* The engine variables outside the queue, for a call that only enqueues.
EngineRest == <<clockVars, s_enabled, s_active, s_state, s_state_start_ms,
                s_rx_got, s_retry_not_before_ms, hbVars, telemetry, adaptorVars>>

----------------------------------------------------------------------------
(* ups_bootstrap_task(), one action per state.                              *)

Bootstrap(state) ==
  /\ loop = "bootstrap"
  /\ loop' = "dynamic"
  /\ s_ups_bootstrap_state = state
  /\ UNCHANGED <<EngineRest, dynVars, lineVars>>

\* ups_bootstrap_reset_for_retry(now)
ResetForRetry ==
  /\ s_bootstrap_constant_idx' = 0
  /\ s_bootstrap_dynamic_idx' = 0
  /\ s_bootstrap_heartbeat_rx' = <<>>
  /\ s_bootstrap_heartbeat_done' = FALSE
  /\ s_init_retry_not_before_ms' = Add(now, InitRetryPeriod)
  /\ s_ups_bootstrap_state' = "WAIT_RETRY"

\* Queue the probe; a refused one is tried again in the next pass.
EnqueueHeartbeat ==
  /\ Bootstrap("ENQUEUE_HEARTBEAT")
  /\ IF EnqueueResult(Probe) = "OK"
     THEN /\ s_queue' = Append(s_queue, NewJob(Probe, FALSE))
          /\ s_bootstrap_heartbeat_done' = FALSE
          /\ s_ups_bootstrap_state' = "WAIT_HEARTBEAT_DRAIN"
          /\ identified' = FALSE
     ELSE UNCHANGED <<s_queue, s_bootstrap_heartbeat_done, s_ups_bootstrap_state,
                      identified>>
  /\ UNCHANGED <<s_bootstrap_heartbeat_rx, s_bootstrap_constant_idx,
                 s_bootstrap_dynamic_idx, s_init_retry_not_before_ms>>

\* The states that only wait for a condition.
WaitFor(state, condition, next) ==
  /\ Bootstrap(state)
  /\ s_ups_bootstrap_state' = IF condition THEN next ELSE state
  /\ UNCHANGED <<s_queue, s_bootstrap_constant_idx, s_bootstrap_dynamic_idx,
                 s_init_retry_not_before_ms, captureVars, identified>>

WaitHeartbeatCapture ==
  WaitFor("WAIT_HEARTBEAT_DRAIN", s_bootstrap_heartbeat_done, "HEARTBEAT_VERIFY")

WaitHeartbeatDrain == WaitFor("WAIT_HEARTBEAT_DRAIN", ~Busy, "HEARTBEAT_VERIFY")
WaitRetry == WaitFor("WAIT_RETRY", ~Before(now, s_init_retry_not_before_ms),
                     "ENQUEUE_HEARTBEAT")
WaitDrain == WaitFor("WAIT_DRAIN", ~Busy, "SANITY_CHECK")

HeartbeatVerify ==
  /\ Bootstrap("HEARTBEAT_VERIFY")
  /\ IF MatchesExpected
     THEN /\ s_ups_bootstrap_state' = "ENQUEUE_CONSTANT"
          /\ UNCHANGED <<s_bootstrap_constant_idx, s_bootstrap_dynamic_idx,
                         s_init_retry_not_before_ms, captureVars>>
     ELSE ResetForRetry
  /\ UNCHANGED <<s_queue, identified>>

EnqueueConstant ==
  /\ Bootstrap("ENQUEUE_CONSTANT")
  /\ s_queue' = QueueAfter(ConstantLut, s_bootstrap_constant_idx)
  /\ s_bootstrap_constant_idx' =
       s_bootstrap_constant_idx + Accepted(ConstantLut, s_bootstrap_constant_idx)
  /\ s_ups_bootstrap_state' = IF s_bootstrap_constant_idx' >= Len(ConstantLut)
                              THEN "ENQUEUE_DYNAMIC" ELSE "ENQUEUE_CONSTANT"
  /\ UNCHANGED <<s_bootstrap_dynamic_idx, s_init_retry_not_before_ms, captureVars,
                 identified>>

EnqueueDynamic ==
  /\ Bootstrap("ENQUEUE_DYNAMIC")
  /\ s_queue' = QueueAfter(DynamicLut, s_bootstrap_dynamic_idx)
  /\ s_bootstrap_dynamic_idx' =
       s_bootstrap_dynamic_idx + Accepted(DynamicLut, s_bootstrap_dynamic_idx)
  /\ s_ups_bootstrap_state' = IF s_bootstrap_dynamic_idx' >= Len(DynamicLut)
                              THEN "WAIT_DRAIN" ELSE "ENQUEUE_DYNAMIC"
  /\ UNCHANGED <<s_bootstrap_constant_idx, s_init_retry_not_before_ms, captureVars,
                 identified>>

\* The capacity read must not be 0; the first refresh is one period away.
SanityPasses ==
  /\ loop = "bootstrap"
  /\ loop' = "dynamic"
  /\ s_ups_bootstrap_state = "SANITY_CHECK"
  /\ telemetry.remaining_capacity > 0
  /\ s_next_dynamic_update_ms' = Add(now, UpdatePeriod)
  /\ s_ups_bootstrap_state' = "DONE"
  /\ UNCHANGED <<vars, s_bootstrap_constant_idx, s_bootstrap_dynamic_idx,
                 s_init_retry_not_before_ms, captureVars,
                 s_dynamic_update_cycle_active, s_dynamic_update_idx, lineVars,
                 identified>>

SanityFails ==
  /\ Bootstrap("SANITY_CHECK")
  /\ telemetry.remaining_capacity = 0
  /\ ResetForRetry
  /\ UNCHANGED <<s_queue, identified>>

BootstrapDone ==
  /\ Bootstrap("DONE")
  /\ UNCHANGED <<s_queue, bootVars, captureVars, identified>>

BootstrapTask ==
  \/ EnqueueHeartbeat \/ WaitHeartbeatDrain \/ HeartbeatVerify \/ WaitRetry
  \/ EnqueueConstant \/ EnqueueDynamic \/ WaitDrain
  \/ SanityPasses \/ SanityFails \/ BootstrapDone

----------------------------------------------------------------------------
(* ups_dynamic_update_task()                                                *)

Dynamic ==
  /\ loop = "dynamic"
  /\ loop' = "tick"
  /\ UNCHANGED <<EngineRest, bootVars, captureVars, lineVars, identified>>

\* A cycle is under way after the first part of the function.
CycleRuns ==
  /\ s_ups_bootstrap_state = "DONE"
  /\ s_dynamic_update_cycle_active \/ ~Before(now, s_next_dynamic_update_ms)

CycleIdxKept == s_dynamic_update_idx

\* The index it then has: a cycle that starts now starts from 0.
CycleIdx == IF s_dynamic_update_cycle_active THEN s_dynamic_update_idx ELSE 0

DynamicIdle ==
  /\ Dynamic
  /\ ~CycleRuns
  /\ UNCHANGED <<s_queue, dynVars>>

DynamicEnqueue ==
  /\ Dynamic
  /\ CycleRuns
  /\ CycleIdx < Len(DynamicLut)
  /\ s_dynamic_update_cycle_active' = TRUE
  /\ s_queue' = QueueAfter(DynamicLut, CycleIdx)
  /\ s_dynamic_update_idx' = CycleIdx + Accepted(DynamicLut, CycleIdx)
  /\ UNCHANGED s_next_dynamic_update_ms

DynamicDrainEager ==
  /\ Dynamic
  /\ CycleRuns
  /\ CycleIdx >= Len(DynamicLut)
  /\ s_dynamic_update_cycle_active' = FALSE
  /\ s_dynamic_update_idx' = CycleIdx
  /\ s_next_dynamic_update_ms' = Add(now, UpdatePeriod)
  /\ UNCHANGED s_queue

\* Everything is queued: the cycle ends when the engine has drained it.
DynamicDrain ==
  /\ Dynamic
  /\ CycleRuns
  /\ CycleIdx >= Len(DynamicLut)
  /\ s_dynamic_update_cycle_active' = Busy
  /\ s_dynamic_update_idx' = CycleIdx
  /\ s_next_dynamic_update_ms' = IF Busy THEN s_next_dynamic_update_ms
                                         ELSE Add(now, UpdatePeriod)
  /\ UNCHANGED s_queue

DynamicTask == DynamicIdle \/ DynamicEnqueue \/ DynamicDrain

----------------------------------------------------------------------------
(***************************************************************************)
(* uart_engine_tick(): the iterations of UartEngine, with the line.  The   *)
(* clock cannot pass the time by which the UPS answers, if it does, while  *)
(* an answer is outstanding.                                               *)
(***************************************************************************)
InTime(n) == \A i \in 1 .. Len(wire) : Elapsed(n, wire[i].at) <= ReplyWithin

\* The bytes the next UART2_Read() returns, and s_rx_buf with them.
ReadLen == LET want == RxCap(s_active.req) - s_rx_got
           IN  IF Len(fifo) < want THEN Len(fifo) ELSE want
NewBufWhole == s_rx_buf \o fifo

NewBuf == s_rx_buf \o SubSeq(fifo, 1, ReadLen)
EndSeen == ReadLen > 0 /\ s_active.req.expected_ending /\ NewBuf[Len(NewBuf)].end

\* What the parser of the active command can make of s_rx_buf: a garbled reply
\* is refused, its own accepted, the reply of another command either.
CanParse == \A i \in 1 .. Len(s_rx_buf) : s_rx_buf[i].good
CanRefuse == \E i \in 1 .. Len(s_rx_buf) :
               ~s_rx_buf[i].good \/ s_rx_buf[i].cmd # s_active.req.cmd

\* What the parser stores.
Parsed ==
  IF s_active.req.cmd = CapacityCmd
  THEN {[telemetry EXCEPT !.remaining_capacity = c, !.fully_charged = c >= 100] :
          c \in {k \in Capacities : settled => k > 0}}
  ELSE {telemetry}

\* ups_bootstrap_heartbeat_capture() stores the bytes, whatever they are.
Capture ==
  IF s_active.req = Probe
  THEN s_bootstrap_heartbeat_rx' = s_rx_buf /\ s_bootstrap_heartbeat_done' = TRUE
  ELSE UNCHANGED captureVars

\* Iterations that do not touch the line.
TickQuiet(n) ==
  /\ \/ TickGated(n) \/ TickIdleEmpty(n) \/ TickIdleNoLock(n) \/ TickIdlePop(n)
     \/ TickTxWaiting(n)
  /\ UNCHANGED <<lineVars, captureVars>>

NothingDiscarded == fifo

\* UART2_DiscardBuffered()
Discarded == <<>>

\* The command leaves; what was received before is discarded.
TickSend(n) ==
  /\ \/ /\ TickTxStart(n)
        /\ wire' = IF Len(wire) < MaxWire
                   THEN Append(wire, [cmd |-> s_active.req.cmd, at |-> n]) ELSE wire
     \/ /\ ~settled
        /\ TickTxStartFails(n)
        /\ UNCHANGED wire
  /\ fifo' = Discarded
  /\ UNCHANGED <<s_rx_buf, settled, captureVars>>

TickSent(n) ==
  /\ TickTxDone(n) \/ (~settled /\ TickTxTimeout(n))
  /\ s_rx_buf' = <<>>
  /\ UNCHANGED <<fifo, wire, settled, captureVars>>

TickReceive(n) ==
  /\ \/ /\ TickRxComplete(n, ReadLen, EndSeen) \/ TickRxWaiting(n, ReadLen, EndSeen)
        /\ s_rx_buf' = NewBuf
     \/ /\ TickRxFails(n, ReadLen, EndSeen)
        /\ s_rx_buf' = <<>>
  /\ fifo' = SubSeq(fifo, ReadLen + 1, Len(fifo))
  /\ UNCHANGED <<wire, settled, captureVars>>

\* A missing callback and the capture accept anything.
Unparsed == ~s_active.req.process_fn \/ s_active.req = Probe

TickProcess(n) ==
  /\ \/ /\ Unparsed \/ CanParse
        /\ \E reading \in Parsed : TickProcessOk(n, reading)
        /\ Capture
     \/ /\ ~Unparsed /\ CanRefuse
        /\ TickProcessFails(n)
        /\ UNCHANGED captureVars
  /\ s_rx_buf' = <<>>
  /\ UNCHANGED <<fifo, wire, settled>>

TickTask ==
  /\ loop = "tick"
  /\ \E n \in {Add(now, d) : d \in 0 .. MaxDrift} :
       /\ InTime(n)
       /\ TickQuiet(n) \/ TickSend(n) \/ TickSent(n) \/ TickReceive(n) \/ TickProcess(n)
  /\ loop' = IF step' = 0 THEN "delay" ELSE "tick"
  /\ UNCHANGED <<bootVars, dynVars, identified>>

\* ups_loop_delay_safe(): at least one tick period passes.
LoopDelay ==
  /\ loop = "delay"
  /\ loop' = "bootstrap"
  /\ now' \in {n \in LaterReads : InTime(n)}
  /\ UNCHANGED <<step, s_enabled, jobVars, s_retry_not_before_ms, hbVars, telemetry,
                 adaptorVars, bootVars, captureVars, dynVars, lineVars, identified>>

----------------------------------------------------------------------------
(* The UPS.                                                                 *)

UpsAnswers(good) ==
  /\ wire # <<>>
  /\ fifo' = fifo \o Answer(Head(wire).cmd, good)
  /\ wire' = Tail(wire)
  /\ identified' = (identified \/ (good /\ Head(wire).cmd = HeartbeatReq.cmd))
  /\ UNCHANGED <<vars, loop, bootVars, captureVars, dynVars, s_rx_buf, settled>>

UpsSilent ==
  /\ ~settled
  /\ wire # <<>>
  /\ wire' = Tail(wire)
  /\ UNCHANGED <<vars, loop, bootVars, captureVars, dynVars, s_rx_buf, fifo,
                 settled, identified>>

\* From now on every command is answered, and the battery is not empty.
UpsSettles ==
  /\ ~settled
  /\ settled' = TRUE
  /\ UNCHANGED <<vars, loop, bootVars, captureVars, dynVars, s_rx_buf, fifo, wire,
                 identified>>

Ups == UpsAnswers(TRUE) \/ (~settled /\ UpsAnswers(FALSE)) \/ UpsSilent

----------------------------------------------------------------------------
MainTask == BootstrapTask \/ DynamicTask \/ TickTask \/ LoopDelay

BridgeNext == MainTask \/ Ups \/ UpsSettles

BridgeSpec == BridgeInit /\ [][BridgeNext]_bridgeVars

\* The same when UART2_RxStartIT() has brought the port up at boot.
PortUpInit == BridgeInit /\ s_uart_ready
PortUpSpec == PortUpInit /\ [][BridgeNext]_bridgeVars

\* The main task is never blocked for good, and the UPS keeps its time limit.
BridgeFairSpec == BridgeSpec /\ WF_bridgeVars(MainTask) /\ WF_bridgeVars(Ups)

----------------------------------------------------------------------------
\* Type invariant of the variables this module adds.
BridgeTypeOK ==
  /\ TypeOK
  /\ loop \in {"bootstrap", "dynamic", "tick", "delay"}
  /\ s_ups_bootstrap_state \in BootstrapStates
  /\ s_bootstrap_constant_idx \in 0 .. Len(ConstantLut)
  /\ s_bootstrap_dynamic_idx \in 0 .. Len(DynamicLut)
  /\ s_init_retry_not_before_ms \in Time
  /\ s_bootstrap_heartbeat_done \in BOOLEAN
  /\ s_bootstrap_heartbeat_rx \in Seq(Byte)
  /\ s_dynamic_update_cycle_active \in BOOLEAN
  /\ s_dynamic_update_idx \in 0 .. Len(DynamicLut)
  /\ s_next_dynamic_update_ms \in Time
  /\ s_rx_buf \in Seq(Byte) /\ Len(s_rx_buf) = s_rx_got
  /\ fifo \in Seq(Byte)
  /\ wire \in Seq([cmd : Cmd, at : Time])
  /\ settled \in BOOLEAN
  /\ identified \in BOOLEAN

\* The telemetry requests of a bootstrap round go out only after the UPS has
\* answered the probe of that same round: a capture left over from an earlier
\* round never lets a silent UPS through.
TelemetryStates == {"ENQUEUE_CONSTANT", "ENQUEUE_DYNAMIC", "WAIT_DRAIN",
                    "SANITY_CHECK", "DONE"}

IdentifiedFirst == s_ups_bootstrap_state \in TelemetryStates => identified

\* A job outstanding belongs to the phase of the bootstrap: the probe while it
\* is waited for, table requests afterwards, nothing while a retry is waited
\* for or the next round about to begin.
Outstanding ==
  {s_queue[i].req : i \in 1 .. Len(s_queue)} \union
  (IF s_state = "IDLE" THEN {} ELSE {s_active.req})

JobsFitPhase ==
  Outstanding \subseteq
    CASE s_ups_bootstrap_state = "WAIT_HEARTBEAT_DRAIN" -> {Probe}
      [] s_ups_bootstrap_state \in TelemetryStates \ {"SANITY_CHECK"} ->
           {ConstantLut[i] : i \in 1 .. Len(ConstantLut)} \union
           {DynamicLut[i] : i \in 1 .. Len(DynamicLut)}
      [] OTHER -> {}

\* A refresh never starts before the previous one has drained, however slow
\* the UPS: no request is queued twice.
NoPileUp ==
  /\ \A i, j \in 1 .. Len(s_queue) : i # j => s_queue[i] # s_queue[j]
  /\ s_state # "IDLE" => \A i \in 1 .. Len(s_queue) : s_queue[i].req # s_active.req

\* The ring holds a whole bootstrap: with Len(ConstantLut) + Len(DynamicLut) at
\* most QueueSize, a table step is never refused for want of room.
QueueNeverRefuses ==
  Len(ConstantLut) + Len(DynamicLut) <= QueueSize =>
    /\ s_ups_bootstrap_state = "ENQUEUE_HEARTBEAT" => ~QueueIsFull(s_queue)
    /\ s_ups_bootstrap_state = "ENQUEUE_CONSTANT" =>
         Len(s_queue) + Len(ConstantLut) - s_bootstrap_constant_idx
           + Len(DynamicLut) - s_bootstrap_dynamic_idx <= QueueSize
    /\ s_ups_bootstrap_state = "ENQUEUE_DYNAMIC" =>
         Len(s_queue) + Len(DynamicLut) - s_bootstrap_dynamic_idx <= QueueSize
    /\ s_dynamic_update_cycle_active =>
         Len(s_queue) + Len(DynamicLut) - s_dynamic_update_idx <= QueueSize

\* The bytes a callback is given answer the command it is given with them,
\* provided the UPS answers within both time limits of the engine: the reply
\* to an attempt that was given up is discarded before the next command.
ReplyOfThisCommand ==
  s_state = "PROCESS" =>
    \A i \in 1 .. Len(s_rx_buf) : s_rx_buf[i].cmd = s_active.req.cmd

\* In the firmware, with the port up, the cooldown never holds the engine longer
\* than it says: a job ends often enough for the gate not to fall half a clock
\* turn behind.
CooldownHolds == CooldownBounded

\* Once bootstrapped the tables are read again and again, whatever the UPS
\* answers or fails to.
RefreshRecurs ==
  s_ups_bootstrap_state = "DONE" ~>
    /\ []<>s_dynamic_update_cycle_active
    /\ []<>~s_dynamic_update_cycle_active

\* The bootstrap never gets stuck: it completes or begins another round.
BootstrapRetries ==
  PortStaysDown \/ []<>(s_ups_bootstrap_state \in {"ENQUEUE_HEARTBEAT", "DONE"})

\* Once the UPS answers every command and its battery is not empty the bootstrap
\* completes, whatever was lost and garbled before.
BootstrapCompletes ==
  PortStaysDown \/ (settled ~> s_ups_bootstrap_state = "DONE")
==============================================================================
