# Verification of the ESP32 UPS serial-to-SNMP bridge

TLA+ specifications of the firmware in `src/`: a main task polls a UPS over a
serial line through a non-blocking request engine, keeps the answers in global
structures, and an SNMP agent serves those structures over Wi-Fi.

The modules cover the path a reading takes from the UPS to a manager: the clock, the
UART adaptor, the request engine and its job ring, the main task with a UPS at the end of
the line, the parsers and the telemetry they fill in, the SNMP agent with its lookups,
encoding and values, and the start-up with the Wi-Fi client. Every safety property, and that the engine, its
ring and the SNMP agent implement what they promise, is model-checked on a small
instance and proved for every value of the constants; the liveness properties are model-checked.

## 1. The system

| Component | Source | State it keeps | Operations | Talks to |
|---|---|---|---|---|
| UART request engine | `uart_engine.c/.h` | job ring `s_queue`, active job and its state, capture `s_rx_buf`/`s_rx_got`, cooldown `s_retry_not_before_ms`, heartbeat schedule | `init`, `set_enabled`, `is_busy`, `enqueue`, `set_heartbeat`, `tick` | UART adaptor (calls), `process_fn` callbacks, telemetry (forced on UPS loss) |
| UART adaptor | `uart_adaptor.c` | `s_uart_ready`, mutex `s_uart_lock`, `s_tx_inflight` | init on demand, `TryLock`/`Unlock`, send, `TxDone`, `Read`, `DiscardBuffered`, `ups_tick_ms` | ESP-IDF UART driver, FreeRTOS mutex |
| Main task | `main.c` | bootstrap state and indices, captured heartbeat reply, refresh cycle and its deadline | `ups_bootstrap_task`, `ups_dynamic_update_task`, the loop of `app_main` | engine (enqueue, is_busy, tick), telemetry (sanity check), request tables |
| SPM2K sub-adapter | `spm2k.c/.h` | constant tables; parsers write the telemetry | 13 `spm2k_process_*` callbacks | called by the engine |
| Telemetry | `ups_data.h`, globals of `main.c` | battery, input, output, status bits | plain reads and writes, no lock | written by the main task, read by the SNMP task |
| SNMP agent | `snmp_agent.c/.h` | `s_snmp_started`, OID table, one request/response buffer | decode, lookup, GET/GETNEXT, encode, UDP loop in its own task | telemetry, Wi-Fi, lwIP |
| Wi-Fi client | `wifi_client.c/.h` | `s_wifi_started`, event group | start with bounded wait, event handler, `is_connected` | ESP-IDF events |
| Build, script | `platformio.ini`, `scripts/check_snmp.ps1` | none | host side | - |

### What is hard in it

* **One job, many endings.** A request goes IDLE -> TX_START -> TX_WAIT -> RX_WAIT ->
  PROCESS -> IDLE over many ticks; it can succeed, fail in five places, be retried, or
  be dropped when the engine is disabled. Each ending has to release the mutex, clear
  the capture and account for the heartbeat.
* **A shared ring.** Callers, retries and the heartbeat scheduler push into one bounded
  ring; a retry can find it full.
* **A wrapping clock.** All timers are `uint32_t` milliseconds, compared as signed or
  unsigned differences.
* **An unreliable partner.** Commands and answers get lost, garbled, or arrive after
  their attempt was given up; the line has no message identity.
* **Phases inferred from emptiness.** The bootstrap and the refresh cycle know that
  "their" jobs are done only because the engine is not busy.
* **Two tasks, no lock.** The SNMP task preempts the main task in the middle of a
  callback's writes.

### What makes each part correct

* *Engine*: mutex held exactly during a job; capture within the buffer; callbacks see only
  whole replies; jobs neither lost, duplicated nor overtaken; a disabled engine holds
  nothing; the heartbeat monitor neither wedges nor starves; every attempt ends; no queued
  job starves.
* *Main task*: telemetry requests only after the UPS of this round identified itself; a
  phase only ever has its own jobs outstanding; refreshes do not pile up nor overflow the
  ring; bootstrap and refresh keep going against any UPS, and complete with a good one.
* *Adaptor*: initialisation is all-or-nothing for its callers; a lock is never left held.
* *SPM2K parsers and telemetry*: what a manager gets is what the UPS said last, in the unit of
  the object and off by less than one unit, at every limit of a parser or a field; a reply is
  taken as a whole or not at all; battery status and output source follow the last word on each
  flag, also when the SNMP task reads between two assignments.
* *SNMP agent*: a GET answers for the object it names and a walk gives each object of its tree once,
  in the order of the MIB, and ends, over a network that loses, repeats and reorders; a request
  decodes to what was asked or to nothing; encoded lengths agree with the bytes written; what fits
  the request buffer has an answer that fits; no datagram stops the task.
* *Wi-Fi and start-up*: no event is missed by a handler registered too late; the start ends within its
  wait; the station comes back after each loss; the connected bit does not stay wrong.

## 2. The modules

    TickClock      UartAdaptor        JobService (abstract)         Fifo (abstract)
         \            /                     |                          |
          UartEngine ------------- EngineRefinesService             RingQueue -- RingQueueProofs
          /        \                    |     \                        |
    UpsBridge    UartEngineProofs -----'   MCUartEngine             MCRingQueue
        |             |
        |        UpsBridgeProofs (over UpsBridge too) -- BridgeTimeProofs
    MCUpsBridge

    Spm2k   OidTable   SnmpOid ---- MibWalk (abstract)      UpsMib        WifiClient
       \     /    \     /    \        |                     /                |
     UpsTelemetry   \  /     SnmpAgent -- SnmpAgentProofs  /             MCWifiClient
          |        SnmpCodec ------------------------------'              WifiClientProofs
    MCUpsTelemetry    |          (MCSnmpAgent extends SnmpAgent)
    UpsTelemetryProofs|
                  MCSnmpCodec
                  SnmpCodecProofs

| Module | Models | Code |
|---|---|---|
| `TickClock` | modular timestamps, elapsed time, signed "before" and "after" | `ups_tick_ms`, the casts to `int32_t` |
| `UartAdaptor` | one action fragment per `UART2_*` call the engine makes | `uart_adaptor.c` |
| `UartEngine` | the whole engine: one action per outcome of an iteration of `uart_engine_tick()`, one per API call | `uart_engine.c` |
| `JobService` | what the engine promises: a bounded FIFO service, one job at a time | abstract |
| `EngineRefinesService` | the refinement mapping from `UartEngine` to `JobService` | - |
| `UpsBridge` | bootstrap, refresh cycle, main loop, the serial line and the UPS around the engine | `main.c`, callbacks of `spm2k.c` |
| `RingQueue` | the ring of jobs as it is kept: array, head, tail and count in eight bits | `queue_*` of `uart_engine.c` |
| `Fifo` | a bounded first-in first-out queue | abstract |
| `Spm2k` | the parsers: from a reply to the assignments it causes | `spm2k.c` |
| `UpsTelemetry` | the parsers' assignments one by one, interleaved with the answers of the SNMP task | `ups_data.h`, `spm2k.c`, `snmp_get_value_by_index()` |
| `OidTable` | the table of OIDs | `k_oid_table` |
| `SnmpOid` | comparison and the two lookups over any table | `snmp_oid_compare`, `snmp_lookup_*` |
| `SnmpAgent` | start, socket, one action per pass of the task's loop; the network and the managers around it | `snmp_agent_start`, `snmp_agent_task` |
| `MibWalk` | what a manager is promised: gets and walks of the MIB | abstract |
| `SnmpCodec` | decoder and encoder byte by byte, around the lookup in the real table | `snmp_decode_request`, `snmp_build_response` and what they call |
| `UpsMib` | how a manager names objects, by sub-identifiers, and their order | external |
| `WifiClient` | `app_main()` up to its loop, `wifi_client_start()`, the event handler, resets | `wifi_client.c`, `main.c` |
| `UartEngineProofs` | the engine's safety theorems, and that `UartEngine` implements `JobService` | - |
| `RingQueueProofs` | the theorem that `RingQueue` implements `Fifo` | - |
| `SnmpAgentProofs` | the theorem that `SnmpAgent` implements `MibWalk` | - |
| `SnmpCodecProofs` | the theorems of the decoder, the lookup by encoded bytes and the encoder | - |
| `WifiClientProofs` | the theorem that no order of events strands the station | - |
| `UpsBridgeProofs` | the safety theorems of the main task over the engine and the line | - |
| `BridgeTimeProofs` | the safety theorems of the main task that depend on time limits | - |
| `UpsTelemetryProofs` | the theorems that managers are told what the UPS said | - |
| `MC*` | small instances | - |

### How state and actions correspond

Variables carry the names of the C statics. `s_queue` is the content of the ring, oldest
first; head, tail and count are folded into the sequence, and the type invariant says it
never holds more than `QueueSize` jobs. In `UartEngine` the receive buffer is its length `s_rx_got`;
whether it ends with the terminator is chosen where `rx_has_expected_ending()` looks. In `UpsBridge` the
bytes are there (`s_rx_buf`, `fifo`), each tagged with the command it answers.

`uart_engine_tick()` runs up to `UART_ENGINE_MAX_STEPS_PER_TICK` iterations and reads the clock in
each. One iteration is one action: `Iteration(n)` with clock value `n` runs
`maybe_enqueue_heartbeat()` (`QueueH`, `FlagH`), then the cooldown gate, then one branch of the
switch. `step` counts iterations; API calls are possible only at `step = 0` because one task makes
all calls. `TickEnds` is an early `return` or `progressed == false`, `Progressed` another turn of the
loop.

| C | action |
|---|---|
| disabled / gate closed | `TickDisabled`, `TickGated` |
| IDLE | `TickIdleEmpty`, `TickIdleNoLock`, `TickIdlePop` |
| TX_START, `job_start_tx()` | `TickTxStart`, `TickTxStartFails` |
| TX_WAIT | `TickTxDone`, `TickTxTimeout`, `TickTxWaiting` |
| RX_WAIT | `TickRxNone`, `TickRxComplete`, `TickRxFails`, `TickRxWaiting` |
| PROCESS | `TickProcessOk`, `TickProcessFails` |
| `job_finish_failure()`, `on_job_final_failure()` | `JobFailure`, `FinalFailure`, part of the failing actions |
| `uart_engine_enqueue`, `set_enabled` | `Enqueue`, `Enable`, `Disable` |
| `uart_engine_set_heartbeat` | `ClearHeartbeat`, `RefuseHeartbeat`, `StartHeartbeat` |

The adaptor fragments (`TryLockSucceeds`, `SendStarted`, `TxDone`, ...) constrain the adaptor's
variables inside these actions. `ups_uart_init_if_needed()` is retried by every call, and a failure
after `uart_driver_install()` makes all later attempts fail, so the model has ports that come up at boot, late,
or never.

In `UpsBridge` `loop` walks through the calls of the main loop; each bootstrap state is an action, and the
engine's own actions are conjoined with the line: how many bytes a read returns, which
terminator is seen and what the parser may answer follow from the bytes. The UPS answers the
commands it received in order, in one piece, or loses, garbles or ignores them, until the external
variable `settled` says that from now on it does none of it.
Each environment choice of `UartEngine` is thereby resolved, and no action of the engine is changed.

Two history variables exist for the properties only: `tries` (failed attempts of a job) and
`identified` (the UPS has answered the probe of this round).

**Ring.** `UartEngine` has the ring as a sequence; `RingQueue` has the array with its eight-bit head, tail and
count, and implements `Fifo`, so the abstraction is sound.

**Telemetry.** `Spm2k` gives for each parser the sequence of assignments a reply leads to, in the order of
the code. A text is what it says: a number with sign, whole part and decimals, a list, flags, a date, or garbage. In
`UpsTelemetry` a callback puts its assignments into `todo` and `AssignNext` performs one at a time. The target is
a single core (`sdkconfig.esp32-c3-devkitm-1` sets `CONFIG_FREERTOS_UNICORE`), and the SNMP task has the higher priority: it can run
between any two assignments, but no assignment runs while it computes an answer. So an answer is a
function of the state (`Values`, in the order of `k_oid_table`), and invariants over all states say what any
manager can be told at any time. `said`, `raised`, `mains`, `drawn` are histories of what the UPS said.

**SNMP.** In `SnmpAgent` a datagram is the record it decodes to, and a pass of the loop, from
`recvfrom()` to `sendto()`, is one action (`Handle`): the task shares nothing that this module keeps. Managers are
the `snmpget` and `snmpwalk` that `scripts/check_snmp.ps1` runs. The bytes are in `SnmpCodec`: `ByteArrives` takes one more
byte of the datagram up to the 512 of `rx_buf`, `Answer` is what the loop does with the bytes there are.

**Start-up.** `WifiClient.Steps` is the order of the calls; each step is an action that succeeds, returns early or
ends in `abort()`, which is a reset. The handler's branches run in the event task, in the order of the queue.

Operators that no action uses (for example `RequeueFirst`, `BusyForgetsActive`) are wrong
variants of the definition that follows them. They are substituted for that definition to see that the
properties notice (the table of mutants in `PROJECT.json`).

## 3. Runs

| Run | Question | Result |
|---|---|---|
| `EngineJobs` | All request shapes, all endings, retries, enable/disable, a refused heartbeat, ticks of two iterations. `TypeOK`, `LockDiscipline`, `DisabledIsInert`, `CaptureInBounds`, `ProcessesWholeReply`, `ImplementsService` (refinement), `EveryAttemptEnds` and `QueuedIsTried` (liveness) | holds |
| `EngineHeartbeat` | Heartbeat configured, cleared, reconfigured at any time beside a data request. `HeartbeatNeverWedged`, `HeartbeatRecurs` (liveness), `ImplementsService` | holds |
| `EngineAttempts` | `AttemptsBounded`: 1 + max_retries attempts | violated, see below |
| `EngineCooldown` | `CooldownBounded`: the gate closes for a cooldown at most | violated, see below |
| `BridgeSafety` | The main task against a faulty UPS, port up. `BridgeTypeOK`, `IdentifiedFirst`, `JobsFitPhase`, `NoPileUp`, `QueueNeverRefuses`, `CooldownHolds` | holds |
| `BridgeDrift` | The clock moves inside a tick, answers up to their time limit. `ReplyOfThisCommand` | holds |
| `BridgeProgress` | Port up, late or never; a UPS that is faulty until, if ever, it settles; a table longer than the ring. `RefreshRecurs`, `BootstrapRetries`, `BootstrapCompletes` (liveness) | holds |
| `RingQueue` | Pushes, pops and resets in every order. `InRing`, `ImplementsFifo` (refinement) | holds |
| `Telemetry` | Three kinds of session with a UPS: measurements, ratings, status. `TypeOK`, `MeasuresTrue`, `RatingsTrue`, `StatusTrue`, `ChargeOrDischarge`, `TornOnlyOnExchange` | holds |
| `Snmp` | A walk and a get over a bad network; over a good one, beside managers that ask in vain. `TypeOK`, `ImplementsMibWalk` (refinement), `ServesAll` (liveness) | holds |
| `SnmpCodec` | Datagrams of every shape, cut off after every byte. `DecodesWhatWasAsked`, `ReplyIsBer`, `AlwaysAnswered`, `NextInMibOrder` | holds |
| `WifiClient` | The start-up with failures and resets, a link that comes and goes. `NeverStranded`, `LoopReached`, `Reconnects`, `BitFollowsLink` (the last three liveness) | holds |

Deadlock is checked in the runs of the engine and of the bridge, which never stop. The others stop where their bound
on replies, retries or resets is used up or the one request is answered, and do not check it.

### Findings

1. **Retries never end** (`EngineAttempts`). `job_finish_failure()` decrements `retries_left` and pushes the
   request again, but `queue_push()` sets `retries_left` from `max_retries` anew (`uart_engine.c:178`). A
   request with `max_retries > 0` that keeps failing is tried for ever, where `uart_engine.h:49` says
   1 + `max_retries` attempts. It also means that `is_busy()` stays true and that a heartbeat with
   retries never counts a failure. The SPM2K tables use `max_retries = 0`, so the firmware as built does not meet it.
2. **Stale cooldown gate** (`EngineCooldown`). The deadline `s_retry_not_before_ms` is only written when a
   job ends or the engine is reset (to 0). After 2^31 ms without a job, or when re-enabled with the clock in its upper half, the signed
   comparison takes the old deadline for a future one and the engine refuses all work, up to 24.8 days. `CooldownHolds`
   shows that the main task's polling keeps this from happening once the port is up.

Also seen in the source, each without a run of its own:

* `uart_engine.h:111-112` says that on UPS loss the battery fields are forced to 0; `on_job_final_failure()` writes 1
  (`uart_engine.c:328`).
* `upsSecondsOnBattery`, the time since the mains failed in RFC 1628, is answered with the run time that is left
  (`snmp_agent.c:605`), which falls while the UPS is on battery.
* The firmware never calls `uart_engine_set_heartbeat()`, so nothing notices a UPS that falls silent after the bootstrap.
* A battery at 0 % never finishes the bootstrap.
* A reply later than the time limits of its attempt is indistinguishable from the next one's (`ReplyOfThisCommand` needs
  `ReplyWithin` below both limits).
* When a low battery becomes one to replace within one status reply, a manager that reads between the two assignments sees
  status 4, then 2, then 4 (`TornOnlyOnExchange` shows that this is the only such case for the status).
* `upsBatteryStatus` is 4 (depleted) also for a battery to be replaced, and before the first capacity has been read;
  `upsOutputSource` is 6 when neither the mains nor discharging was ever reported.
* `upsEstimatedMinutesRemaining` stops at 1092: seconds have sixteen bits and the parser clamps them.
* A negative amount that rounds to nothing is accepted where negative amounts are refused.
* `snmp_agent_start()` cannot tell a serving task from one that ended because the socket could not be bound.
* A lost address without a lost link (`IP_EVENT_STA_LOST_IP`) is not handled: the connected bit stays set until the link goes.

## 4. Bounds and why they are enough

| Constant | Value | Why |
|---|---|---|
| `ClockMod` | 6 (engine), 8 to 24 (bridge) | The clock wraps many times in every behaviour; half of it exceeds every timeout and period in use, as 2^31 ms does in the firmware. In `BridgeSafety` half of it also exceeds a whole cycle as that instance runs it, so `CooldownHolds` is about the real ratio. `CooldownHoldsAlways` asks for 38 there, because it adds up the worst case of each state of a cycle. |
| `MaxStall` | 1 | Advance between two reads. Longer stalls are several reads for the states that wait; both sides of every deadline are hit because timeouts are 1 to 3. |
| `MaxDrift` | 0 or 1 | Advance inside a tick; 1 in `BridgeDrift`, where the order of a reply and a timeout matters. |
| `QueueSize` | 1 to 3 | Full rings, rings with one place, tables longer and shorter than the ring. |
| `MaxSteps` | 1 to 3 | Ticks cut off by the step bound in every state. |
| `MaxExpectedLen`, `MaxEndingLen` | 3, 1 or 2 | Empty, partial, full and overrun captures; a terminator as long as the capture less one. |
| `TxTimeout`, cooldowns, periods, `timeout_ms` | 1 to 3 | Small, and the retry cooldown longer than the inter-job one as in the code. |
| `U8Max`, `DefaultThreshold` | 2 | The failure counter saturates; the threshold is reached. |
| `MaxTries` | 0 or 2 | Where the history counter saturates; 2 suffices to exceed `max_retries = 1`. |
| `MaxWire` | 2 | Commands the UPS still has to answer; the engine sends one at a time, a second one overlaps only after an attempt was given up. |
| `Burst` | 2 | Table steps interrupted by the burst limit and by a full ring. |
| `RingQueue`: `QueueSize`, `U8Max` | 3, 3 | Every alignment of head and tail, full and empty; the proof is for every size. |
| `Sessions` | 2 or 3 replies | `MeasuresTrue` and `RatingsTrue` relate the last two replies at most; battery status and source depend on three commands. Amounts lie on both sides of every limit of a parser, a field or a conversion. |
| `Settings`, `MCTable` | 1 retry with faults, none without; 4 objects | Two transmissions of each request and any number of repetitions by the network: an answer to an earlier transmission or request meets a later one. The table has a tree, an object before it and OIDs of two lengths; the proof is for every table and setting. |
| `BufSize` | 512 | The real size: lengths around every change of a length field, up to the buffer and one byte more. OIDs leave each of the 32 objects' OIDs after each of its bytes, with sub-identifiers of one to five bytes. |
| `MaxResets`, `MaxEvents` | 2, 4 | A reset in the middle of the recovery from a reset; a queue with the events of two attempts. |

`JobRequests` has a terminated request with its own and with the whole buffer's length, one of no bytes
and no callback, one too long and one with an empty terminator (both refused). The bridge's tables mirror `spm2k.c`: terminated
lines, a fixed-length reply shorter than what the UPS sends (its rest stays in the driver), the heartbeat command without
callback.

Symmetry is not used: requests differ in kind.

## 5. Fairness

* Engine: weak fairness of an iteration that reads a later clock. `app_main()` never leaves its loop, each turn calls
  `uart_engine_tick()`, and `ups_loop_delay_safe()` waits at least a FreeRTOS tick. No fairness is assumed of the driver, the
  UPS, the callbacks or the callers: the liveness properties hold when nothing ever answers.
* Bridge: weak fairness of the main task (it never blocks: all its waits are polls) and of the UPS deciding about a command
  it has received, where "stay silent" is a decision unless it has `settled`.
* SNMP: weak fairness of the task's loop taking some datagram while its socket has any (it blocks in `recvfrom()` only), of the
  managers reading their answers, and of one that waits long enough sending again. None of the network.
* Start-up: weak fairness of the main task, whose only wait is bounded, of the event task, and of the station ending an attempt to connect. None
  of resets, of the access point or of the steps' success.
* Port: nothing guarantees that it comes up; the properties that need it have the disjunct `PortStaysDown`.

## 6. Proofs

All proofs are checked by TLAPS. `UartEngineProofs`, for every clock modulus, queue and buffer size, cooldown, request set and heartbeat
configuration that satisfy `ClockModAssumption` and `EngineAssumption`:

| Theorem | Says | Argument |
|---|---|---|
| `TypeCorrect` | `Spec => []TypeOK`: the ring never overflows, the failure counter never wraps, timestamps stay timestamps | inductive by itself; `JobFailureType` carries the retry that must find room |
| `LockDisciplineAlways` | the mutex is held exactly during a job | inductive; every ending runs `Unlocked` and `ActiveClear` together |
| `DisabledIsInertAlways` | a disabled engine holds nothing | inductive; iterations need `s_enabled`, `enqueue` refuses |
| `CaptureInBoundsAlways` | no reply runs past `s_rx_buf` | through `CaptureInv` |
| `ProcessesWholeReplyAlways` | callbacks see whole replies only | through `CaptureInv` |
| `HeartbeatNeverWedgedAlways` | the outstanding flag tells the truth | inductive with `TypeOK`; `FlagHTrue` and `JobFailureFlag` follow the flag through a retry |
| `EngineImplementsService` | `Spec => ImplementsService`: every step of the engine is a step of `JobService` or a stutter | step by step, from `TypeOK`, `CaptureInBounds` and `RefinementInv` |

`CaptureInv` strengthens the two capture properties by "before RX_WAIT nothing is captured": without it a job popped from the
queue might inherit the bytes of the previous one. `ValidJobs` follows `request_is_valid()` from the two places
that validate (enqueue, set_heartbeat) to the one that relies on it (the read).

`RefinementInv` says that every job carries the whole retry budget of its request, so `retries_left > 0` in the engine means
that the request allows retries in the service, and that a scheduled heartbeat request passed `request_is_valid()`. `CaptureInBounds`
is needed because an active job with a valid request cannot be mistaken for `Nobody`, the image of IDLE.

The assumptions say that sizes are positive, times natural numbers, the clock modulus even and at
least 4, and that the request structures have their C types. Nothing relates the timeouts to the clock modulus: safety does
not depend on it.

`RingQueueProofs`, for every ring size that eight bits can count (`RingAssumption`):

| Theorem | Says | Argument |
|---|---|---|
| `RingInvariant` | `Spec => []InRing`: indices stay in the array, and head, count and tail agree | inductive; moving an index and counting in eight bits are lemmas |
| `RingIsFifo` | `Spec => ImplementsFifo`: what is popped is what was pushed, in the order of the pushes | step by step from `InRing`; a push appends to, and a pop drops the head of, the content read from the array |

`SnmpAgentProofs`, for every table, community, set of managers and number of retries:

| Theorem | Says | Argument |
|---|---|---|
| `AgentTypeCorrect` | `Spec => []TypeOK` | inductive, one step per action |
| `AgentImplementsMibWalk` | `Sorted => (Spec => ImplementsMibWalk)`: the agent and a network that loses, repeats and reorders serve gets and walks | step by step, from `NetInv` |
| `TreeIsInterval` (lemma) | an OID between two OIDs of a tree is of that tree | byte-wise comparison, by cases on the first difference |

`NetInv` is what makes it work over a bad network. `RequestsKnown` and `RepliesKnown` say of every datagram under way, however old,
that it belongs to a request its manager made, and that an answer is the one the table gives to that request: so a stale answer
either carries an old identifier and is ignored, or is the right one. `CursorInTree` keeps the walk inside its tree, and
`ReadyUntried` separates a manager between two requests from one that waits. `Sorted` is the only fact about the
table; for the real one TLC evaluates it (`TableSorted` in `SnmpCodec`). `TreeIsInterval` is why a walk may stop at the first object outside
its tree without missing one behind it.

`SnmpCodecProofs`, for every set of requests and values and every buffer that satisfy `CodecAssumption`, over the real table:

| Theorem | Says | Argument |
|---|---|---|
| `DecodesAlways` | `Spec => []DecodesWhatWasAsked`: a datagram decodes to what was asked when all of it is there, to nothing when any part is missing | `DecodesWhole` and `DecodesCut` follow the decoder through the nine fields |
| `NextInMibOrderAlways` | a GETNEXT is answered with the object that follows in the order of the MIB | `NextFollows`, from `PrecedesAgrees` |
| `ReplyIsBerAlways` | an answer is the standard encoding of an object's OID and value, or of an error | `WrittenIs` and the lengths of `ReplyTakes` |
| `AlwaysAnsweredAlways` | what fits the buffer and names anything is answered, if community and texts leave 56 bytes of the buffer | `ObjectFits`, `ErrorFits`, `Builds` |

The invariant, `Receives`, only says where the bytes come from: `sent` is the datagram of one of the requests, and no more of it has arrived than
there is or the buffer holds. The work is in the functions. In a whole datagram each field is found where the manager wrote it and ends
where the next begins, or with the field around it (`ReadsPart`, `ReadsNext`, `ReadsLast`); in a cut one the outermost length already asks for more than there is. `PrecedesAgrees` says
that comparing encoded OIDs byte by byte is comparing their numbers if those of one of the two are below 128, as in every OID of `k_oid_table`: sub-identifiers of the other
may have any length, since one of several bytes begins with a byte above 127, which decides. It is not true of two OIDs with large sub-identifiers (300 is encoded as 82 2C,
20000 as 81 9C 20), so a table that had one would not be walked in the order of the MIB.
The encoder computes every length first and writes afterwards. `MessageTakes` and `ReplyTakes` add up the lengths of the parts, `TlvLenIs` gives
the steps at 128 and 256, and `WrittenIs` puts the sequence of writes together from the inside out (`CatAssoc`).

`CodecAssumption` gives the types: requests with `int32_t` numbers, values that are `int32_t` or octets, datagrams that UDP can carry and
a buffer no larger than that: lengths beyond are not known to `snmp_read_len()` and `snmp_buf_put_len()` either.
`TableSorted` is evaluated by TLC on the real table. `AnswersFit(C, V)` says that communities have at most C bytes, texts at most V, and
that C + V + 56 bytes fit the buffer: the agent answers to `UPS_SNMP_COMMUNITY` only, its longest text is "ESP32 UPS bridge" with 16 bytes, and the buffer has
512, so it leaves room for a community of 440. Where a definition recurses over data, it does so through the folds of the
community modules; these are unfolded by the lemma `Induction`, which derives induction over the numbers of a set from the existence of a
minimal element (`WFMin`), as the library's own induction theorems cannot be used with the provers at hand.

`WifiClientProofs`, for any number of resets and any length of the event queue:

| Theorem | Says | Argument |
|---|---|---|
| `NeverStrandedAlways` | an idle station has an event under way that makes the client connect again, and a handler registered for it | inductive with `ListensFirst`: the handler is registered whenever the radio runs, which is what the order of `Steps` buys |

`UpsBridgeProofs`, for every pair of request tables, burst, ring size, clock and time limit, whether or not the port comes up and whatever the
UPS answers; every lemma about an iteration of the engine is taken from `UartEngineProofs`:

| Theorem | Says | Argument |
|---|---|---|
| `BridgeTypeCorrect` | `BridgeSpec => []BridgeTypeOK`: no index leaves its table, `s_rx_got` counts the bytes in `s_rx_buf` | inductive with the engine's `TypeOK` and `CaptureInv` (`Sound`); `AcceptedFits` bounds what a pass may enqueue |
| `JobsFitPhaseAlways` | what is outstanding belongs to the phase of the bootstrap | through `Phased`; `TickEffect` reduces an iteration to four effects on the jobs, none of which adds one |
| `QueueNeverRefusesAlways` | a ring as large as both tables never refuses a table step | through `Phased`, which also counts: no more is outstanding than the indices have handed over |
| `IdentifiedFirstAlways` | the tables are read only after this round's probe was answered | through `Fresh` |
| `EngineSafeInBridge` | `LockDiscipline`, `CaptureInBounds` and `ProcessesWholeReply` hold of the engine inside the program | `Sound` has the last two; an iteration with the line is an iteration of the engine (`BridgeTickLock`) |
| `NoPileUpAlways` | no request is queued twice, if the tables' requests differ (`TablesDistinct`, as those of `spm2k.c` do) | through `Apart`: what is outstanding lies before the index, the rest of the table is new |

`Fresh` is where the line comes in: as long as the UPS has not answered this round's probe, no byte of a good answer to it may be in the
FIFO once the probe has started to leave (`UART2_DiscardBuffered()` comes before the write), none in `s_rx_buf` from RX_WAIT on, and the capture holds
no such answer. Without the discard a late answer from the previous round would pass for one of this round.

`BridgeTimeProofs`, for every pair of request tables, clock and time limits in the relation that each theorem names:

| Theorem | Says | Argument |
|---|---|---|
| `RepliesMatchCommands` | `RepliesInTime => (BridgeSpec => []ReplyOfThisCommand)`: a callback is given the reply to its own command | through `Matching` |
| `CooldownHoldsAlways` | with the port up, `CycleFits` and `TablesAccepted`, the gate never holds the engine longer than a cooldown | through `Paced` |

`RepliesInTime` says that the UPS answers, if at all, in less than the transmit limit and the `timeout_ms` of any request, and that
the clock does not turn over meanwhile; `BridgeDrift` satisfies it. `Matching` says that only the active command is on the wire, only in TX_WAIT or
RX_WAIT and not longer than the engine has been waiting, and that nothing was received before its answer: when an attempt is given up the
wire is empty, and what is left in the driver is discarded before the next command, so no cooldown is needed. The proof
needs `RepliesAssumption`, that every request waits for at least a byte: one that waits for none would end while its answer is
still to come. Every entry of `spm2k.c` does (`expected_len`), so it was added to `UpsBridge`.

`CycleFits` says that the longest pass through bootstrap or refresh, from the end of a job to the end of the next, is less than half a
turn of the clock: a cooldown, a period, the two time limits of a job and the nine passes of the main loop between them. In the
firmware that is seconds (periods of 5 s and 10 s) against 2^31 ms, so the gate stays right unless the main loop stalls for days. `TablesAccepted` says that the requests pass
`request_is_valid()` and that there is one to refresh; without it the engine would have nothing to do and the gate would age as in `EngineCooldown`.
`Paced` bounds `Lag`, the age of the gate with the cooldown added so that it is a number and not a direction: each state of the bootstrap and of the refresh
lasts a pass or a period and each state of the engine its time limit, so `Lag` stays below half a turn (`LagBound`) and the signed comparison
tells past from future (`PassedIs`). `AcceptsOne` is the other half: a step through a table with room in the ring always enqueues something.
TLC checked `Paced` with a clock of 40 in the instance of `BridgeSafety` before it was proved.

`UpsTelemetryProofs`, for every set of sessions (`SessionsAssumption`), so for every integer amount, every set of flags and any number of replies in
any order:

| Theorem | Says | Argument |
|---|---|---|
| `FieldsHold` | `Spec => []TypeOK`: no cast of a parser loses anything | `TypeInv`: each assignment still to come fits its field |
| `MeasuresAreTold` | a measurement a manager gets is the last one the UPS gave, off by less than a unit | `AmountInv` at rest, then `k_oid_table` and the divisions of `snmp_get_value_by_index()` |
| `RatingsAreTold` | ratings come from one list, and the output power from them and the load | as before; one list assigns all four fields or none |
| `StatusIsTold` | battery status and output source are those of the last reports | `FlagInv` at rest, with `AmountInv` for the capacity |
| `NeverBoth` | never charging and discharging | `FlagInv` |
| `NeverTorn` | what is told while a parser runs lies between before and after, but in the two cases the property names | `TornInv` |

The inductive invariant has four parts. `TypeInv` says that what a parser still has to assign is a proper list: no field twice, each value fits, and
four pairs of fields in the order the code has them (`Order`). The others are about `Applied(g, todo)`, the fields once the running parser is through: that
value is settled when the callback begins and no assignment changes it (`AppliedNext`), so it can be compared with what the UPS said although `g` itself is
half way. `AmountInv` says that it holds the conversion of the last amount, and that the amount was one the field can hold; `FlagInv` the same of the flags. `TornInv`
compares with `before`: a field still to be assigned is as it was, and which of the alarms can have changed while others have not. Its last conjunct, that no callback
changes the capacity and an alarm, is what makes the status byte's use of the capacity harmless.

`ScaledSays` and `ParsesSays` say what the parsers make of the text of any amount, `ServedAt` that the binary search in the real table finds the entry of
each OID, and the `Near...` lemmas what the roundings leave.

`SessionsAssumption` says that a UPS is asked for commands of the tables and that amounts are integers. The attempt to prove `AmountInv` corrected the model:
`Holds`, which says which amounts the history may take over, had no upper bound for the run time, whereas the parser refuses minutes
that do not fit 32 bits once in seconds. TLC could not notice: the amount is beyond its own integers.

Only model-checked: the liveness properties (`EveryAttemptEnds`, `QueuedIsTried`, `HeartbeatRecurs`, `RefreshRecurs`, `BootstrapRetries`, `BootstrapCompletes`,
`ServesAll`, `LoopReached`, `Reconnects`, `BitFollowsLink`): fairness and ENABLED are beyond the provers. Every invariant and action property that a
passing run checks, and every refinement, is a theorem.

## 7. Not modelled

* `uart_engine_process_expect_exact()`, debug printing and status printing: no state.
* `UART2_SendBytes`, `UART2_Available`, `UART2_ReadByte`, `UART2_ReadExactTimeout`: no caller in the firmware.
* NULL-argument checks: every caller in the repository passes addresses.
* The characters of a UPS reply: a parser sees a number with sign, whole part and decimals, a list, flags, a date or garbage. What a
  manager reads back from text objects is likewise not spelled out.
* ESP-IDF, lwIP, FreeRTOS, the managers and the UPS are external, known from how the code uses them. Assumed: a call
  of `esp_wifi_connect()` is always followed by an event; events are delivered in the order they were posted; `recvfrom()` gives a datagram
  whole or cut to the buffer.
* Failures of `xEventGroupCreate` and the like that the code turns into an early return are steps of `WifiClient`; running out of
  memory later is not modelled: nothing allocates after the start.
* `platformio.ini`, `sdkconfig*`, `scripts/check_snmp.ps1`: configuration and a host-side script; the managers of `SnmpAgent` are what the script runs.

## 8. Plan

Done: the clock, the adaptor, the engine and `JobService`; the ring and `Fifo`; the main task with line and UPS; the parsers and the
telemetry; the SNMP agent, `MibWalk` and the codec; the start-up. Proved: the engine's safety and its refinement, the ring's, the agent's; `NeverStranded`; the
safety of the bridge, its time limits included; the telemetry; the codec.

Left: the heartbeat monitor in `UpsBridge`, once `app_main()` configures one.
