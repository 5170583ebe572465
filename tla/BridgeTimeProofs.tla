---------------------------- MODULE BridgeTimeProofs ----------------------------
(***************************************************************************)
(* Theorems about the main task, the engine and the line that depend on    *)
(* the time limits: for every clock, request table and limits in the       *)
(* relation each theorem names.                                            *)
(***************************************************************************)
EXTENDS UpsBridgeProofs

----------------------------------------------------------------------------
(* The clock.                                                              *)

\* The difference of two timestamps, and a timestamp later by less than a turn,
\* without the remainder.
LEMMA ElapsedIs ==
  ASSUME NEW a \in Time, NEW b \in Time
  PROVE  Elapsed(a, b) = IF a >= b THEN a - b ELSE a - b + ClockMod
<1>1. a \in Int /\ b \in Int /\ 0 <= a /\ a < ClockMod /\ 0 <= b /\ b < ClockMod
      /\ ClockMod \in Nat /\ ClockMod > 0
  BY ClockModAssumption DEF Time
<1>2. CASE a >= b
  <2>1. (a - b) % ClockMod = a - b
    BY <1>1, <1>2
  <2> QED BY <1>2, <2>1 DEF Elapsed
<1>3. CASE ~(a >= b)
  <2>1. (a - b) % ClockMod = a - b + ClockMod
    BY <1>1, <1>3
  <2> QED BY <1>3, <2>1 DEF Elapsed
<1> QED BY <1>2, <1>3

LEMMA AddIs ==
  ASSUME NEW t \in Time, NEW d \in Nat, d < ClockMod
  PROVE  Add(t, d) = IF t + d < ClockMod THEN t + d ELSE t + d - ClockMod
<1>1. t \in Nat /\ t < ClockMod /\ ClockMod \in Nat /\ ClockMod > 0
  BY ClockModAssumption DEF Time
<1>2. CASE t + d < ClockMod
  <2>1. (t + d) % ClockMod = t + d
    BY <1>1, <1>2
  <2> QED BY <1>2, <2>1 DEF Add
<1>3. CASE ~(t + d < ClockMod)
  <2>1. (t + d) % ClockMod = t + d - ClockMod
    BY <1>1, <1>3
  <2> QED BY <1>3, <2>1 DEF Add
<1> QED BY <1>2, <1>3

LEMMA ElapsedType ==
  ASSUME NEW a \in Time, NEW b \in Time
  PROVE  Elapsed(a, b) \in Nat /\ Elapsed(a, b) < ClockMod
BY ElapsedIs, ClockModAssumption DEF Time

LEMMA ElapsedSelf ==
  ASSUME NEW a \in Time
  PROVE  Elapsed(a, a) = 0
BY ElapsedIs DEF Time

\* The clock goes on.
LEMMA ElapsedLater ==
  ASSUME NEW t \in Time, NEW b \in Time, NEW d \in Nat, Elapsed(t, b) + d < ClockMod
  PROVE  Elapsed(Add(t, d), b) = Elapsed(t, b) + d
<1>1. Elapsed(t, b) \in Nat /\ d < ClockMod
  BY ElapsedType, ClockModAssumption
<1>2. Add(t, d) \in Time
  BY AddType
<1>3. /\ t \in Nat /\ b \in Nat /\ t < ClockMod /\ b < ClockMod /\ ClockMod \in Nat
      /\ Add(t, d) \in Nat
  BY <1>2, ClockModAssumption DEF Time
<1>4. /\ Elapsed(t, b) = IF t >= b THEN t - b ELSE t - b + ClockMod
      /\ Elapsed(Add(t, d), b) =
           IF Add(t, d) >= b THEN Add(t, d) - b ELSE Add(t, d) - b + ClockMod
  BY <1>2, ElapsedIs
<1>5. CASE t + d < ClockMod
  <2>1. Add(t, d) = t + d
    BY <1>1, <1>5, AddIs
  <2> QED BY <1>1, <1>3, <1>4, <1>5, <2>1
<1>6. CASE ~(t + d < ClockMod)
  <2>1. Add(t, d) = t + d - ClockMod
    BY <1>1, <1>6, AddIs
  <2> QED BY <1>1, <1>3, <1>4, <1>6, <2>1
<1> QED BY <1>5, <1>6

----------------------------------------------------------------------------
(* A reply answers the active command.                                     *)

\* The UPS answers, if at all, before the engine gives an attempt up.
RepliesInTime ==
  /\ ReplyWithin < TxTimeout
  /\ \A req \in TableRequests \union {Probe} : ReplyWithin < req.timeout_ms
  /\ ReplyWithin + MaxStall < ClockMod

AllOf(bytes, cmd) == \A i \in 1 .. Len(bytes) : bytes[i].cmd = cmd

\* The inductive form of ReplyOfThisCommand: only the active command is on the wire,
\* for no longer than the engine waits, and nothing has been received before its
\* answer.
Matching ==
  /\ wire # <<>> =>
       /\ s_state \in {"TX_WAIT", "RX_WAIT"}
       /\ Len(wire) = 1 /\ wire[1].cmd = s_active.req.cmd
       /\ fifo = <<>>
       /\ s_state = "RX_WAIT" => s_rx_buf = <<>>
       /\ Elapsed(now, wire[1].at) <= ReplyWithin
       /\ Elapsed(now, s_state_start_ms) <= Elapsed(now, wire[1].at)
  /\ s_state \in {"TX_WAIT", "RX_WAIT"} => AllOf(fifo, s_active.req.cmd)
  /\ s_state \in {"RX_WAIT", "PROCESS"} => AllOf(s_rx_buf, s_active.req.cmd)

LEMMA ActiveKnown ==
  ASSUME Sound, Phased, s_state # "IDLE"
  PROVE  /\ s_active.req \in TableRequests \union {Probe}
         /\ RxCap(s_active.req) \in Nat /\ RxCap(s_active.req) > 0
<1>1. s_active.req \in Outstanding
  BY DEF Outstanding
<1>2. s_active.req \in TableRequests \union {Probe}
  BY <1>1, PhasedFits DEF JobsFitPhase, TableRequests, RequestsOf
<1>3. RxCap(Probe) = RxCap(HeartbeatReq)
  BY BridgeAssumption DEF Probe, RxCap, RequestType
<1>4. RxCap(s_active.req) > 0
  BY <1>2, <1>3, RepliesAssumption DEF TableRequests, RequestsOf
<1>5. s_active.req \in RequestType
  BY DEF Sound, Plain, TypeOK, JobType
<1>6. RxCap(s_active.req) \in Nat
  BY <1>5, EngineAssumption DEF RxCap, RequestType
<1> QED BY <1>2, <1>4, <1>6

LEMMA OneCommand ==
  ASSUME NEW S, NEW w \in Seq(S), w # <<>>
  PROVE  /\ 1 \in 1 .. Len(w) /\ w[1] \in S /\ Head(w) = w[1]
         /\ Len(w) = 1 => Tail(w) = <<>>
<1>1. Len(w) \in Nat /\ Len(w) # 0
  BY EmptySeq, SeqDef, LenProperties
<1>2. Tail(w) \in Seq(S) /\ Len(Tail(w)) = Len(w) - 1 /\ w[1] \in S
  BY <1>1
<1> QED BY <1>1, <1>2

LEMMA WireHead ==
  ASSUME Sound, wire # <<>>
  PROVE  /\ wire[1].at \in Time /\ 1 \in 1 .. Len(wire) /\ Head(wire) = wire[1]
         /\ Len(wire) = 1 => Tail(wire) = <<>>
<1>1. wire \in Seq([cmd : Cmd, at : Time])
  BY DEF Sound, LineType
<1>2. /\ 1 \in 1 .. Len(wire) /\ wire[1] \in [cmd : Cmd, at : Time] /\ Head(wire) = wire[1]
      /\ Len(wire) = 1 => Tail(wire) = <<>>
  BY <1>1, OneCommand
<1> QED BY <1>2

\* The clock moves on to n, and nothing the UPS still has to answer comes late.
LEMMA InTimeLater ==
  ASSUME Sound, Matching, RepliesInTime, wire # <<>>, NEW d \in 0 .. MaxStall,
         InTime(Add(now, d))
  PROVE  /\ Elapsed(Add(now, d), wire[1].at) <= ReplyWithin
         /\ Elapsed(Add(now, d), s_state_start_ms) <= Elapsed(Add(now, d), wire[1].at)
<1>1. /\ now \in Time /\ s_state_start_ms \in Time /\ d \in Nat /\ d <= MaxStall
      /\ MaxStall \in Nat /\ ReplyWithin \in Nat
  BY EngineAssumption, BridgeAssumption DEF Sound, Plain, TypeOK
<1>2. wire[1].at \in Time /\ 1 \in 1 .. Len(wire)
  BY WireHead
<1>3. Elapsed(Add(now, d), wire[1].at) <= ReplyWithin
  BY <1>2 DEF InTime
<1>4. /\ Elapsed(now, wire[1].at) <= ReplyWithin
      /\ Elapsed(now, s_state_start_ms) <= Elapsed(now, wire[1].at)
      /\ ReplyWithin + MaxStall < ClockMod
  BY DEF Matching, RepliesInTime
<1>5. /\ Elapsed(now, wire[1].at) \in Nat /\ Elapsed(now, s_state_start_ms) \in Nat
      /\ ClockMod \in Nat
  BY <1>1, <1>2, ElapsedType, ClockModAssumption
<1>6. /\ Elapsed(now, wire[1].at) + d < ClockMod
      /\ Elapsed(now, s_state_start_ms) + d < ClockMod
  BY <1>1, <1>4, <1>5
<1>7. /\ Elapsed(Add(now, d), wire[1].at) = Elapsed(now, wire[1].at) + d
      /\ Elapsed(Add(now, d), s_state_start_ms) = Elapsed(now, s_state_start_ms) + d
  BY <1>1, <1>2, <1>6, ElapsedLater
<1> QED BY <1>1, <1>3, <1>4, <1>5, <1>7

LEMMA Drifts == MaxDrift \in Nat /\ MaxStall \in Nat /\ MaxDrift <= MaxStall
BY BridgeAssumption, EngineAssumption

\* An iteration: the command leaves with an empty wire, a time limit passes with an
\* empty wire, and what is read has been answered to the active command.
LEMMA TickMatching ==
  ASSUME Sound, Phased, Matching, RepliesInTime, NEW d \in 0 .. MaxDrift,
         InTime(Add(now, d)), BridgeTick(Add(now, d))
  PROVE  Matching'
<1> DEFINE n == Add(now, d)
<1>0. d \in 0 .. MaxStall /\ n \in Time /\ now' = n
  <2>1. now' = n
    BY DEF BridgeTick, TickQuiet, TickSend, TickSent, TickReceive, TickProcess, Iteration,
           TickGated, TickIdleEmpty, TickIdleNoLock, TickIdlePop, TickTxStart,
           TickTxStartFails, TickTxDone, TickTxTimeout, TickTxWaiting,
           TickRxComplete, TickRxFails, TickRxWaiting, TickProcessOk, TickProcessFails
  <2>2. now \in Time /\ d \in Nat
    BY Drifts DEF Sound, Plain, TypeOK
  <2> QED BY <2>1, <2>2, Drifts, AddType
<1>1. wire # <<>> =>
        /\ Elapsed(n, wire[1].at) <= ReplyWithin
        /\ Elapsed(n, s_state_start_ms) <= Elapsed(n, wire[1].at)
  BY <1>0, InTimeLater
<1>2. /\ s_state_start_ms \in Time /\ ReplyWithin \in Nat
      /\ Elapsed(n, s_state_start_ms) \in Nat
      /\ wire # <<>> => Elapsed(n, s_state_start_ms) <= ReplyWithin
  <2>1. s_state_start_ms \in Time /\ ReplyWithin \in Nat
    BY BridgeAssumption DEF Sound, Plain, TypeOK
  <2>2. Elapsed(n, s_state_start_ms) \in Nat
    BY <1>0, <2>1, ElapsedType
  <2>3. ASSUME wire # <<>> PROVE Elapsed(n, s_state_start_ms) <= ReplyWithin
    <3>1. wire[1].at \in Time
      BY <2>3, WireHead
    <3>2. Elapsed(n, wire[1].at) \in Nat
      BY <1>0, <3>1, ElapsedType
    <3> QED BY <1>1, <2>1, <2>2, <2>3, <3>2
  <2> QED BY <2>1, <2>2, <2>3
<1> HIDE DEF n
<1> USE DEF Matching, AllOf
\* A time limit passes.
<1>3. ASSUME \/ s_state = "IDLE"
             \/ s_state' = "IDLE" /\ wire' = wire /\ wire = <<>>
             \/ s_state \in {"TX_START", "PROCESS"} /\ s_state' = "IDLE" /\ wire' = wire,
             s_state' \in {"IDLE", "TX_START"}, wire' = wire
      PROVE  Matching'
  BY <1>3
<1>4. CASE TickQuiet(n)
  <2>1. UNCHANGED <<s_rx_buf, fifo, wire>>
    BY <1>4 DEF TickQuiet, lineVars
  <2>2. CASE TickIdlePop(n)
    BY <1>3, <2>1, <2>2 DEF TickIdlePop
  <2>3. CASE \/ TickGated(n) \/ TickIdleEmpty(n) \/ TickIdleNoLock(n)
             \/ TickTxWaiting(n)
    <3>1. UNCHANGED <<s_state, s_active, s_state_start_ms>>
      BY <2>3 DEF TickGated, TickIdleEmpty, TickIdleNoLock, TickTxWaiting, OnlyHeartbeat
    <3> QED BY <1>0, <1>1, <2>1, <3>1
  <2> QED BY <1>4, <2>2, <2>3 DEF TickQuiet
<1>5. CASE TickSend(n)
  <2>1. fifo' = <<>> /\ wire = <<>> /\ s_state = "TX_START"
    BY <1>5 DEF TickSend, TickTxStart, TickTxStartFails, Discarded
  <2>2. CASE TickTxStartFails(n)
    <3>1. s_state' = "IDLE" /\ wire' = wire
      BY <1>5, <2>2 DEF TickTxStartFails, TickSend, JobFailure, ActiveClear, TickTxStart
    <3> QED BY <1>3, <2>1, <3>1
  <2>3. CASE TickTxStart(n)
    <3>1. /\ s_state' = "TX_WAIT" /\ s_active' = s_active /\ s_state_start_ms' = n
      BY <2>3 DEF TickTxStart, JobStep
    <3>2. wire' = <<[cmd |-> s_active.req.cmd, at |-> n]>>
      <4>1. wire' = Append(wire, [cmd |-> s_active.req.cmd, at |-> n])
        <5>1. Len(wire) = 0 /\ MaxWire \in Nat \ {0}
          BY <2>1, BridgeAssumption
        <5>2. s_state' # "IDLE"
          BY <3>1
        <5>3. ~TickTxStartFails(n)
          BY <5>2 DEF TickTxStartFails, JobFailure, ActiveClear
        <5>4. wire' = IF Len(wire) < MaxWire
                      THEN Append(wire, [cmd |-> s_active.req.cmd, at |-> n]) ELSE wire
          BY <1>5, <5>3 DEF TickSend
        <5> QED BY <5>1, <5>4
      <4> QED BY <2>1, <4>1
    <3>3. Len(wire') = 1 /\ wire'[1].cmd = s_active.req.cmd /\ wire'[1].at = n
      BY <3>2
    <3>4. Elapsed(n, n) = 0
      BY <1>0, ElapsedSelf
    <3>5. AllOf(fifo', s_active.req.cmd)
      BY <2>1
    <3>6. Elapsed(now', wire'[1].at) = 0 /\ Elapsed(now', s_state_start_ms') = 0
      BY <1>0, <3>1, <3>3, <3>4
    <3> QED BY <1>2, <2>1, <3>1, <3>3, <3>5, <3>6
  <2> QED BY <1>5, <2>2, <2>3 DEF TickSend
<1>6. CASE TickSent(n)
  <2>1. s_state = "TX_WAIT" /\ s_rx_buf' = <<>> /\ UNCHANGED <<fifo, wire>>
    BY <1>6 DEF TickSent, TickTxDone, TickTxTimeout
  <2>2. CASE TickTxDone(n)
    <3>1. s_state' = "RX_WAIT" /\ s_active' = s_active /\ s_state_start_ms' = n
      BY <2>2 DEF TickTxDone, JobStep
    <3>2. Elapsed(n, n) = 0
      BY <1>0, ElapsedSelf
    <3>3. wire # <<>> => Elapsed(n, wire[1].at) \in Nat
      <4>1. ASSUME wire # <<>> PROVE wire[1].at \in Time
        BY <4>1, WireHead
      <4> QED BY <1>0, <4>1, ElapsedType
    <3> QED BY <1>0, <1>1, <2>1, <3>1, <3>2, <3>3
  <2>3. CASE TickTxTimeout(n)
    <3>1. s_state' = "IDLE" /\ Elapsed(n, s_state_start_ms) >= TxTimeout
      BY <2>3 DEF TickTxTimeout, JobFailure, ActiveClear
    <3>2. wire = <<>>
      BY <1>2, <3>1, EngineAssumption DEF RepliesInTime
    <3> QED BY <1>3, <2>1, <3>1, <3>2
  <2> QED BY <1>6, <2>2, <2>3 DEF TickSent
<1>7. CASE TickReceive(n)
  <2>1. s_state = "RX_WAIT" /\ RxRead(ReadLen, EndSeen) /\ wire' = wire /\ fifo' = Rest
    BY <1>7 DEF TickReceive, TickRxComplete, TickRxFails, TickRxWaiting, RxRead, Rest
  <2>2. /\ ReadLen \in 0 .. Len(fifo)
        /\ \A i \in 1 .. Len(NewBuf) :
              NewBuf[i] = IF i <= Len(s_rx_buf) THEN s_rx_buf[i]
                          ELSE fifo[i - Len(s_rx_buf)]
        /\ Len(NewBuf) = Len(s_rx_buf) + ReadLen
        /\ \A i \in 1 .. Len(Rest) : ReadLen + i \in 1 .. Len(fifo) /\ Rest[i] = fifo[ReadLen + i]
    BY <2>1, BytesRead DEF Sound, LineType
  <2>3. AllOf(Rest, s_active.req.cmd)
    BY <2>1, <2>2
  <2>4. AllOf(NewBuf, s_active.req.cmd)
    <3> SUFFICES ASSUME NEW i \in 1 .. Len(NewBuf) PROVE NewBuf[i].cmd = s_active.req.cmd
      OBVIOUS
    <3>1. s_rx_buf \in Seq(Byte) /\ fifo \in Seq(Byte) /\ Len(s_rx_buf) \in Nat /\ Len(fifo) \in Nat
      BY DEF Sound, LineType
    <3>2. CASE i <= Len(s_rx_buf)
      BY <2>1, <2>2, <3>1, <3>2
    <3>3. CASE ~(i <= Len(s_rx_buf))
      <4>1. i - Len(s_rx_buf) \in 1 .. Len(fifo)
        BY <2>2, <3>1, <3>3
      <4> QED BY <2>1, <2>2, <3>3, <4>1
    <3> QED BY <3>2, <3>3
  <2>5. CASE wire = <<>>
    <3>1. CASE TickRxComplete(n, ReadLen, EndSeen) \/ TickRxWaiting(n, ReadLen, EndSeen)
      <4>1. s_active' = s_active /\ s_rx_buf' = NewBuf /\ s_state' \in {"RX_WAIT", "PROCESS"}
        <5>1. s_active' = s_active /\ s_state' \in {"RX_WAIT", "PROCESS"}
          BY <2>1, <3>1 DEF TickRxComplete, TickRxWaiting, JobStep
        <5> QED BY <1>7, <5>1 DEF TickReceive, TickRxFails, JobFailure, ActiveClear
      <4> HIDE DEF AllOf
      <4>2. AllOf(fifo', s_active'.req.cmd) /\ AllOf(s_rx_buf', s_active'.req.cmd)
        BY <2>1, <2>3, <2>4, <4>1
      <4> QED BY <2>1, <2>5, <4>1, <4>2
    <3>2. CASE TickRxFails(n, ReadLen, EndSeen)
      <4>1. s_state' = "IDLE"
        BY <3>2 DEF TickRxFails, JobFailure, ActiveClear
      <4> QED BY <2>1, <2>5, <4>1
    <3> QED BY <1>7, <3>1, <3>2 DEF TickReceive
  <2>6. CASE wire # <<>>
    <3>1. fifo = <<>> /\ s_rx_buf = <<>> /\ Len(s_rx_buf) = s_rx_got
      BY <2>1, <2>6 DEF Sound, LineType
    <3>2. ReadLen = 0 /\ s_rx_got = 0 /\ ~EndSeen
      BY <2>2, <3>1 DEF EndSeen
    <3>3. /\ RxCap(s_active.req) \in Nat /\ RxCap(s_active.req) > 0
          /\ ReplyWithin < s_active.req.timeout_ms
          /\ s_active.req.timeout_ms \in Nat
      <4>1. /\ s_active.req \in TableRequests \union {Probe}
            /\ RxCap(s_active.req) \in Nat /\ RxCap(s_active.req) > 0
        BY <2>1, ActiveKnown
      <4>2. s_active.req \in RequestType
        BY DEF Sound, Plain, TypeOK, JobType
      <4>3. s_active.req.timeout_ms \in Nat
        BY <4>2 DEF RequestType
      <4> QED BY <4>1, <4>3 DEF RepliesInTime
    <3>4. ~RxComplete(ReadLen, EndSeen) /\ ~RxOverrun(ReadLen, EndSeen)
      BY <3>2, <3>3 DEF RxComplete, RxOverrun
    <3>5. ~RxExpired(n)
      BY <1>2, <2>6, <3>3 DEF RxExpired
    <3>6. TickRxWaiting(n, ReadLen, EndSeen)
      BY <1>7, <3>4, <3>5 DEF TickReceive, TickRxComplete, TickRxFails
    <3>7. UNCHANGED <<s_state, s_active, s_state_start_ms>>
      BY <3>6 DEF TickRxWaiting, JobStep
    <3>8. s_rx_buf' = NewBuf
      BY <1>7, <2>1, <3>7 DEF TickReceive, TickRxFails, JobFailure, ActiveClear
    <3>9. NewBuf = <<>> /\ Rest = <<>>
      BY <3>1, <3>2 DEF NewBuf, Rest
    <3> QED BY <1>0, <1>1, <2>1, <2>6, <3>1, <3>7, <3>8, <3>9
  <2> QED BY <2>5, <2>6
<1>8. CASE TickProcess(n)
  <2>1. s_state = "PROCESS" /\ s_state' = "IDLE" /\ wire' = wire
    BY <1>8 DEF TickProcess, TickProcessOk, TickProcessFails, JobFailure, ActiveClear
  <2> QED BY <2>1
<1>9. BridgeTick(n)
  BY DEF n
<1> QED BY <1>4, <1>5, <1>6, <1>7, <1>8, <1>9 DEF BridgeTick

LEMMA UpsMatching ==
  ASSUME Sound, Matching, Ups \/ UpsSettles
  PROVE  Matching'
<1> USE DEF Matching, AllOf
<1>1. UNCHANGED <<now, s_state, s_active, s_state_start_ms, s_rx_buf>>
  BY DEF Ups, UpsAnswers, UpsSilent, UpsSettles, vars, clockVars, jobVars
<1>2. CASE UpsSettles
  BY <1>1, <1>2 DEF UpsSettles
<1>3. ASSUME wire # <<>>
      PROVE  Len(wire) = 1 /\ Head(wire) = wire[1] /\ Tail(wire) = <<>>
  BY <1>3, WireHead
<1>4. CASE UpsSilent
  BY <1>1, <1>3, <1>4 DEF UpsSilent
<1>5. ASSUME NEW good \in BOOLEAN, UpsAnswers(good) PROVE Matching'
  <2>1. wire # <<>> /\ fifo = <<>> /\ wire' = <<>>
    BY <1>3, <1>5 DEF UpsAnswers
  <2>2. /\ s_state = "RX_WAIT" => s_rx_buf = <<>>
        /\ s_state \in {"TX_WAIT", "RX_WAIT"}
        /\ Head(wire).cmd = s_active.req.cmd
    BY <1>3, <2>1
  <2>4. fifo' = Answer(s_active.req.cmd, good)
    <3>1. fifo' = <<>> \o Answer(s_active.req.cmd, good)
      BY <1>5, <2>1, <2>2 DEF UpsAnswers
    <3>2. Answer(s_active.req.cmd, good) \in Seq(Byte)
      BY AnswerType DEF Sound, Plain, TypeOK, JobType, RequestType
    <3> HIDE DEF Answer
    <3> QED BY <3>1, <3>2, ConcatEmptySeq
  <2>3. AllOf(fifo', s_active.req.cmd)
    BY <2>4 DEF Answer
  <2> QED BY <1>1, <2>1, <2>2, <2>3
<1> QED BY <1>2, <1>4, <1>5 DEF Ups

LEMMA MatchingStep ==
  ASSUME Sound, Phased, Matching, RepliesInTime, [BridgeNext]_bridgeVars
  PROVE  Matching'
<1>1. CASE TickTask
  <2>1. PICK d \in 0 .. MaxDrift : InTime(Add(now, d)) /\ BridgeTick(Add(now, d))
    BY <1>1 DEF TickTask, BridgeTick
  <2> QED BY <2>1, TickMatching
<1>2. CASE LoopDelay
  <2>1. PICK d \in 0 .. MaxStall : now' = Add(now, d) /\ InTime(Add(now, d))
    BY <1>2 DEF LoopDelay, LaterReads
  <2>2. UNCHANGED <<s_state, s_active, s_state_start_ms, s_rx_buf, fifo, wire>>
    BY <1>2 DEF LoopDelay, jobVars, lineVars
  <2>3. wire # <<>> =>
          /\ Elapsed(now', wire[1].at) <= ReplyWithin
          /\ Elapsed(now', s_state_start_ms) <= Elapsed(now', wire[1].at)
    BY <2>1, InTimeLater
  <2> QED BY <2>2, <2>3 DEF Matching, AllOf
<1>3. CASE BootstrapTask \/ DynamicTask \/ UNCHANGED bridgeVars
  <2>1. UNCHANGED <<now, s_state, s_active, s_state_start_ms, s_rx_buf, fifo, wire>>
    BY <1>3 DEF BootstrapTask, EnqueueHeartbeat, WaitHeartbeatDrain, WaitRetry, WaitDrain,
       WaitFor, HeartbeatVerify, EnqueueConstant, EnqueueDynamic, SanityPasses, SanityFails,
       BootstrapDone, Bootstrap, DynamicTask, DynamicIdle, DynamicEnqueue, DynamicDrain,
       Dynamic, EngineRest, vars, clockVars, jobVars, lineVars, bridgeVars
  <2> QED BY <2>1 DEF Matching, AllOf
<1>4. CASE Ups \/ UpsSettles
  BY <1>4, UpsMatching
<1> QED BY <1>1, <1>2, <1>3, <1>4 DEF BridgeNext, MainTask

\* If the UPS answers within the time limits of the engine, a callback is given the
\* reply to its own command: nothing sent in an attempt that was given up is left on
\* the wire, in the driver or in the buffer.
THEOREM RepliesMatchCommands == RepliesInTime => (BridgeSpec => []ReplyOfThisCommand)
<1> SUFFICES ASSUME RepliesInTime PROVE BridgeSpec => []ReplyOfThisCommand
  OBVIOUS
<1>1. BridgeInit => Matching
  BY DEF BridgeInit, Init, Matching
<1>2. Sound /\ Phased /\ Matching /\ [BridgeNext]_bridgeVars => Matching'
  BY MatchingStep
<1>3. Matching => ReplyOfThisCommand
  BY DEF Matching, ReplyOfThisCommand, AllOf
<1> QED BY <1>1, <1>2, <1>3, PhasedAlways, PTL DEF BridgeSpec

----------------------------------------------------------------------------
(* More about the clock: how far a timestamp lags behind a deadline.       *)

LEMMA Halves == Half \in Nat /\ Half > 1 /\ ClockMod = Half + Half /\ ClockMod \in Nat
BY ClockModAssumption DEF Half

LEMMA LagLater ==
  ASSUME NEW t \in Time, NEW x \in Time, NEW k \in Nat, NEW d \in Nat,
         k < ClockMod, d < ClockMod, Elapsed(Add(t, k), x) + d < ClockMod
  PROVE  Elapsed(Add(Add(t, d), k), x) = Elapsed(Add(t, k), x) + d
<1>1. Add(t, k) \in Time /\ Add(t, d) \in Time
  BY AddType
<1>2. Add(Add(t, d), k) = Add(Add(t, k), d)
  <2>1. /\ t \in Nat /\ t < ClockMod /\ ClockMod \in Nat
        /\ Add(t, k) \in Nat /\ Add(t, d) \in Nat
    BY <1>1, ClockModAssumption DEF Time
  <2>2. Add(t, d) = IF t + d < ClockMod THEN t + d ELSE t + d - ClockMod
    BY AddIs
  <2>3. Add(t, k) = IF t + k < ClockMod THEN t + k ELSE t + k - ClockMod
    BY AddIs
  <2>4. Add(Add(t, d), k) = IF Add(t, d) + k < ClockMod THEN Add(t, d) + k
                            ELSE Add(t, d) + k - ClockMod
    BY <1>1, AddIs
  <2>5. Add(Add(t, k), d) = IF Add(t, k) + d < ClockMod THEN Add(t, k) + d
                            ELSE Add(t, k) + d - ClockMod
    BY <1>1, AddIs
  <2> QED BY <2>1, <2>2, <2>3, <2>4, <2>5
<1> QED BY <1>1, <1>2, ElapsedLater

\* A deadline set c ahead.
LEMMA LagSet ==
  ASSUME NEW t \in Time, NEW k \in Nat, NEW c \in Nat, c <= k, k < ClockMod
  PROVE  Elapsed(Add(t, k), Add(t, c)) = k - c
<1>1. /\ Add(t, k) \in Time /\ Add(t, c) \in Time /\ c < ClockMod
      /\ t \in Nat /\ t < ClockMod /\ ClockMod \in Nat
  BY AddType, ClockModAssumption DEF Time
<1>2. Add(t, k) = IF t + k < ClockMod THEN t + k ELSE t + k - ClockMod
  BY AddIs
<1>3. Add(t, c) = IF t + c < ClockMod THEN t + c ELSE t + c - ClockMod
  BY <1>1, AddIs
<1>4. Elapsed(Add(t, k), Add(t, c)) =
        IF Add(t, k) >= Add(t, c) THEN Add(t, k) - Add(t, c)
        ELSE Add(t, k) - Add(t, c) + ClockMod
  BY <1>1, ElapsedIs
<1> QED BY <1>1, <1>2, <1>3, <1>4

\* The signed comparison tells on which side of a deadline x the clock is, while that
\* is no more than k ahead and less than half a turn behind.
LEMMA PassedIs ==
  ASSUME NEW t \in Time, NEW x \in Time, NEW k \in Nat, k < Half,
         Elapsed(Add(t, k), x) < k + Half
  PROVE  /\ ~Before(t, x) <=> Elapsed(Add(t, k), x) >= k
         /\ Elapsed(Add(t, k), x) >= k => Elapsed(t, x) = Elapsed(Add(t, k), x) - k
         /\ Elapsed(Add(t, k), x) <= k => Elapsed(x, t) = k - Elapsed(Add(t, k), x)
<1>1. /\ Add(t, k) \in Time /\ k < ClockMod
      /\ t \in Nat /\ t < ClockMod /\ x \in Nat /\ x < ClockMod /\ ClockMod \in Nat
      /\ Half \in Nat /\ ClockMod = Half + Half /\ Add(t, k) \in Nat /\ Add(t, k) < ClockMod
  <2>1. Half \in Nat /\ ClockMod = Half + Half /\ ClockMod \in Nat /\ k < ClockMod
    BY Halves
  <2>2. Add(t, k) \in Time
    BY AddType
  <2> QED BY <2>1, <2>2 DEF Time
<1>2. Add(t, k) = IF t + k < ClockMod THEN t + k ELSE t + k - ClockMod
  BY <1>1, AddIs
<1>3. Elapsed(Add(t, k), x) =
        IF Add(t, k) >= x THEN Add(t, k) - x ELSE Add(t, k) - x + ClockMod
  BY <1>1, ElapsedIs
<1>4. /\ Elapsed(t, x) = IF t >= x THEN t - x ELSE t - x + ClockMod
      /\ Elapsed(x, t) = IF x >= t THEN x - t ELSE x - t + ClockMod
  BY ElapsedIs
<1>5. Before(t, x) <=> Elapsed(t, x) >= Half
  BY DEF Before
<1>6. CASE Elapsed(Add(t, k), x) >= k
  BY <1>1, <1>2, <1>3, <1>4, <1>5, <1>6
<1>7. CASE ~(Elapsed(Add(t, k), x) >= k)
  BY <1>1, <1>2, <1>3, <1>4, <1>5, <1>7
<1> QED BY <1>6, <1>7

\* set_not_before_ms() with a deadline c ahead, when the old one has passed.
LEMMA GateSet ==
  ASSUME NEW t \in Time, NEW x \in Time, NEW c \in Nat, Elapsed(t, x) + c < Half
  PROVE  NotBefore(x, Add(t, c)) = Add(t, c)
<1>1. /\ Elapsed(t, x) \in Nat /\ Half \in Nat /\ ClockMod = Half + Half
      /\ Add(t, c) \in Time
  BY ElapsedType, Halves, AddType
<1>2. Elapsed(Add(t, c), x) = Elapsed(t, x) + c
  BY <1>1, ElapsedLater
<1>3. CASE Elapsed(t, x) + c > 0
  <2>1. After(Add(t, c), x)
    BY <1>1, <1>2, <1>3 DEF After
  <2> QED BY <2>1 DEF NotBefore
<1>4. CASE Elapsed(t, x) + c = 0
  <2>1. Elapsed(Add(t, c), x) = 0
    BY <1>2, <1>4
  <2>2. Add(t, c) = x
    <3>1. Elapsed(Add(t, c), x) =
            IF Add(t, c) >= x THEN Add(t, c) - x ELSE Add(t, c) - x + ClockMod
      BY <1>1, ElapsedIs
    <3>2. /\ Add(t, c) \in Nat /\ x \in Nat /\ x < ClockMod /\ ClockMod \in Nat
      BY <1>1, ClockModAssumption DEF Time
    <3> QED BY <2>1, <3>1, <3>2
  <2> QED BY <2>2 DEF NotBefore
<1> QED BY <1>1, <1>3, <1>4

\* The same for two deadlines set at once: the later one.
LEMMA GateSetTwice ==
  ASSUME NEW t \in Time, NEW a \in Nat, NEW b \in Nat, a < Half, b < Half
  PROVE  NotBefore(Add(t, a), Add(t, b)) = Add(t, IF b > a THEN b ELSE a)
<1>1. /\ Half \in Nat /\ ClockMod = Half + Half /\ ClockMod \in Nat
      /\ a < ClockMod /\ b < ClockMod
      /\ Add(t, a) \in Time /\ Add(t, b) \in Time
  BY Halves, AddType
<1>2. CASE b > a
  <2>1. Elapsed(Add(t, b), Add(t, a)) = b - a
    BY <1>1, <1>2, LagSet
  <2> QED BY <1>1, <1>2, <2>1 DEF NotBefore, After
<1>3. CASE ~(b > a)
  <2>1. Elapsed(Add(t, a), Add(t, b)) = a - b
    BY <1>1, <1>3, LagSet
  <2>2. /\ Elapsed(Add(t, a), Add(t, b)) =
             IF Add(t, a) >= Add(t, b) THEN Add(t, a) - Add(t, b)
             ELSE Add(t, a) - Add(t, b) + ClockMod
        /\ Elapsed(Add(t, b), Add(t, a)) =
             IF Add(t, b) >= Add(t, a) THEN Add(t, b) - Add(t, a)
             ELSE Add(t, b) - Add(t, a) + ClockMod
        /\ Add(t, a) \in Nat /\ Add(t, b) \in Nat
    BY <1>1, ElapsedIs DEF Time
  <2>3. \/ Elapsed(Add(t, b), Add(t, a)) = 0
        \/ Elapsed(Add(t, b), Add(t, a)) >= Half
    BY <1>1, <1>3, <2>1, <2>2
  <2> QED BY <1>1, <1>3, <2>3 DEF NotBefore, After
<1> QED BY <1>2, <1>3

----------------------------------------------------------------------------
(* The gate of the cooldown is never half a clock turn behind.             *)

Cool == IF RetryCooldown >= InterjobCooldown THEN RetryCooldown ELSE InterjobCooldown
Period == IF InitRetryPeriod >= UpdatePeriod THEN InitRetryPeriod ELSE UpdatePeriod

\* From one delay of the loop to the first read of the clock in the next tick.
Pass == MaxStall + MaxDrift

\* The longest the engine is without a job.
Longest == Cool + 4 * Pass + Period

\* A whole cycle from the end of a job to the end of the next fits half a turn of the
\* clock, if T is the longest time limit of a request.
CycleFits(T) ==
  /\ \A req \in TableRequests \union {Probe} : req.timeout_ms <= T
  /\ Longest + 5 * Pass + TxTimeout + T < Half

\* uart_engine_enqueue() accepts every request of spm2k.c, and there is one to repeat.
TablesAccepted ==
  /\ RequestIsValid(Probe)
  /\ \A req \in TableRequests : RequestIsValid(req)
  /\ Len(DynamicLut) > 0

\* How far the clock is past the gate, Cool more; past the two deadlines of main.c, a
\* period more; past the last change of state.
Lag == Elapsed(Add(now, Cool), s_retry_not_before_ms)
RetryLag == Elapsed(Add(now, InitRetryPeriod), s_init_retry_not_before_ms)
UpdateLag == Elapsed(Add(now, UpdatePeriod), s_next_dynamic_update_ms)
Age == Elapsed(now, s_state_start_ms)

\* What the loop has spent since the last call that could change the state: none
\* before a tick, an iteration after it, a delay after that.
Slack == IF loop = "delay" THEN MaxDrift ELSE IF loop = "bootstrap" THEN Pass ELSE 0
LateSlack == IF loop = "dynamic" THEN Pass ELSE Slack
Slept == IF loop = "delay" \/ step # 0 THEN 0 ELSE MaxStall

\* Nothing to do: each state of the bootstrap and of the refresh lasts a pass or a period.
EmptyPaced ==
  /\ s_ups_bootstrap_state = "ENQUEUE_HEARTBEAT" =>
       Lag <= Cool + 3 * Pass + InitRetryPeriod + Slack
  /\ s_ups_bootstrap_state \in {"WAIT_HEARTBEAT_DRAIN", "WAIT_DRAIN"} =>
       Lag <= Cool + Slack
  /\ s_ups_bootstrap_state \in {"HEARTBEAT_VERIFY", "SANITY_CHECK"} =>
       Lag <= Cool + Pass + Slack
  /\ s_ups_bootstrap_state = "ENQUEUE_CONSTANT" => Lag <= Cool + 2 * Pass + Slack
  /\ s_ups_bootstrap_state = "ENQUEUE_DYNAMIC" => Lag <= Cool + 3 * Pass + Slack
  /\ s_ups_bootstrap_state = "WAIT_RETRY" =>
       RetryLag <= InitRetryPeriod + Slack /\ Lag <= Cool + 2 * Pass + RetryLag
  /\ s_ups_bootstrap_state = "DONE" /\ s_dynamic_update_cycle_active =>
       Lag <= Cool + LateSlack
  /\ s_ups_bootstrap_state = "DONE" /\ ~s_dynamic_update_cycle_active =>
       UpdateLag <= UpdatePeriod + LateSlack /\ Lag <= Cool + 2 * Pass + UpdateLag

\* A job waits for the gate: it is popped in the tick that finds it open.
QueuedPaced ==
  /\ loop = "delay" => Lag <= Cool
  /\ loop = "bootstrap" => Lag <= Cool + MaxStall
  /\ Lag <= Longest

IdlePaced ==
  /\ step # 0 => Lag <= Cool
  /\ s_queue = <<>> => EmptyPaced
  /\ s_queue # <<>> => QueuedPaced

\* A job under way: each state of the engine ends with its time limit.
JobPaced ==
  /\ Lag >= Cool
  /\ s_state = "TX_START" => Age <= Slept /\ Lag <= Longest + Pass + Age
  /\ s_state = "TX_WAIT" => Age <= TxTimeout + Slept /\ Lag <= Longest + 2 * Pass + Age
  /\ s_state = "RX_WAIT" =>
       /\ Age <= s_active.req.timeout_ms + Slept
       /\ Lag <= Longest + 3 * Pass + TxTimeout + Age
  /\ s_state = "PROCESS" =>
       /\ Age <= s_active.req.timeout_ms + Pass + Slept
       /\ Lag <= Longest + 3 * Pass + TxTimeout + Age

\* Requests are left in a state that enqueues them.
Indexed ==
  /\ s_ups_bootstrap_state = "ENQUEUE_CONSTANT" =>
       s_bootstrap_constant_idx < Len(ConstantLut) \/ Len(ConstantLut) = 0
  /\ s_ups_bootstrap_state = "ENQUEUE_DYNAMIC" =>
       s_bootstrap_dynamic_idx < Len(DynamicLut)

\* With the port up the mutex is there for the engine to take.
PortReady ==
  /\ s_uart_ready /\ s_enabled /\ s_uart_lock \in {"free", "held"}
  /\ s_state = "IDLE" => s_uart_lock = "free"

Paced ==
  /\ PortReady
  /\ Indexed
  /\ loop # "tick" => step = 0
  /\ s_state = "IDLE" => IdlePaced
  /\ s_state # "IDLE" => JobPaced

LEMMA Limits ==
  ASSUME NEW T \in Nat, CycleFits(T)
  PROVE  /\ Cool \in Nat /\ Period \in Nat /\ Pass \in Nat /\ Longest \in Nat
         /\ MaxStall \in Nat /\ MaxDrift \in Nat /\ Pass = MaxStall + MaxDrift
         /\ RetryCooldown \in Nat /\ InterjobCooldown \in Nat /\ TxTimeout \in Nat
         /\ InitRetryPeriod \in Nat /\ UpdatePeriod \in Nat
         /\ RetryCooldown <= Cool /\ InterjobCooldown <= Cool
         /\ InitRetryPeriod <= Period /\ UpdatePeriod <= Period
         /\ Longest = Cool + 4 * Pass + Period
         /\ Longest + 5 * Pass + TxTimeout + T < Half
         /\ Half \in Nat /\ ClockMod \in Nat /\ ClockMod = Half + Half
<1>1. /\ MaxStall \in Nat /\ MaxDrift \in Nat
      /\ RetryCooldown \in Nat /\ InterjobCooldown \in Nat /\ TxTimeout \in Nat
  BY Drifts, EngineAssumption
<1>2. InitRetryPeriod \in Nat /\ UpdatePeriod \in Nat
  BY BridgeAssumption, ClockModAssumption DEF Time
<1>3. Cool \in Nat /\ RetryCooldown <= Cool /\ InterjobCooldown <= Cool
  BY <1>1 DEF Cool
<1>4. Period \in Nat /\ InitRetryPeriod <= Period /\ UpdatePeriod <= Period
  BY <1>2 DEF Period
<1>5. Pass \in Nat /\ Pass = MaxStall + MaxDrift
  BY <1>1 DEF Pass
<1>6. Longest \in Nat /\ Longest = Cool + 4 * Pass + Period
  BY <1>3, <1>4, <1>5 DEF Longest
<1> QED BY <1>1, <1>2, <1>3, <1>4, <1>5, <1>6, Halves DEF CycleFits

LEMMA Stamps ==
  ASSUME Sound
  PROVE  /\ now \in Time /\ s_retry_not_before_ms \in Time /\ s_state_start_ms \in Time
         /\ s_init_retry_not_before_ms \in Time /\ s_next_dynamic_update_ms \in Time
         /\ \A k \in Nat : Add(now, k) \in Time
BY AddType DEF Sound, Plain, MainType, TypeOK

LEMMA LagType ==
  ASSUME Sound, NEW T \in Nat, CycleFits(T)
  PROVE  Lag \in Nat /\ RetryLag \in Nat /\ UpdateLag \in Nat /\ Age \in Nat
<1>1. Cool \in Nat /\ InitRetryPeriod \in Nat /\ UpdatePeriod \in Nat
  BY Limits
<1> QED BY <1>1, Stamps, ElapsedType DEF Lag, RetryLag, UpdateLag, Age

LEMMA LagTypeNext ==
  ASSUME Sound', NEW T \in Nat, CycleFits(T)
  PROVE  Lag' \in Nat /\ RetryLag' \in Nat /\ UpdateLag' \in Nat /\ Age' \in Nat
<1>1. /\ now' \in Time /\ s_retry_not_before_ms' \in Time /\ s_state_start_ms' \in Time
      /\ s_init_retry_not_before_ms' \in Time /\ s_next_dynamic_update_ms' \in Time
  BY DEF Sound, Plain, MainType, TypeOK
<1>2. Cool \in Nat /\ InitRetryPeriod \in Nat /\ UpdatePeriod \in Nat
  BY Limits
<1>3. /\ Add(now', Cool) \in Time /\ Add(now', InitRetryPeriod) \in Time
      /\ Add(now', UpdatePeriod) \in Time
  BY <1>1, <1>2, AddType
<1>4. Cool' = Cool
  BY DEF Cool
<1> QED BY <1>1, <1>3, <1>4, ElapsedType DEF Lag, RetryLag, UpdateLag, Age

LEMMA ActiveLimit ==
  ASSUME Sound, Phased, NEW T \in Nat, CycleFits(T), s_state # "IDLE"
  PROVE  s_active.req.timeout_ms \in Nat /\ s_active.req.timeout_ms <= T
<1>1. s_active.req \in RequestType
  BY DEF Sound, Plain, TypeOK, JobType
<1> QED BY <1>1, ActiveKnown DEF CycleFits, RequestType

\* The gate is never further behind than a whole cycle.
LEMMA LagBound ==
  ASSUME Sound, Phased, Paced, NEW T \in Nat, CycleFits(T)
  PROVE  Lag <= Longest + 4 * Pass + TxTimeout + T + Slept
<1>1. /\ Lag \in Nat /\ RetryLag \in Nat /\ UpdateLag \in Nat /\ Age \in Nat
  BY LagType
<1>2. Slack \in Nat /\ Slack <= Pass /\ LateSlack \in Nat /\ LateSlack <= Pass
      /\ Slept \in Nat /\ Slept <= MaxStall
  BY Limits DEF Slack, LateSlack, Slept
<1>3. CASE s_state = "IDLE"
  <2>1. CASE s_queue = <<>>
    <3>1. EmptyPaced /\ s_ups_bootstrap_state \in BootstrapStates
          /\ s_dynamic_update_cycle_active \in BOOLEAN
      BY <1>3, <2>1 DEF Paced, IdlePaced, Sound, MainType
    <3>2. \/ Lag <= Cool + 3 * Pass + InitRetryPeriod + Slack
          \/ Lag <= Cool + Slack
          \/ Lag <= Cool + Pass + Slack
          \/ Lag <= Cool + 2 * Pass + Slack
          \/ Lag <= Cool + 3 * Pass + Slack
          \/ RetryLag <= InitRetryPeriod + Slack /\ Lag <= Cool + 2 * Pass + RetryLag
          \/ Lag <= Cool + LateSlack
          \/ UpdateLag <= UpdatePeriod + LateSlack /\ Lag <= Cool + 2 * Pass + UpdateLag
      BY <3>1 DEF EmptyPaced, BootstrapStates
    <3>3. Lag <= Longest
      BY <1>1, <1>2, <3>2, Limits
    <3> QED BY <1>1, <1>2, <3>3, Limits
  <2>2. CASE s_queue # <<>>
    <3>1. Lag <= Longest
      BY <1>3, <2>2 DEF Paced, IdlePaced, QueuedPaced
    <3> QED BY <1>1, <1>2, <3>1, Limits
  <2> QED BY <2>1, <2>2
<1>4. CASE s_state # "IDLE"
  <2>1. JobPaced /\ s_state \in States
    BY <1>4 DEF Paced, Sound, Plain, TypeOK
  <2>2. s_active.req.timeout_ms \in Nat /\ s_active.req.timeout_ms <= T
    BY <1>4, ActiveLimit
  <2>3. \/ Age <= Slept /\ Lag <= Longest + Pass + Age
        \/ Age <= TxTimeout + Slept /\ Lag <= Longest + 2 * Pass + Age
        \/ /\ Age <= s_active.req.timeout_ms + Slept
           /\ Lag <= Longest + 3 * Pass + TxTimeout + Age
        \/ /\ Age <= s_active.req.timeout_ms + Pass + Slept
           /\ Lag <= Longest + 3 * Pass + TxTimeout + Age
    BY <1>4, <2>1 DEF JobPaced, States
  <2> QED BY <1>1, <1>2, <2>2, <2>3, Limits
<1> QED BY <1>3, <1>4

\* The clock moves on by d.
LEMMA LagMoves ==
  ASSUME Sound, Phased, Paced, NEW T \in Nat, CycleFits(T), NEW d \in Nat,
         Slept + d <= Pass
  PROVE  /\ Elapsed(Add(Add(now, d), Cool), s_retry_not_before_ms) = Lag + d
         /\ Lag + d <= Longest + 5 * Pass + TxTimeout + T
         /\ GateOpen(Add(now, d)) <=> Lag + d >= Cool
         /\ Lag + d >= Cool =>
              Elapsed(Add(now, d), s_retry_not_before_ms) = Lag + d - Cool
<1>1. /\ Lag \in Nat /\ Slept \in Nat
  BY LagType, Limits DEF Slept
<1>2. Lag + d <= Longest + 5 * Pass + TxTimeout + T
  BY <1>1, LagBound, Limits
<1>3. /\ Cool \in Nat /\ Half \in Nat /\ ClockMod = Half + Half
      /\ Cool < Half /\ d < ClockMod /\ Cool < ClockMod
      /\ Lag + d < Half /\ Lag + d < ClockMod
  BY <1>1, <1>2, Limits
<1>4. Elapsed(Add(Add(now, d), Cool), s_retry_not_before_ms) = Lag + d
  BY <1>3, Stamps, LagLater DEF Lag
<1>5. /\ ~Before(Add(now, d), s_retry_not_before_ms) <=>
           Elapsed(Add(Add(now, d), Cool), s_retry_not_before_ms) >= Cool
      /\ Elapsed(Add(Add(now, d), Cool), s_retry_not_before_ms) >= Cool =>
           Elapsed(Add(now, d), s_retry_not_before_ms) =
             Elapsed(Add(Add(now, d), Cool), s_retry_not_before_ms) - Cool
  <2>1. Elapsed(Add(Add(now, d), Cool), s_retry_not_before_ms) < Cool + Half
    BY <1>1, <1>3, <1>4
  <2> QED BY <1>3, <2>1, Stamps, PassedIs
<1>6. GateOpen(Add(now, d)) <=> Lag + d >= Cool
  BY <1>4, <1>5 DEF GateOpen
<1>7. Lag + d >= Cool =>
        Elapsed(Add(now, d), s_retry_not_before_ms) = Lag + d - Cool
  <2> DEFINE l == Elapsed(Add(Add(now, d), Cool), s_retry_not_before_ms)
  <2>1. l = Lag + d
    BY <1>4
  <2>2. l >= Cool => Elapsed(Add(now, d), s_retry_not_before_ms) = l - Cool
    BY <1>5
  <2> HIDE DEF l
  <2> QED BY <1>1, <1>3, <2>1, <2>2
<1> QED BY <1>2, <1>4, <1>6, <1>7

\* What an iteration at n does to the state of the engine: nothing, start to wait, go on
\* waiting, or end the job.
Halts(n) ==
  /\ UNCHANGED <<s_state, s_queue, s_state_start_ms, s_retry_not_before_ms>>
  /\ step' = 0
  /\ ~GateOpen(n) \/ (s_state = "IDLE" /\ s_queue = <<>>)

Starts(n) ==
  /\ GateOpen(n)
  /\ s_retry_not_before_ms' = s_retry_not_before_ms
  /\ s_state_start_ms' = n
  /\ \/ s_state = "IDLE" /\ s_queue # <<>> /\ s_state' = "TX_START"
     \/ s_state = "TX_START" /\ s_state' = "TX_WAIT"
     \/ s_state = "TX_WAIT" /\ s_state' = "RX_WAIT"

Waits(n) ==
  /\ GateOpen(n)
  /\ UNCHANGED <<s_retry_not_before_ms, s_state_start_ms, s_active>>
  /\ \/ s_state = "TX_WAIT" /\ s_state' = "TX_WAIT" /\ Elapsed(n, s_state_start_ms) < TxTimeout
     \/ s_state = "RX_WAIT" /\ s_state' = "RX_WAIT" /\ ~RxExpired(n)
     \/ s_state = "RX_WAIT" /\ s_state' = "PROCESS"

Finishes(n) ==
  /\ GateOpen(n)
  /\ s_state # "IDLE" /\ s_state' = "IDLE"
  /\ \E gate \in {s_retry_not_before_ms, Add(n, RetryCooldown)} :
       s_retry_not_before_ms' = NotBefore(gate, Add(n, InterjobCooldown))

LEMMA FailureFinishes ==
  ASSUME NEW n, NEW flag, s_state # "IDLE", GateOpen(n), JobFailure(n, flag)
  PROVE  Finishes(n)
<1> DEFINE again == s_active.retries_left > 0 /\ ~QueueIsFull(QueueH(n))
           gate == IF again THEN Add(n, RetryCooldown) ELSE s_retry_not_before_ms
<1>1. s_state' = "IDLE"
  BY DEF JobFailure, ActiveClear
<1>2. s_retry_not_before_ms' = NotBefore(gate, Add(n, InterjobCooldown))
  BY DEF JobFailure
<1>3. gate \in {s_retry_not_before_ms, Add(n, RetryCooldown)}
  OBVIOUS
<1> HIDE DEF gate
<1> QED BY <1>1, <1>2, <1>3 DEF Finishes

LEMMA TickPace ==
  ASSUME Plain, PortReady, NEW n, BridgeTick(n)
  PROVE  /\ now' = n
         /\ Halts(n) \/ Starts(n) \/ Waits(n) \/ Finishes(n)
<1>0. QueueH(n) = s_queue
  BY Unscheduled
<1>1. now' = n
  BY DEF BridgeTick, TickQuiet, TickSend, TickSent, TickReceive, TickProcess, Iteration,
         TickGated, TickIdleEmpty, TickIdleNoLock, TickIdlePop, TickTxStart,
         TickTxStartFails, TickTxDone, TickTxTimeout, TickTxWaiting,
         TickRxComplete, TickRxFails, TickRxWaiting, TickProcessOk, TickProcessFails
<1>2. CASE TickGated(n) \/ TickIdleEmpty(n)
  BY <1>0, <1>1, <1>2 DEF TickGated, TickIdleEmpty, OnlyHeartbeat, TickEnds, Halts
<1>3. CASE TickIdleNoLock(n)
  BY <1>3 DEF TickIdleNoLock, TryLockFails, InitFails, PortReady
<1>4. CASE TickIdlePop(n) \/ TickTxStart(n) \/ TickTxDone(n)
  BY <1>0, <1>1, <1>4 DEF TickIdlePop, TickTxStart, TickTxDone, JobStep, Starts
<1>5. CASE TickTxWaiting(n)
  BY <1>1, <1>5 DEF TickTxWaiting, OnlyHeartbeat, Waits
<1>6. CASE \/ TickRxComplete(n, ReadLen, EndSeen)
           \/ TickRxWaiting(n, ReadLen, EndSeen)
  BY <1>1, <1>6 DEF RxRead, TickRxComplete, TickRxWaiting, JobStep, Waits
<1>7. CASE \/ TickTxStartFails(n) \/ TickTxTimeout(n) \/ TickProcessFails(n)
           \/ TickRxFails(n, ReadLen, EndSeen)
  BY <1>1, <1>7, FailureFinishes
  DEF TickTxStartFails, TickTxTimeout, TickProcessFails, TickRxFails, RxRead
<1>8. CASE \E reading \in Parsed : TickProcessOk(n, reading)
  BY <1>1, <1>8 DEF TickProcessOk, ActiveClear, Finishes
<1> QED BY <1>1, <1>2, <1>3, <1>4, <1>5, <1>6, <1>7, <1>8
        DEF BridgeTick, TickQuiet, TickSend, TickSent, TickReceive, TickProcess

\* Every ending gives the mutex back, and only the taking of a job takes it.
LEMMA TickReady ==
  ASSUME PortReady, NEW n, BridgeTick(n)
  PROVE  PortReady'
<1>1. CASE TickIdlePop(n)
  BY <1>1 DEF TickIdlePop, TryLockSucceeds, InitSucceeds, Iteration, PortReady
<1>2. CASE TickIdleNoLock(n)
  BY <1>2 DEF TickIdleNoLock, TryLockFails, InitFails, PortReady
<1>3. CASE TickGated(n) \/ TickIdleEmpty(n) \/ TickTxWaiting(n)
  BY <1>3 DEF TickGated, TickIdleEmpty, TickTxWaiting, OnlyHeartbeat, Iteration, PortReady,
              adaptorVars
<1>4. CASE TickTxStart(n) \/ TickTxDone(n)
  BY <1>4 DEF TickTxStart, TickTxDone, JobStep, Iteration, PortReady
<1>5. CASE \/ TickRxComplete(n, ReadLen, EndSeen)
           \/ TickRxWaiting(n, ReadLen, EndSeen)
  BY <1>5 DEF RxRead, TickRxComplete, TickRxWaiting, JobStep, Iteration, PortReady,
              adaptorVars
<1>6. CASE \/ TickTxStartFails(n) \/ TickTxTimeout(n) \/ TickProcessFails(n)
           \/ TickRxFails(n, ReadLen, EndSeen)
  BY <1>6 DEF TickTxStartFails, TickTxTimeout, TickProcessFails, TickRxFails, JobFailure,
              ActiveClear, Unlocked, Iteration, PortReady
<1>7. CASE \E reading \in Parsed : TickProcessOk(n, reading)
  BY <1>7 DEF TickProcessOk, ActiveClear, Unlocked, Iteration, PortReady
<1> QED BY <1>1, <1>2, <1>3, <1>4, <1>5, <1>6, <1>7
        DEF BridgeTick, TickQuiet, TickSend, TickSent, TickReceive, TickProcess

\* The end of a job sets the gate ahead of the clock, however old it was.
LEMMA FinishedGate ==
  ASSUME Sound, Phased, Paced, NEW T \in Nat, CycleFits(T), NEW d \in Nat,
         Slept + d <= Pass, now' = Add(now, d), Finishes(Add(now, d))
  PROVE  Lag' <= Cool
<1> DEFINE n == Add(now, d)
<1>1. /\ Cool \in Nat /\ RetryCooldown \in Nat /\ InterjobCooldown \in Nat
      /\ RetryCooldown <= Cool /\ InterjobCooldown <= Cool
      /\ Cool < Half /\ Half \in Nat /\ Cool < ClockMod /\ ClockMod \in Nat
  BY Limits
<1>2. n \in Time /\ s_retry_not_before_ms \in Time
  BY Stamps
<1>3. /\ Elapsed(n, s_retry_not_before_ms) + Cool < Half
      /\ Elapsed(n, s_retry_not_before_ms) \in Nat
  <2>1. /\ Lag + d >= Cool
        /\ Elapsed(n, s_retry_not_before_ms) = Lag + d - Cool
        /\ Lag + d <= Longest + 5 * Pass + TxTimeout + T
    BY LagMoves DEF Finishes
  <2>2. Elapsed(n, s_retry_not_before_ms) \in Nat
    BY <1>2, ElapsedType
  <2> QED BY <2>1, <2>2, LagType, Limits
<1> HIDE DEF n
<1>4. \E c \in Nat : c <= Cool /\ s_retry_not_before_ms' = Add(n, c)
  <2>1. CASE s_retry_not_before_ms' = NotBefore(s_retry_not_before_ms, Add(n, InterjobCooldown))
    <3>1. Elapsed(n, s_retry_not_before_ms) + InterjobCooldown < Half
      BY <1>1, <1>3
    <3>2. s_retry_not_before_ms' = Add(n, InterjobCooldown)
      BY <1>1, <1>2, <2>1, <3>1, GateSet
    <3> QED BY <1>1, <3>2
  <2>2. CASE s_retry_not_before_ms' = NotBefore(Add(n, RetryCooldown), Add(n, InterjobCooldown))
    <3>1. RetryCooldown < Half /\ InterjobCooldown < Half
      BY <1>1
    <3>2. s_retry_not_before_ms' =
            Add(n, IF InterjobCooldown > RetryCooldown THEN InterjobCooldown ELSE RetryCooldown)
      BY <1>1, <1>2, <2>2, <3>1, GateSetTwice
    <3> QED BY <1>1, <3>2
  <2> QED BY <2>1, <2>2 DEF Finishes, n
<1>5. PICK c \in Nat : c <= Cool /\ s_retry_not_before_ms' = Add(n, c)
  BY <1>4
<1>6. Elapsed(Add(n, Cool), Add(n, c)) = Cool - c
  BY <1>1, <1>2, <1>5, LagSet
<1>7. Lag' = Elapsed(Add(n, Cool), Add(n, c))
  BY <1>5 DEF Lag, n, Cool
<1> QED BY <1>1, <1>5, <1>6, <1>7

LEMMA RetryLagMoves ==
  ASSUME Sound, NEW T \in Nat, CycleFits(T), NEW d \in Nat, d <= Pass,
         RetryLag <= InitRetryPeriod + Pass
  PROVE  Elapsed(Add(Add(now, d), InitRetryPeriod), s_init_retry_not_before_ms) = RetryLag + d
<1>1. /\ RetryLag \in Nat /\ InitRetryPeriod \in Nat
      /\ InitRetryPeriod < ClockMod /\ d < ClockMod /\ RetryLag + d < ClockMod
  BY LagType, Limits
<1> QED BY <1>1, Stamps, LagLater DEF RetryLag

LEMMA UpdateLagMoves ==
  ASSUME Sound, NEW T \in Nat, CycleFits(T), NEW d \in Nat, d <= Pass,
         UpdateLag <= UpdatePeriod + Pass
  PROVE  Elapsed(Add(Add(now, d), UpdatePeriod), s_next_dynamic_update_ms) = UpdateLag + d
<1>1. /\ UpdateLag \in Nat /\ UpdatePeriod \in Nat
      /\ UpdatePeriod < ClockMod /\ d < ClockMod /\ UpdateLag + d < ClockMod
  BY LagType, Limits
<1> QED BY <1>1, Stamps, LagLater DEF UpdateLag

LEMMA AgeMoves ==
  ASSUME Sound, NEW T \in Nat, CycleFits(T), NEW d \in Nat, d <= Pass,
         Age <= TxTimeout + T + 2 * Pass
  PROVE  Elapsed(Add(now, d), s_state_start_ms) = Age + d
<1>1. Age \in Nat /\ Age + d < ClockMod
  BY LagType, Limits
<1> QED BY <1>1, Stamps, ElapsedLater DEF Age

\* In each state of a job its age is within bounds.
LEMMA AgeBound ==
  ASSUME Sound, Phased, Paced, NEW T \in Nat, CycleFits(T), s_state # "IDLE"
  PROVE  Age <= TxTimeout + T + 2 * Pass
<1>1. JobPaced /\ s_state \in States
  BY DEF Paced, Sound, Plain, TypeOK
<1>2. s_active.req.timeout_ms \in Nat /\ s_active.req.timeout_ms <= T
  BY ActiveLimit
<1>3. \/ Age <= Slept
      \/ Age <= TxTimeout + Slept
      \/ Age <= s_active.req.timeout_ms + Slept
      \/ Age <= s_active.req.timeout_ms + Pass + Slept
  BY <1>1 DEF JobPaced, States
<1>4. Age \in Nat /\ Slept \in Nat /\ Slept <= MaxStall
  BY LagType, Limits DEF Slept
<1> QED BY <1>2, <1>3, <1>4, Limits

\* A gate ahead of the clock satisfies every bound: the main task is in a state in
\* which a job can be under way.
LEMMA JustFinished ==
  ASSUME Sound, Sound', Phased, NEW T \in Nat, CycleFits(T), s_state # "IDLE",
         s_ups_bootstrap_state' = s_ups_bootstrap_state,
         s_dynamic_update_cycle_active' = s_dynamic_update_cycle_active,
         loop' \in {"tick", "delay"}, Lag' \in Nat, Lag' <= Cool
  PROVE  IdlePaced'
<1>1. /\ s_ups_bootstrap_state \notin QuietStates
      /\ ~(s_ups_bootstrap_state = "DONE" /\ ~s_dynamic_update_cycle_active)
  BY DEF Phased, Busy
<1>2. Slack' \in Nat /\ LateSlack' \in Nat
  BY Limits DEF Slack, LateSlack
<1>3. Cool' = Cool /\ Pass' = Pass /\ Longest' = Longest
  BY DEF Cool, Pass, Longest, Period
<1>4. EmptyPaced'
  BY <1>1, <1>2, <1>3, Limits DEF EmptyPaced, QuietStates
<1>5. QueuedPaced'
  BY <1>3, Limits DEF QueuedPaced
<1> QED BY <1>3, <1>4, <1>5 DEF IdlePaced

LEMMA TickPaced ==
  ASSUME Sound, Sound', Phased, Paced, NEW T \in Nat, CycleFits(T), TickTask
  PROVE  Paced'
<1>1. PICK d \in 0 .. MaxDrift : InTime(Add(now, d)) /\ BridgeTick(Add(now, d))
  BY DEF TickTask, BridgeTick
<1> DEFINE n == Add(now, d)
<1>2. /\ loop = "tick" /\ loop' = IF step' = 0 THEN "delay" ELSE "tick"
      /\ UNCHANGED <<s_ups_bootstrap_state, s_bootstrap_constant_idx,
                     s_bootstrap_dynamic_idx, s_init_retry_not_before_ms,
                     s_dynamic_update_cycle_active, s_dynamic_update_idx,
                     s_next_dynamic_update_ms>>
  BY DEF TickTask, bootVars, dynVars
<1>3. d \in Nat /\ d <= MaxDrift /\ d <= Pass /\ Slept + d <= Pass /\ Slept \in Nat
      /\ Slept <= MaxStall
  BY Limits DEF Slept
<1>4. now' = n /\ (Halts(n) \/ Starts(n) \/ Waits(n) \/ Finishes(n))
  BY <1>1, TickPace DEF Sound, Paced
<1>5. PortReady' /\ Indexed' /\ (loop' # "tick" => step' = 0)
  BY <1>1, <1>2, TickReady DEF Paced, Indexed
<1>6. Slack = 0 /\ LateSlack = 0 /\ Slept' = 0
  BY <1>2 DEF Slack, LateSlack, Slept
<1>7. /\ Elapsed(Add(n, Cool), s_retry_not_before_ms) = Lag + d
      /\ GateOpen(n) <=> Lag + d >= Cool
  BY <1>3, LagMoves
<1>8. /\ Lag \in Nat /\ RetryLag \in Nat /\ UpdateLag \in Nat /\ Age \in Nat
      /\ n \in Time /\ Lag' \in Nat /\ Cool \in Nat /\ Age' \in Nat
  <2>1. n \in Time
    BY <1>3, Stamps
  <2>2. Lag' \in Nat /\ Age' \in Nat
    BY LagTypeNext
  <2> QED BY <2>1, <2>2, LagType, Limits
<1>9. s_retry_not_before_ms' = s_retry_not_before_ms => Lag' = Lag + d
  BY <1>4, <1>7 DEF Lag, Cool
<1>10. s_state_start_ms' = n => Age' = 0
  BY <1>4, <1>8, ElapsedSelf DEF Age
<1>11. s_state # "IDLE" /\ s_state_start_ms' = s_state_start_ms =>
         Age' = Age + d /\ Elapsed(n, s_state_start_ms) = Age + d
  BY <1>3, <1>4, AgeBound, AgeMoves DEF Age
<1> SUFFICES /\ s_state' = "IDLE" => IdlePaced'
             /\ s_state' # "IDLE" => JobPaced'
  BY <1>5 DEF Paced
<1> HIDE DEF n
<1>12. CASE Halts(n)
  <2>1. /\ Lag' = Lag + d /\ s_state' = s_state /\ s_queue' = s_queue
        /\ step' = 0 /\ loop' = "delay"
    BY <1>2, <1>9, <1>12 DEF Halts
  <2>2. Slack' = MaxDrift /\ LateSlack' = MaxDrift
    BY <2>1 DEF Slack, LateSlack
  <2>3. s_state = "IDLE"
    BY <1>3, <1>7, <1>8, <1>12 DEF Halts, Paced, JobPaced
  <2>4. ASSUME s_queue # <<>> PROVE QueuedPaced'
    <3>1. Lag' <= Cool
      BY <1>7, <1>8, <1>12, <2>1, <2>4 DEF Halts
    <3>2. Lag' <= Longest' /\ Cool' = Cool
      BY <1>8, <3>1, Limits DEF Longest, Cool, Pass, Period
    <3> QED BY <2>1, <3>1, <3>2 DEF QueuedPaced
  <2>5. ASSUME s_queue = <<>> PROVE EmptyPaced'
    <3>1. EmptyPaced
      BY <2>3, <2>5 DEF Paced, IdlePaced
    <3>2. ASSUME s_ups_bootstrap_state = "WAIT_RETRY"
          PROVE  /\ RetryLag' = RetryLag + d
      <4>1. RetryLag <= InitRetryPeriod + Pass
        BY <1>6, <1>8, <3>1, <3>2, Limits DEF EmptyPaced
      <4> QED BY <1>2, <1>3, <1>4, <4>1, RetryLagMoves DEF RetryLag, n
    <3>3. ASSUME s_ups_bootstrap_state = "DONE", ~s_dynamic_update_cycle_active
          PROVE  /\ UpdateLag' = UpdateLag + d
      <4>1. UpdateLag <= UpdatePeriod + Pass
        BY <1>6, <1>8, <3>1, <3>3, Limits DEF EmptyPaced
      <4> QED BY <1>2, <1>3, <1>4, <4>1, UpdateLagMoves DEF UpdateLag, n
    <3>4. Cool' = Cool /\ Pass' = Pass
      BY DEF Cool, Pass
    <3> QED BY <1>2, <1>3, <1>6, <1>8, <2>1, <2>2, <3>1, <3>2, <3>3, <3>4, Limits
            DEF EmptyPaced
  <2> QED BY <2>1, <2>3, <2>4, <2>5 DEF IdlePaced
<1>13. CASE Starts(n)
  <2>1. Lag' = Lag + d /\ Lag' >= Cool /\ Age' = 0
    BY <1>7, <1>8, <1>9, <1>10, <1>13 DEF Starts
  <2>2. s_active'.req.timeout_ms \in Nat
    BY DEF Sound, Plain, TypeOK, JobType, RequestType
  <2>3. CASE s_state = "IDLE" /\ s_queue # <<>> /\ s_state' = "TX_START"
    <3>1. Lag <= Longest
      BY <2>3 DEF Paced, IdlePaced, QueuedPaced
    <3>2. Lag' <= Longest + Pass + Age' /\ Age' <= Slept'
      BY <1>3, <1>6, <1>8, <2>1, <3>1, Limits
    <3> QED BY <2>1, <2>3, <3>2 DEF JobPaced, Longest, Cool, Pass, Period
  <2>4. CASE s_state = "TX_START" /\ s_state' = "TX_WAIT"
    <3>1. Lag <= Longest + Pass + Age /\ Age <= Slept
      BY <2>4 DEF Paced, JobPaced
    <3>2. Lag' <= Longest + 2 * Pass + Age' /\ Age' <= TxTimeout + Slept'
      BY <1>3, <1>6, <1>8, <2>1, <3>1, Limits
    <3> QED BY <2>1, <2>4, <3>2 DEF JobPaced, Longest, Cool, Pass, Period
  <2>5. CASE s_state = "TX_WAIT" /\ s_state' = "RX_WAIT"
    <3>1. Lag <= Longest + 2 * Pass + Age /\ Age <= TxTimeout + Slept
      BY <2>5 DEF Paced, JobPaced
    <3>2. /\ Lag' <= Longest + 3 * Pass + TxTimeout + Age'
          /\ Age' <= s_active'.req.timeout_ms + Slept'
      BY <1>3, <1>6, <1>8, <2>1, <2>2, <3>1, Limits
    <3> QED BY <2>1, <2>5, <3>2 DEF JobPaced, Longest, Cool, Pass, Period
  <2> QED BY <1>13, <2>3, <2>4, <2>5 DEF Starts
<1>14. CASE Waits(n)
  <2>1. /\ Lag' = Lag + d /\ Lag' >= Cool /\ s_active' = s_active
        /\ Age' = Age + d /\ Elapsed(n, s_state_start_ms) = Age + d
    BY <1>7, <1>8, <1>9, <1>11, <1>14 DEF Waits
  <2>2. s_active.req.timeout_ms \in Nat
    BY DEF Sound, Plain, TypeOK, JobType, RequestType
  <2>3. CASE s_state = "TX_WAIT" /\ s_state' = "TX_WAIT"
    <3>1. Lag <= Longest + 2 * Pass + Age /\ Elapsed(n, s_state_start_ms) < TxTimeout
      BY <1>14, <2>3 DEF Paced, JobPaced, Waits
    <3>2. Lag' <= Longest + 2 * Pass + Age' /\ Age' <= TxTimeout + Slept'
      BY <1>3, <1>6, <1>8, <2>1, <3>1, Limits
    <3> QED BY <2>1, <2>3, <3>2 DEF JobPaced, Longest, Cool, Pass, Period
  <2>4. CASE s_state = "RX_WAIT" /\ s_state' = "RX_WAIT"
    <3>1. /\ Lag <= Longest + 3 * Pass + TxTimeout + Age
          /\ Elapsed(n, s_state_start_ms) < s_active.req.timeout_ms
      BY <1>8, <1>14, <2>1, <2>2, <2>4 DEF Paced, JobPaced, Waits, RxExpired
    <3>2. /\ Lag' <= Longest + 3 * Pass + TxTimeout + Age'
          /\ Age' <= s_active'.req.timeout_ms + Slept'
      BY <1>3, <1>6, <1>8, <2>1, <2>2, <3>1, Limits
    <3> QED BY <2>1, <2>4, <3>2 DEF JobPaced, Longest, Cool, Pass, Period
  <2>5. CASE s_state = "RX_WAIT" /\ s_state' = "PROCESS"
    <3>1. /\ Lag <= Longest + 3 * Pass + TxTimeout + Age
          /\ Age <= s_active.req.timeout_ms + Slept
      BY <2>5 DEF Paced, JobPaced
    <3>2. /\ Lag' <= Longest + 3 * Pass + TxTimeout + Age'
          /\ Age' <= s_active'.req.timeout_ms + Pass + Slept'
      BY <1>3, <1>6, <1>8, <2>1, <2>2, <3>1, Limits
    <3> QED BY <2>1, <2>5, <3>2 DEF JobPaced, Longest, Cool, Pass, Period
  <2> QED BY <1>14, <2>3, <2>4, <2>5 DEF Waits
<1>15. CASE Finishes(n)
  <2>1. Lag' <= Cool
    BY <1>3, <1>4, <1>15, FinishedGate DEF n
  <2>2. s_state # "IDLE" /\ s_state' = "IDLE"
    BY <1>15 DEF Finishes
  <2> QED BY <1>2, <1>8, <2>1, <2>2, JustFinished
<1> QED BY <1>4, <1>12, <1>13, <1>14, <1>15

LEMMA DelayPaced ==
  ASSUME Sound, Sound', Phased, Paced, NEW T \in Nat, CycleFits(T), LoopDelay
  PROVE  Paced'
<1>1. /\ loop = "delay" /\ loop' = "bootstrap" /\ step = 0 /\ step' = 0
      /\ UNCHANGED <<s_enabled, s_queue, s_active, s_state, s_state_start_ms,
                     s_retry_not_before_ms, adaptorVars, bootVars, dynVars>>
  BY DEF LoopDelay, Paced, jobVars
<1>2. PICK d \in 1 .. MaxStall : now' = Add(now, d)
  BY DEF LoopDelay, LaterReads
<1>3. d \in Nat /\ d <= MaxStall /\ d <= Pass
  BY Limits
<1>4. /\ Slack = MaxDrift /\ LateSlack = MaxDrift /\ Slept = 0
      /\ Slack' = Pass /\ LateSlack' = Pass /\ Slept' = MaxStall
  BY <1>1 DEF Slack, LateSlack, Slept, Pass
<1>5. /\ Lag \in Nat /\ RetryLag \in Nat /\ UpdateLag \in Nat /\ Age \in Nat
  BY LagType
<1>6. Lag' = Lag + d
  <2>1. Slept + d <= Pass
    BY <1>3, <1>4, Limits
  <2>2. Elapsed(Add(Add(now, d), Cool), s_retry_not_before_ms) = Lag + d
    BY <1>3, <2>1, LagMoves
  <2> QED BY <1>1, <1>2, <2>2 DEF Lag, Cool
<1>7. PortReady' /\ Indexed'
  BY <1>1 DEF Paced, PortReady, Indexed, adaptorVars, bootVars
<1>8. ASSUME s_state = "IDLE", s_queue = <<>> PROVE EmptyPaced'
  <2>1. EmptyPaced
    BY <1>8 DEF Paced, IdlePaced
  <2>2. ASSUME s_ups_bootstrap_state = "WAIT_RETRY" PROVE RetryLag' = RetryLag + d
    <3>1. RetryLag <= InitRetryPeriod + Pass
      BY <1>4, <1>5, <2>1, <2>2, Limits DEF EmptyPaced
    <3> QED BY <1>1, <1>2, <1>3, <3>1, RetryLagMoves DEF RetryLag, bootVars
  <2>3. ASSUME s_ups_bootstrap_state = "DONE", ~s_dynamic_update_cycle_active
        PROVE  UpdateLag' = UpdateLag + d
    <3>1. UpdateLag <= UpdatePeriod + Pass
      BY <1>4, <1>5, <2>1, <2>3, Limits DEF EmptyPaced
    <3> QED BY <1>1, <1>2, <1>3, <3>1, UpdateLagMoves DEF UpdateLag, dynVars
  <2>4. Cool' = Cool /\ Pass' = Pass
    BY DEF Cool, Pass
  <2>5. /\ s_ups_bootstrap_state' = s_ups_bootstrap_state
        /\ s_dynamic_update_cycle_active' = s_dynamic_update_cycle_active
    BY <1>1 DEF bootVars, dynVars
  <2> QED BY <1>3, <1>4, <1>5, <1>6, <2>1, <2>2, <2>3, <2>4, <2>5, Limits DEF EmptyPaced
<1>9. ASSUME s_state = "IDLE", s_queue # <<>> PROVE QueuedPaced'
  <2>1. Lag <= Cool
    BY <1>1, <1>9 DEF Paced, IdlePaced, QueuedPaced
  <2>2. Lag' <= Cool + MaxStall /\ Lag' <= Longest
    BY <1>3, <1>5, <1>6, <2>1, Limits
  <2> QED BY <1>1, <2>2 DEF QueuedPaced, Longest, Cool, Pass, Period
<1>10. ASSUME s_state # "IDLE" PROVE JobPaced'
  <2>1. Age' = Age + d
    BY <1>1, <1>2, <1>3, <1>10, AgeBound, AgeMoves DEF Age
  <2>2. s_active.req.timeout_ms \in Nat
    BY <1>10, ActiveLimit
  <2>3. JobPaced
    BY <1>10 DEF Paced
  <2>4. Cool' = Cool /\ Pass' = Pass /\ Longest' = Longest
    BY DEF Cool, Pass, Longest, Period
  <2> QED BY <1>1, <1>3, <1>4, <1>5, <1>6, <2>1, <2>2, <2>3, <2>4, Limits DEF JobPaced
<1> QED BY <1>1, <1>7, <1>8, <1>9, <1>10 DEF Paced, IdlePaced

\* Into an empty ring a pass over a table puts at least one request.
LEMMA AcceptsOne ==
  ASSUME TypeOK, NEW lut \in Seq(RequestType), NEW idx \in 0 .. Len(lut),
         \A i \in 1 .. Len(lut) : RequestIsValid(lut[i]),
         idx < Len(lut) \/ s_queue # <<>>
  PROVE  QueueAfter(lut, idx) # <<>>
<1>1. /\ s_queue \in Seq(JobType) /\ Len(s_queue) \in Nat
      /\ Len(lut) \in Nat /\ idx \in Nat /\ idx <= Len(lut)
      /\ Burst \in Nat \ {0} /\ QueueSize \in Nat \ {0}
  BY BridgeAssumption, EngineAssumption DEF TypeOK
<1>2. /\ Len(QueueAfter(lut, idx)) = Len(s_queue) + Accepted(lut, idx)
      /\ Accepted(lut, idx) \in Nat
  <2>1. Len(QueueAfter(lut, idx)) = Len(s_queue) + Accepted(lut, idx)
    BY QueueAfterIs
  <2>2. Accepted(lut, idx) \in 0 .. Len(lut) - idx
    BY AcceptedLargest
  <2> QED BY <1>1, <2>1, <2>2
<1>3. CASE s_queue # <<>>
  <2>1. Len(s_queue) > 0
    BY <1>1, <1>3
  <2>2. Len(QueueAfter(lut, idx)) # 0
    BY <1>1, <1>2, <2>1
  <2> QED BY <2>2
<1>4. CASE s_queue = <<>> /\ idx < Len(lut)
  <2>1. Len(s_queue) = 0
    BY <1>4
  <2>2. \A j \in 1 .. 1 : RequestIsValid(lut[idx + j])
    <3>1. idx + 1 \in 1 .. Len(lut)
      BY <1>1, <1>4
    <3> QED BY <3>1
  <2>3. 1 \in 0 .. Len(lut) - idx /\ 1 <= Burst /\ Len(s_queue) + 1 <= QueueSize
    BY <1>1, <1>4, <2>1
  <2>4. 1 <= Accepted(lut, idx)
    BY <2>2, <2>3, AcceptedLargest
  <2>5. Len(QueueAfter(lut, idx)) # 0
    BY <1>2, <2>1, <2>4
  <2> QED BY <2>5
<1> QED BY <1>3, <1>4

\* A call of ups_bootstrap_task() or ups_dynamic_update_task() takes no time and does
\* not touch a job under way.
LEMMA CallPaced ==
  ASSUME Paced, UNCHANGED EngineRest, Indexed',
         loop \in {"bootstrap", "dynamic"}, loop' \in {"dynamic", "tick"},
         s_state = "IDLE" /\ s_queue' = <<>> => EmptyPaced',
         s_state = "IDLE" /\ s_queue' # <<>> => Lag <= Longest
  PROVE  Paced'
<1>1. /\ step = 0 /\ step' = 0
      /\ UNCHANGED <<now, s_enabled, s_active, s_state, s_state_start_ms,
                     s_retry_not_before_ms, adaptorVars>>
  BY DEF Paced, EngineRest, clockVars
<1>2. PortReady'
  BY <1>1 DEF Paced, PortReady, adaptorVars
<1>3. Lag' = Lag /\ Age' = Age /\ Slept' = Slept
  BY <1>1 DEF Lag, Age, Slept, Cool
<1>4. Cool' = Cool /\ Pass' = Pass /\ Longest' = Longest
  BY DEF Cool, Pass, Longest, Period
<1>5. s_state # "IDLE" => JobPaced'
  BY <1>1, <1>3, <1>4 DEF Paced, JobPaced
<1>6. s_state = "IDLE" /\ s_queue' # <<>> => QueuedPaced'
  BY <1>3, <1>4 DEF QueuedPaced
<1> QED BY <1>1, <1>2, <1>5, <1>6 DEF Paced, IdlePaced

\* The two deadlines of main.c, set now.
LEMMA DeadlinesSet ==
  ASSUME Sound, NEW T \in Nat, CycleFits(T), now' = now
  PROVE  /\ s_init_retry_not_before_ms' = Add(now, InitRetryPeriod) => RetryLag' = 0
         /\ s_next_dynamic_update_ms' = Add(now, UpdatePeriod) => UpdateLag' = 0
<1>1. Add(now, InitRetryPeriod) \in Time /\ Add(now, UpdatePeriod) \in Time
  BY Limits, Stamps
<1> QED BY <1>1, ElapsedSelf DEF RetryLag, UpdateLag

LEMMA TablesValid ==
  ASSUME TablesAccepted
  PROVE  /\ \A i \in 1 .. Len(ConstantLut) : RequestIsValid(ConstantLut[i])
         /\ \A i \in 1 .. Len(DynamicLut) : RequestIsValid(DynamicLut[i])
BY DEF TablesAccepted, TableRequests, RequestsOf

LEMMA BootstrapPaced ==
  ASSUME Sound, Phased, Paced, TablesAccepted, NEW T \in Nat, CycleFits(T), BootstrapTask
  PROVE  Paced'
<1>1. /\ loop = "bootstrap" /\ loop' = "dynamic" /\ UNCHANGED EngineRest
      /\ now' = now /\ s_retry_not_before_ms' = s_retry_not_before_ms
      /\ s_dynamic_update_cycle_active' = s_dynamic_update_cycle_active
  BY DEF BootstrapTask, EnqueueHeartbeat, WaitHeartbeatDrain, WaitRetry, WaitDrain, WaitFor,
         HeartbeatVerify, EnqueueConstant, EnqueueDynamic, SanityPasses, SanityFails,
         BootstrapDone, Bootstrap, EngineRest, vars, clockVars, jobVars, dynVars
<1>2. /\ Slack = Pass /\ LateSlack = Pass /\ Slack' = 0 /\ LateSlack' = Pass
  BY <1>1 DEF Slack, LateSlack, Pass
<1>3. /\ Lag \in Nat /\ RetryLag \in Nat /\ UpdateLag \in Nat
      /\ Lag' = Lag /\ Cool' = Cool /\ Pass' = Pass
      /\ s_init_retry_not_before_ms' = s_init_retry_not_before_ms => RetryLag' = RetryLag
      /\ s_next_dynamic_update_ms' = s_next_dynamic_update_ms => UpdateLag' = UpdateLag
  BY <1>1, LagType DEF Lag, RetryLag, UpdateLag, Cool, Pass
<1>4. /\ s_state = "IDLE" /\ s_queue = <<>> => EmptyPaced
      /\ s_state = "IDLE" /\ s_queue # <<>> => Lag <= Longest
      /\ Indexed /\ TypeOK
  BY DEF Paced, IdlePaced, QueuedPaced, Sound, Plain
<1> SUFFICES /\ Indexed'
             /\ s_state = "IDLE" /\ s_queue' = <<>> => EmptyPaced'
             /\ s_state = "IDLE" /\ s_queue' # <<>> => Lag <= Longest
  BY <1>1, CallPaced
<1>5. CASE EnqueueHeartbeat
  <2>1. s_ups_bootstrap_state = "ENQUEUE_HEARTBEAT" /\ s_queue = <<>> /\ s_state = "IDLE"
    BY <1>5 DEF EnqueueHeartbeat, Bootstrap, Phased, QuietStates, Busy
  <2>2. EnqueueResult(Probe) = "OK"
    <3>1. ~QueueIsFull(s_queue)
      BY <2>1, EngineAssumption DEF QueueIsFull
    <3> QED BY <3>1 DEF EnqueueResult, TablesAccepted, Paced, PortReady
  <2>3. s_queue' # <<>> /\ s_ups_bootstrap_state' = "WAIT_HEARTBEAT_DRAIN"
    <3> DEFINE job == NewJob(Probe, FALSE)
    <3>1. s_queue' = Append(s_queue, job) /\ s_ups_bootstrap_state' = "WAIT_HEARTBEAT_DRAIN"
      BY <1>5, <2>2 DEF EnqueueHeartbeat
    <3>2. s_queue' = <<job>>
      BY <2>1, <3>1
    <3> HIDE DEF job
    <3> QED BY <3>1, <3>2
  <2>4. Lag <= Cool + 3 * Pass + InitRetryPeriod + Pass
    BY <1>2, <1>4, <2>1 DEF EmptyPaced
  <2>5. Lag <= Longest
    BY <1>3, <2>4, Limits
  <2> QED BY <2>3, <2>5 DEF Indexed
<1>6. CASE WaitHeartbeatDrain \/ WaitDrain
  <2>1. /\ UNCHANGED <<s_queue, s_state>>
        /\ \/ /\ s_ups_bootstrap_state \in {"WAIT_HEARTBEAT_DRAIN", "WAIT_DRAIN"}
              /\ s_ups_bootstrap_state' = s_ups_bootstrap_state /\ Busy
           \/ /\ s_ups_bootstrap_state \in {"WAIT_HEARTBEAT_DRAIN", "WAIT_DRAIN"}
              /\ s_ups_bootstrap_state' \in {"HEARTBEAT_VERIFY", "SANITY_CHECK"}
    BY <1>6 DEF WaitHeartbeatDrain, WaitDrain, WaitFor, Bootstrap, EngineRest
  <2>2. Indexed'
    BY <2>1 DEF Indexed
  <2>3. ASSUME s_state = "IDLE", s_queue = <<>> PROVE EmptyPaced'
    <3>1. /\ s_ups_bootstrap_state \in {"WAIT_HEARTBEAT_DRAIN", "WAIT_DRAIN"}
          /\ s_ups_bootstrap_state' \in {"HEARTBEAT_VERIFY", "SANITY_CHECK"}
      BY <2>1, <2>3 DEF Busy
    <3>2. Lag <= Cool + Pass
      BY <1>2, <1>4, <2>3, <3>1 DEF EmptyPaced
    <3> QED BY <1>2, <1>3, <3>1, <3>2, Limits DEF EmptyPaced
  <2> QED BY <1>4, <2>1, <2>2, <2>3
<1>7. CASE WaitRetry
  <2>1. /\ UNCHANGED <<s_queue, s_init_retry_not_before_ms>>
        /\ s_ups_bootstrap_state = "WAIT_RETRY"
        /\ s_ups_bootstrap_state' = IF ~Before(now, s_init_retry_not_before_ms)
                                    THEN "ENQUEUE_HEARTBEAT" ELSE "WAIT_RETRY"
    BY <1>7 DEF WaitRetry, WaitFor, Bootstrap
  <2>2. ASSUME s_state = "IDLE", s_queue = <<>> PROVE EmptyPaced'
    <3>1. RetryLag <= InitRetryPeriod + Pass /\ Lag <= Cool + 2 * Pass + RetryLag
      BY <1>2, <1>4, <2>1, <2>2 DEF EmptyPaced
    <3>2. ~Before(now, s_init_retry_not_before_ms) <=> RetryLag >= InitRetryPeriod
      <4>1. RetryLag < InitRetryPeriod + Half /\ InitRetryPeriod < Half
        BY <1>3, <3>1, Limits
      <4> QED BY <4>1, Limits, Stamps, PassedIs DEF RetryLag
    <3>3. CASE RetryLag >= InitRetryPeriod
      <4>1. s_ups_bootstrap_state' = "ENQUEUE_HEARTBEAT"
        BY <2>1, <3>2, <3>3
      <4>2. Lag' <= Cool' + 3 * Pass' + InitRetryPeriod + Slack'
        BY <1>2, <1>3, <3>1, Limits
      <4> QED BY <4>1, <4>2 DEF EmptyPaced
    <3>4. CASE ~(RetryLag >= InitRetryPeriod)
      <4>1. s_ups_bootstrap_state' = "WAIT_RETRY" /\ RetryLag' = RetryLag
        BY <1>3, <2>1, <3>2, <3>4
      <4>2. RetryLag' <= InitRetryPeriod + Slack' /\ Lag' <= Cool' + 2 * Pass' + RetryLag'
        BY <1>2, <1>3, <3>1, <3>4, <4>1, Limits
      <4> QED BY <4>1, <4>2 DEF EmptyPaced
    <3> QED BY <3>3, <3>4
  <2>3. Indexed'
    BY <2>1 DEF Indexed
  <2> QED BY <1>4, <2>1, <2>2, <2>3
<1>8. CASE HeartbeatVerify \/ SanityFails
  <2>1. s_state = "IDLE" /\ s_queue = <<>> /\ s_queue' = s_queue
    BY <1>8 DEF HeartbeatVerify, SanityFails, Bootstrap, Phased, QuietStates, Busy
  <2>2. Lag <= Cool + 2 * Pass
    <3>1. s_ups_bootstrap_state \in {"HEARTBEAT_VERIFY", "SANITY_CHECK"}
      BY <1>8 DEF HeartbeatVerify, SanityFails, Bootstrap
    <3>2. Lag <= Cool + Pass + Pass
      BY <1>2, <1>4, <2>1, <3>1 DEF EmptyPaced
    <3> QED BY <1>3, <3>2, Limits
  <2>3. CASE s_ups_bootstrap_state' = "WAIT_RETRY"
    <3>1. s_init_retry_not_before_ms' = Add(now, InitRetryPeriod)
      BY <1>8, <2>3 DEF HeartbeatVerify, SanityFails, ResetForRetry
    <3>2. RetryLag' = 0
      BY <1>1, <3>1, DeadlinesSet
    <3>3. RetryLag' <= InitRetryPeriod + Slack' /\ Lag' <= Cool' + 2 * Pass' + RetryLag'
      BY <1>2, <1>3, <2>2, <3>2, Limits
    <3> QED BY <2>1, <2>3, <3>3 DEF EmptyPaced, Indexed
  <2>4. CASE s_ups_bootstrap_state' # "WAIT_RETRY"
    <3>1. /\ s_ups_bootstrap_state' = "ENQUEUE_CONSTANT"
          /\ s_bootstrap_constant_idx' = 0
      BY <1>8, <2>4 DEF HeartbeatVerify, SanityFails, ResetForRetry, Bootstrap, Phased,
                        ProbeStates
    <3>2. Indexed'
      BY <3>1, LutType DEF Indexed
    <3>3. Lag' <= Cool' + 2 * Pass' + Slack'
      BY <1>2, <1>3, <2>2, Limits
    <3> QED BY <2>1, <3>1, <3>2, <3>3 DEF EmptyPaced
  <2> QED BY <2>3, <2>4
<1>9. CASE EnqueueConstant
  <2> DEFINE idx == s_bootstrap_constant_idx
  <2>1. /\ s_ups_bootstrap_state = "ENQUEUE_CONSTANT"
        /\ s_queue' = QueueAfter(ConstantLut, idx)
        /\ s_bootstrap_constant_idx' = idx + Accepted(ConstantLut, idx)
        /\ s_bootstrap_dynamic_idx' = s_bootstrap_dynamic_idx
        /\ s_ups_bootstrap_state' = IF s_bootstrap_constant_idx' >= Len(ConstantLut)
                                    THEN "ENQUEUE_DYNAMIC" ELSE "ENQUEUE_CONSTANT"
    BY <1>9 DEF EnqueueConstant, Bootstrap
  <2>2. idx \in 0 .. Len(ConstantLut) /\ ConstantLut \in Seq(RequestType)
        /\ Len(ConstantLut) \in Nat /\ Len(DynamicLut) \in Nat
    BY LutType DEF Sound, MainType
  <2>3. Accepted(ConstantLut, idx) \in 0 .. Len(ConstantLut) - idx
    BY <1>4, <2>2, AcceptedLargest
  <2>4. Indexed'
    <3>1. s_bootstrap_dynamic_idx = 0 /\ Len(DynamicLut) > 0
      BY <2>1 DEF Phased, TablesAccepted
    <3> QED BY <2>1, <2>2, <2>3, <3>1 DEF Indexed
  <2>5. ASSUME s_state = "IDLE" PROVE Lag <= Longest
    <3>1. CASE s_queue = <<>>
      <4>1. Lag <= Cool + 2 * Pass + Pass
        BY <1>2, <1>4, <2>1, <2>5, <3>1 DEF EmptyPaced
      <4> QED BY <1>3, <4>1, Limits
    <3> QED BY <1>4, <2>5, <3>1
  <2>6. ASSUME s_state = "IDLE", s_queue' = <<>> PROVE EmptyPaced'
    <3>1. s_queue = <<>> /\ ~(idx < Len(ConstantLut))
      BY <1>4, <2>1, <2>2, <2>6, AcceptsOne, TablesValid
    <3>2. s_ups_bootstrap_state' = "ENQUEUE_DYNAMIC"
      BY <2>1, <2>2, <2>3, <3>1
    <3>3. Lag <= Cool + 2 * Pass + Pass
      BY <1>2, <1>4, <2>1, <2>6, <3>1 DEF EmptyPaced
    <3>4. Lag' <= Cool' + 3 * Pass' + Slack'
      BY <1>2, <1>3, <3>3, Limits
    <3> QED BY <3>2, <3>4 DEF EmptyPaced
  <2> QED BY <2>4, <2>5, <2>6
<1>10. CASE EnqueueDynamic
  <2> DEFINE idx == s_bootstrap_dynamic_idx
  <2>1. /\ s_ups_bootstrap_state = "ENQUEUE_DYNAMIC"
        /\ s_queue' = QueueAfter(DynamicLut, idx)
        /\ s_bootstrap_dynamic_idx' = idx + Accepted(DynamicLut, idx)
        /\ s_ups_bootstrap_state' = IF s_bootstrap_dynamic_idx' >= Len(DynamicLut)
                                    THEN "WAIT_DRAIN" ELSE "ENQUEUE_DYNAMIC"
    BY <1>10 DEF EnqueueDynamic, Bootstrap
  <2>2. idx \in 0 .. Len(DynamicLut) /\ DynamicLut \in Seq(RequestType)
        /\ Len(DynamicLut) \in Nat
    BY LutType DEF Sound, MainType
  <2>3. Accepted(DynamicLut, idx) \in 0 .. Len(DynamicLut) - idx
    BY <1>4, <2>2, AcceptedLargest
  <2>4. Indexed'
    BY <2>1, <2>2, <2>3 DEF Indexed
  <2>5. ASSUME s_state = "IDLE" PROVE Lag <= Longest
    <3>1. CASE s_queue = <<>>
      <4>1. Lag <= Cool + 3 * Pass + Pass
        BY <1>2, <1>4, <2>1, <2>5, <3>1 DEF EmptyPaced
      <4> QED BY <1>3, <4>1, Limits
    <3> QED BY <1>4, <2>5, <3>1
  <2>6. s_queue' # <<>>
    BY <1>4, <2>1, <2>2, AcceptsOne, TablesValid DEF Indexed
  <2> QED BY <2>4, <2>5, <2>6
<1>11. CASE SanityPasses
  <2>1. /\ s_ups_bootstrap_state = "SANITY_CHECK" /\ s_ups_bootstrap_state' = "DONE"
        /\ s_queue' = s_queue /\ s_next_dynamic_update_ms' = Add(now, UpdatePeriod)
    BY <1>11 DEF SanityPasses, vars, jobVars
  <2>2. s_queue = <<>> /\ s_state = "IDLE" /\ ~s_dynamic_update_cycle_active
    BY <2>1 DEF Phased, QuietStates, Busy
  <2>3. UpdateLag' = 0 /\ Lag <= Cool + 2 * Pass
    BY <1>1, <1>2, <1>3, <1>4, <2>1, <2>2, DeadlinesSet, Limits DEF EmptyPaced
  <2>4. UpdateLag' <= UpdatePeriod + LateSlack' /\ Lag' <= Cool' + 2 * Pass' + UpdateLag'
    BY <1>2, <1>3, <2>3, Limits
  <2> QED BY <1>1, <2>1, <2>2, <2>4 DEF EmptyPaced, Indexed
<1>12. CASE BootstrapDone
  <2>1. /\ s_ups_bootstrap_state = "DONE" /\ s_ups_bootstrap_state' = "DONE"
        /\ s_queue' = s_queue /\ s_next_dynamic_update_ms' = s_next_dynamic_update_ms
    BY <1>12 DEF BootstrapDone, Bootstrap, bootVars, dynVars
  <2>2. s_state = "IDLE" /\ s_queue = <<>> => EmptyPaced'
    BY <1>1, <1>2, <1>3, <1>4, <2>1 DEF EmptyPaced
  <2> QED BY <1>4, <2>1, <2>2 DEF Indexed
<1> QED BY <1>5, <1>6, <1>7, <1>8, <1>9, <1>10, <1>11, <1>12 DEF BootstrapTask

LEMMA DynamicPaced ==
  ASSUME Sound, Phased, Paced, TablesAccepted, NEW T \in Nat, CycleFits(T), DynamicTask
  PROVE  Paced'
<1>1. /\ loop = "dynamic" /\ loop' = "tick" /\ UNCHANGED <<EngineRest, bootVars>>
      /\ now' = now /\ s_retry_not_before_ms' = s_retry_not_before_ms
  BY DEF DynamicTask, DynamicIdle, DynamicEnqueue, DynamicDrain, Dynamic, EngineRest,
         clockVars
<1>2. /\ Slack = 0 /\ LateSlack = Pass /\ Slack' = 0 /\ LateSlack' = 0
  BY <1>1 DEF Slack, LateSlack
<1>3. /\ Lag \in Nat /\ RetryLag \in Nat /\ UpdateLag \in Nat
      /\ Lag' = Lag /\ Cool' = Cool /\ Pass' = Pass /\ RetryLag' = RetryLag
      /\ s_next_dynamic_update_ms' = s_next_dynamic_update_ms => UpdateLag' = UpdateLag
      /\ s_ups_bootstrap_state' = s_ups_bootstrap_state
  BY <1>1, LagType DEF Lag, RetryLag, UpdateLag, Cool, Pass, bootVars
<1>4. /\ s_state = "IDLE" /\ s_queue = <<>> => EmptyPaced
      /\ s_state = "IDLE" /\ s_queue # <<>> => Lag <= Longest
      /\ TypeOK
  BY DEF Paced, IdlePaced, QueuedPaced, Sound, Plain
<1>5. Indexed'
  BY <1>1 DEF Paced, Indexed, bootVars
<1> SUFFICES /\ s_state = "IDLE" /\ s_queue' = <<>> => EmptyPaced'
             /\ s_state = "IDLE" /\ s_queue' # <<>> => Lag <= Longest
  BY <1>1, <1>5, CallPaced
<1>6. CASE DynamicIdle
  <2>1. /\ s_queue' = s_queue /\ s_next_dynamic_update_ms' = s_next_dynamic_update_ms
        /\ s_dynamic_update_cycle_active' = s_dynamic_update_cycle_active
        /\ ~CycleRuns
    BY <1>6 DEF DynamicIdle, dynVars
  <2>2. ASSUME s_state = "IDLE", s_queue = <<>> PROVE EmptyPaced'
    <3>1. CASE s_ups_bootstrap_state # "DONE"
      BY <1>2, <1>3, <1>4, <2>2, <3>1 DEF EmptyPaced
    <3>2. CASE s_ups_bootstrap_state = "DONE"
      <4>1. ~s_dynamic_update_cycle_active /\ Before(now, s_next_dynamic_update_ms)
        BY <2>1, <3>2 DEF CycleRuns
      <4>2. UpdateLag <= UpdatePeriod + Pass /\ Lag <= Cool + 2 * Pass + UpdateLag
        BY <1>2, <1>4, <2>2, <3>2, <4>1 DEF EmptyPaced
      <4>3. UpdateLag < UpdatePeriod
        <5>1. UpdateLag < UpdatePeriod + Half /\ UpdatePeriod < Half
          BY <1>3, <4>2, Limits
        <5>2. ~(UpdateLag >= UpdatePeriod)
          BY <4>1, <5>1, Limits, Stamps, PassedIs DEF UpdateLag
        <5> QED BY <1>3, <5>2, Limits
      <4>4. UpdateLag' <= UpdatePeriod + LateSlack' /\ Lag' <= Cool' + 2 * Pass' + UpdateLag'
        BY <1>2, <1>3, <2>1, <4>2, <4>3, Limits
      <4> QED BY <1>3, <2>1, <3>2, <4>1, <4>4 DEF EmptyPaced
    <3> QED BY <3>1, <3>2
  <2> QED BY <1>4, <2>1, <2>2
<1>7. CASE DynamicEnqueue
  <2>1. /\ s_ups_bootstrap_state = "DONE" /\ CycleIdx < Len(DynamicLut)
        /\ s_queue' = QueueAfter(DynamicLut, CycleIdx)
    BY <1>7 DEF DynamicEnqueue, CycleRuns
  <2>2. s_queue' # <<>>
    <3>1. CycleIdx \in 0 .. Len(DynamicLut) /\ DynamicLut \in Seq(RequestType)
      BY CycleIdxType, LutType DEF Sound
    <3> QED BY <1>4, <2>1, <3>1, AcceptsOne, TablesValid
  <2>3. ASSUME s_state = "IDLE", s_queue = <<>> PROVE Lag <= Longest
    <3>1. CASE s_dynamic_update_cycle_active
      <4>1. Lag <= Cool + Pass
        BY <1>2, <1>4, <2>1, <2>3, <3>1 DEF EmptyPaced
      <4> QED BY <1>3, <4>1, Limits
    <3>2. CASE ~s_dynamic_update_cycle_active
      <4>1. UpdateLag <= UpdatePeriod + Pass /\ Lag <= Cool + 2 * Pass + UpdateLag
        BY <1>2, <1>4, <2>1, <2>3, <3>2 DEF EmptyPaced
      <4> QED BY <1>3, <4>1, Limits
    <3> QED BY <3>1, <3>2
  <2> QED BY <1>4, <2>2, <2>3
<1>8. CASE DynamicDrain
  <2>1. /\ s_ups_bootstrap_state = "DONE" /\ CycleIdx >= Len(DynamicLut)
        /\ s_queue' = s_queue /\ s_dynamic_update_cycle_active' = Busy
        /\ ~Busy => s_next_dynamic_update_ms' = Add(now, UpdatePeriod)
    BY <1>8 DEF DynamicDrain, CycleRuns
  <2>2. s_dynamic_update_cycle_active
    BY <2>1, LutType DEF CycleIdx, TablesAccepted
  <2>3. ASSUME s_state = "IDLE", s_queue = <<>> PROVE EmptyPaced'
    <3>1. ~s_dynamic_update_cycle_active' /\ UpdateLag' = 0
      BY <1>1, <2>1, <2>3, DeadlinesSet DEF Busy
    <3>2. Lag <= Cool + Pass
      BY <1>2, <1>4, <2>1, <2>2, <2>3 DEF EmptyPaced
    <3>3. UpdateLag' <= UpdatePeriod + LateSlack' /\ Lag' <= Cool' + 2 * Pass' + UpdateLag'
      BY <1>2, <1>3, <3>1, <3>2, Limits
    <3> QED BY <1>3, <2>1, <3>1, <3>3 DEF EmptyPaced
  <2> QED BY <1>4, <2>1, <2>3
<1> QED BY <1>6, <1>7, <1>8 DEF DynamicTask

\* The UPS, the line and a stuttering step.
LEMMA AsidePaced ==
  ASSUME Paced, UNCHANGED <<vars, loop, bootVars, dynVars>>
  PROVE  Paced'
<1>1. /\ UNCHANGED <<now, step, s_enabled, s_queue, s_active, s_state, s_state_start_ms,
                     s_retry_not_before_ms, s_uart_ready, s_uart_lock, loop,
                     s_ups_bootstrap_state, s_bootstrap_constant_idx,
                     s_bootstrap_dynamic_idx, s_init_retry_not_before_ms,
                     s_dynamic_update_cycle_active, s_next_dynamic_update_ms>>
  BY DEF vars, clockVars, jobVars, adaptorVars, bootVars, dynVars
<1>2. /\ Lag' = Lag /\ RetryLag' = RetryLag /\ UpdateLag' = UpdateLag /\ Age' = Age
      /\ Slack' = Slack /\ LateSlack' = LateSlack /\ Slept' = Slept
      /\ Cool' = Cool /\ Pass' = Pass /\ Longest' = Longest
  BY <1>1 DEF Lag, RetryLag, UpdateLag, Age, Slack, LateSlack, Slept, Cool, Pass, Longest,
              Period
<1>3. PortReady' /\ Indexed'
  BY <1>1 DEF Paced, PortReady, Indexed
<1>4. EmptyPaced' = EmptyPaced
  BY <1>1, <1>2 DEF EmptyPaced
<1>5. QueuedPaced' = QueuedPaced
  BY <1>1, <1>2 DEF QueuedPaced
<1>6. JobPaced' = JobPaced
  BY <1>1, <1>2 DEF JobPaced
<1>7. IdlePaced' = IdlePaced
  BY <1>1, <1>2, <1>4, <1>5 DEF IdlePaced
<1> QED BY <1>1, <1>3, <1>6, <1>7 DEF Paced

LEMMA PacedStep ==
  ASSUME Sound, Sound', Phased, Paced, TablesAccepted, NEW T \in Nat, CycleFits(T),
         [BridgeNext]_bridgeVars
  PROVE  Paced'
<1>1. CASE Ups \/ UpsSettles \/ UNCHANGED bridgeVars
  <2>1. UNCHANGED <<vars, loop, bootVars, dynVars>>
    BY <1>1 DEF Ups, UpsAnswers, UpsSilent, UpsSettles, bridgeVars
  <2> QED BY <2>1, AsidePaced
<1> QED BY <1>1, BootstrapPaced, DynamicPaced, TickPaced, DelayPaced DEF BridgeNext, MainTask

LEMMA PacedInit ==
  ASSUME PortUpInit, NEW T \in Nat, CycleFits(T)
  PROVE  Paced
<1>1. /\ loop = "bootstrap" /\ step = 0 /\ s_state = "IDLE" /\ s_queue = <<>>
      /\ s_ups_bootstrap_state = "ENQUEUE_HEARTBEAT"
      /\ now = 0 /\ s_retry_not_before_ms = 0
      /\ s_enabled /\ s_uart_ready /\ s_uart_lock = "free"
  BY DEF PortUpInit, BridgeInit, Init, AdaptorInit
<1>2. Lag = Cool
  <2>1. 0 \in Time /\ Cool \in Nat /\ Cool < ClockMod
    BY Limits, ZeroInRanges
  <2>2. Add(0, 0) = 0
    BY <2>1, AddIs, ClockModAssumption
  <2>3. Elapsed(Add(0, Cool), Add(0, 0)) = Cool - 0
    BY <2>1, LagSet
  <2> QED BY <1>1, <2>1, <2>2, <2>3 DEF Lag
<1>3. Slack = Pass
  BY <1>1 DEF Slack, Pass
<1>4. Lag <= Cool + 3 * Pass + InitRetryPeriod + Slack
  BY <1>2, <1>3, Limits
<1>5. IdlePaced
  BY <1>1, <1>4 DEF IdlePaced, EmptyPaced
<1> QED BY <1>1, <1>5 DEF Paced, PortReady, Indexed

LEMMA PacedHolds ==
  ASSUME Sound, Phased, Paced, NEW T \in Nat, CycleFits(T)
  PROVE  CooldownHolds
<1>1. Lag \in Nat /\ Cool \in Nat /\ Cool < Half /\ Lag < Cool + Half
  <2>1. Slept \in Nat /\ Slept <= MaxStall
    BY Limits DEF Slept
  <2> QED BY <2>1, LagType, LagBound, Limits
<1>2. /\ GateOpen(now) <=> Lag >= Cool
      /\ Lag <= Cool => Elapsed(s_retry_not_before_ms, now) = Cool - Lag
  BY <1>1, Stamps, PassedIs DEF Lag, GateOpen
<1>3. ~GateOpen(now) => Elapsed(s_retry_not_before_ms, now) <= Cool
  BY <1>1, <1>2
<1>4. Cool = RetryCooldown \/ Cool = InterjobCooldown
  BY DEF Cool
<1> QED BY <1>3, <1>4 DEF CooldownHolds, CooldownBounded

\* With the port up, the signed comparison of the gate of the cooldown never turns over:
\* if a cycle of the main task, of requests that end within T, fits half a turn of the
\* clock, the engine is never held back for longer than a cooldown.
THEOREM CooldownHoldsAlways ==
  ASSUME NEW T \in Nat, CycleFits(T), TablesAccepted
  PROVE  PortUpSpec => []CooldownHolds
<1>1. PortUpInit => BridgeInit /\ Paced
  BY PacedInit DEF PortUpInit
<1>2. Sound /\ Sound' /\ Phased /\ Paced /\ [BridgeNext]_bridgeVars => Paced'
  BY PacedStep
<1>3. Sound /\ Phased /\ Paced => CooldownHolds
  BY PacedHolds
<1> QED BY <1>1, <1>2, <1>3, SoundInit, SoundStep, PhasedInit, PhasedStep, PTL
        DEF PortUpSpec
===============================================================================
