------------------------- MODULE EngineRefinesService -------------------------
(***************************************************************************)
(* UartEngine implements JobService: the waiting line is s_queue, the job  *)
(* being run is s_active outside IDLE, open is s_enabled.  The retry       *)
(* budget, the clock, the port and the bytes are hidden.                   *)
(***************************************************************************)
EXTENDS UartEngine

Nobody == [req |-> ZeroRequest, is_heartbeat |-> TRUE]

ServiceJob(job) == [req |-> job.req, is_heartbeat |-> job.is_heartbeat]

ServiceLine(q) == [i \in 1 .. Len(q) |-> ServiceJob(q[i])]

MaxRetries(req) == req.max_retries

\* What uart_engine_enqueue() and uart_engine_set_heartbeat() let in.
AcceptedRequests == {req \in Requests : RequestIsValid(req)}
ScheduledRequests == {req \in {cfg.req : cfg \in HbConfigs} : RequestIsValid(req)}

Service == INSTANCE JobService WITH
  Request          <- AcceptedRequests,
  HeartbeatRequest <- ScheduledRequests,
  Retries          <- MaxRetries,
  Capacity         <- QueueSize,
  Nobody           <- Nobody,
  open             <- s_enabled,
  waiting          <- ServiceLine(s_queue),
  serving          <- IF s_state = "IDLE" THEN Nobody ELSE ServiceJob(s_active)

\* The engine keeps the promise: every accepted job is served in order, one at
\* a time, and leaves only by ending, by a retry it is allowed, or on disable.
ImplementsService == Service!Spec
==============================================================================
