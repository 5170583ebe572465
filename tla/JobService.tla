------------------------------ MODULE JobService ------------------------------
(***************************************************************************)
(* What the request engine promises its callers, without clock, port or    *)
(* bytes: a bounded first-in first-out service that runs one job at a      *)
(* time.  An accepted job is either run to its end, or put back at the     *)
(* tail for a retry (only if its request allows retries), or dropped when  *)
(* the service is closed; nothing else is lost, duplicated or overtaken.   *)
(* The service may add one heartbeat job of its own in any step.           *)
(***************************************************************************)
EXTENDS Naturals, Sequences

CONSTANTS
  Request,            \* what callers may submit and the service accepts
  HeartbeatRequest,   \* what the service submits on its own
  Retries(_),         \* how often a request may be retried
  Capacity,           \* most jobs waiting
  Nobody              \* no job is being run

VARIABLES open, waiting, serving

Job(req, hb) == [req |-> req, is_heartbeat |-> hb]

\* The waiting line, with or without a heartbeat added to it.
WithHeartbeat ==
  {waiting} \union
  {Append(waiting, Job(req, TRUE)) :
     req \in IF open = TRUE /\ Len(waiting) < Capacity THEN HeartbeatRequest ELSE {}}

Init == open = TRUE /\ waiting = <<>> /\ serving = Nobody

Accept(req) ==
  /\ open = TRUE
  /\ Len(waiting) < Capacity
  /\ waiting' = Append(waiting, Job(req, FALSE))
  /\ UNCHANGED <<open, serving>>

AddHeartbeat ==
  /\ waiting' \in WithHeartbeat
  /\ UNCHANGED <<open, serving>>

Start ==
  /\ serving = Nobody
  /\ \E line \in WithHeartbeat :
       /\ line # <<>>
       /\ serving' = Head(line)
       /\ waiting' = Tail(line)
  /\ UNCHANGED open

Finish ==
  /\ serving # Nobody
  /\ serving' = Nobody
  /\ waiting' \in WithHeartbeat
  /\ UNCHANGED open

Retry ==
  /\ serving # Nobody
  /\ Retries(serving.req) > 0
  /\ \E line \in WithHeartbeat :
       /\ Len(line) < Capacity
       /\ waiting' = Append(line, serving)
  /\ serving' = Nobody
  /\ UNCHANGED open

Close ==
  /\ open = TRUE
  /\ open' = FALSE
  /\ waiting' = <<>>
  /\ serving' = Nobody

Open ==
  /\ open = FALSE
  /\ open' = TRUE
  /\ UNCHANGED <<waiting, serving>>

Next ==
  \/ \E req \in Request : Accept(req)
  \/ AddHeartbeat \/ Start \/ Finish \/ Retry \/ Close \/ Open

Spec == Init /\ [][Next]_<<open, waiting, serving>>
==============================================================================
