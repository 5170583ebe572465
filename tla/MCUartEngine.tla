---------------------------- MODULE MCUartEngine ----------------------------
(***************************************************************************)
(* Small instances of UartEngine for TLC: requests of every shape the      *)
(* engine tells apart, heartbeat configurations, one telemetry reading.    *)
(***************************************************************************)
EXTENDS EngineRefinesService

MCCmd == {"zero", "status", "model", "ping", "wide", "sm"}

\* A request with terminator: up to `cap` bytes (0: the whole buffer).
Line(cmd, cap, timeout, retries) ==
  [cmd |-> cmd, cmd_bits |-> 8, expected_len |-> cap, expected_ending |-> TRUE,
   expected_ending_len |-> 2, timeout_ms |-> timeout, max_retries |-> retries,
   process_fn |-> TRUE]

\* A request for exactly `len` bytes.
Fixed(cmd, len, timeout, retries, fn) ==
  [cmd |-> cmd, cmd_bits |-> 16, expected_len |-> len, expected_ending |-> FALSE,
   expected_ending_len |-> 0, timeout_ms |-> timeout, max_retries |-> retries,
   process_fn |-> fn]

\* More bytes than s_rx_buf holds; a terminator of no bytes.
TooLong == Fixed("wide", MaxExpectedLen + 1, 2, 0, TRUE)
NoEnding == [Line("model", 2, 2, 0) EXCEPT !.expected_ending_len = 0]

Heartbeat(req, threshold) ==
  [req |-> req, interval_ms |-> 2, failure_threshold |-> threshold]

\* Runs of the queue and the receive paths.
JobRequests == {Line("status", 3, 2, 0), Line("model", 0, 2, 1),
                Fixed("ping", 0, 2, 0, FALSE), TooLong, NoEnding}

RefusedConfigs == {Heartbeat(TooLong, 1)}

\* Runs of progress and retries: one request that is retried, one that is not.
RetryRequests == {Line("model", 0, 2, 1), Fixed("status", 1, 1, 0, TRUE)}

\* Runs of the heartbeat: one data request beside it.
DataRequests == {Fixed("status", 1, 1, 0, FALSE)}
NoReadings == {}
MonitorConfigs == {Heartbeat(Line("sm", 2, 1, 0), 0)}

MCReadings ==
  {[remaining_capacity |-> 87, remaining_time_limit_s |-> 0,
    fully_charged |-> TRUE, below_remaining_capacity_limit |-> FALSE,
    shutdown_imminent |-> FALSE, charging |-> FALSE, discharging |-> FALSE,
    ac_present |-> TRUE]}
==============================================================================
