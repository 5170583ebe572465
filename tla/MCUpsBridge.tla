----------------------------- MODULE MCUpsBridge -----------------------------
(***************************************************************************)
(* Small instances of UpsBridge: the handshake, at most one constant       *)
(* request, and two dynamic ones (a fixed-length reply shorter than what   *)
(* the UPS sends, and a line with the capacity).                           *)
(***************************************************************************)
EXTENDS UpsBridge

MCCmd == {"zero", "sm", "model", "ac", "capacity"}

Request(cmd, len, ending, fn) ==
  [cmd |-> cmd, cmd_bits |-> 8, expected_len |-> len, expected_ending |-> ending,
   expected_ending_len |-> IF ending THEN 1 ELSE 0, timeout_ms |-> 2,
   max_retries |-> 0, process_fn |-> fn]

MCHeartbeat   == Request("sm", 2, FALSE, FALSE)
MCConstantLut == <<Request("model", 3, TRUE, TRUE)>>
MCShortLut    == <<Request("ac", 1, FALSE, TRUE), Request("capacity", 3, TRUE, TRUE)>>
MCEmptyLut    == <<>>
MCNone        == {}
==============================================================================
