----------------------------- MODULE UartAdaptor -----------------------------
(***************************************************************************)
(* The UART2_* functions of uart_adaptor.c that the request engine calls,  *)
(* as action fragments: each one constrains the primed adaptor variables   *)
(* for one call and relates its result to them.                            *)
(*                                                                         *)
(* The ESP-IDF driver underneath (uart_driver_install, uart_write_bytes,   *)
(* uart_wait_tx_done, the FreeRTOS mutex) is external: what it answers is  *)
(* a nondeterministic choice, except that a second uart_driver_install on  *)
(* the same port is refused.                                               *)
(***************************************************************************)

VARIABLES
  driver_installed,   \* external: uart_driver_install() has succeeded once
  s_uart_ready,       \* the whole of ups_uart_init_if_needed() has succeeded
  s_uart_lock,        \* "null" until the mutex exists, then "free" or "held"
  s_tx_inflight       \* a transmission was started and not seen to finish

adaptorVars == <<driver_installed, s_uart_ready, s_uart_lock, s_tx_inflight>>

AdaptorTypeOK ==
  /\ driver_installed \in BOOLEAN
  /\ s_uart_ready \in BOOLEAN
  /\ s_uart_lock \in {"null", "free", "held"}
  /\ s_tx_inflight \in BOOLEAN

\* After UART2_RxStartIT() made the first attempt to bring the port up.
AdaptorInit ==
  /\ driver_installed \in BOOLEAN
  /\ s_uart_ready \in {FALSE, driver_installed}
  /\ s_uart_lock = IF s_uart_ready THEN "free" ELSE "null"
  /\ s_tx_inflight = FALSE

----------------------------------------------------------------------------
(***************************************************************************)
(* ups_uart_init_if_needed().  A failure after uart_driver_install() leaves *)
(* the driver installed, and the next call then fails in that first step.  *)
(***************************************************************************)
InitFails ==
  /\ ~s_uart_ready
  /\ driver_installed' \in {driver_installed, TRUE}
  /\ UNCHANGED <<s_uart_ready, s_uart_lock, s_tx_inflight>>

\* The initialisation runs to its end; the mutex it creates is in state lock.
InitSucceeds(lock) ==
  /\ ~s_uart_ready
  /\ ~driver_installed
  /\ driver_installed' = TRUE
  /\ s_uart_ready' = TRUE
  /\ s_uart_lock' = lock
  /\ s_tx_inflight' = FALSE

\* UART2_TryLock() returning TRUE: the mutex was free, or has just been made.
TryLockSucceeds ==
  \/ /\ s_uart_ready
     /\ s_uart_lock = "free"
     /\ s_uart_lock' = "held"
     /\ UNCHANGED <<driver_installed, s_uart_ready, s_tx_inflight>>
  \/ InitSucceeds("held")

\* UART2_TryLock() returning FALSE: not initialised, or somebody holds it.
TryLockFails ==
  \/ InitFails
  \/ s_uart_ready /\ s_uart_lock = "held" /\ UNCHANGED adaptorVars

StillHeld == s_uart_lock

\* UART2_Unlock(): gives the mutex if there is one; giving a free one fails
\* without effect.
Unlocked == IF s_uart_lock = "null" THEN "null" ELSE "free"

\* UART2_TxDoneClear(); UART2_SendBytesDMA(): started says whether the driver
\* took every byte.  It can only do so when the port is initialised.
SendStarted(started) ==
  /\ started => s_uart_ready
  /\ s_tx_inflight' = started

\* UART2_TxDone() on an initialised port: idle at once, or as the driver says.
TxDone(finished) ==
  /\ ~s_tx_inflight => finished
  /\ s_tx_inflight' = (s_tx_inflight /\ ~finished)

==============================================================================
