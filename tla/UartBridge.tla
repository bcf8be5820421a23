----------------------------- MODULE UartBridge -----------------------------
(***************************************************************************)
(* The register bridge between the CPU at 200 MHz and the serial port at   *)
(* 50 MHz (rtl/peripheral/uart_bridge.sv).  FastTick is an edge of the CPU *)
(* clock, SlowTick one of the peripheral clock.  Both clocks come from one *)
(* PLL without phase shift, so that a register of one domain is sampled by *)
(* the other a whole cycle after it changed.                               *)
(***************************************************************************)
VARIABLES
  fast, slow,   \* the registers of the two domains
  uart_tx_busy, passthrough, uart_rx_ready, uart_rx_data   \* inputs

(* A synchroniser <<first, second>>. *)
Shift(sync, in) == <<in, sync[1]>>
Rises(sync) == sync[1] /\ ~sync[2]

BridgeInit ==
  /\ fast = [tx_pend |-> FALSE, tx_data_q |-> 0, pend_ack_sync |-> <<FALSE, FALSE>>,
             ps_req_pend |-> FALSE, passthrough_sync |-> <<FALSE, FALSE>>,
             rx_rd_req |-> FALSE, rd_ack_sync |-> <<FALSE, FALSE>>,
             rx_valid_sync |-> FALSE, rx_data_d |-> 0, rx_data_sync |-> 0,
             tx_busy_sync |-> FALSE]
  /\ slow = [pend_sync |-> <<FALSE, FALSE>>, tx_req |-> FALSE,
             ack_dly |-> <<FALSE, FALSE>>, tx_data_50 |-> 0,
             passthrough_d |-> FALSE, uart_tx_busy_d |-> FALSE,
             ps_req_sync |-> <<FALSE, FALSE>>, rx_ready_d |-> FALSE,
             rx_valid_q |-> FALSE, rx_data_q |-> 0, rd_sync |-> <<FALSE, FALSE>>,
             rd_ack_50 |-> FALSE]

-----------------------------------------------------------------------------
(* Outputs.  UART_STATUS is what the CPU reads in one cycle. *)
uart_tx_start == slow.tx_req /\ ~uart_tx_busy
uart_tx_data == slow.tx_data_50
passthrough_req == Rises(slow.ps_req_sync)

TX_BUSY == fast.tx_busy_sync \/ fast.tx_pend
RX_VALID == fast.rx_valid_sync
PASSTHROUGH == fast.passthrough_sync[2]

-----------------------------------------------------------------------------
(* One access of the CPU: op is "none", "read" (UART_DATA), "write"        *)
(* (UART_DATA) or "request" (a write to UART_STATUS).                      *)
FastTick(op, wdata) ==
  fast' =
    [tx_pend |-> op = "write" \/ (fast.tx_pend /\ ~fast.pend_ack_sync[2]),
     tx_data_q |-> IF op = "write" THEN wdata ELSE fast.tx_data_q,
     pend_ack_sync |-> Shift(fast.pend_ack_sync, slow.ack_dly[2]),
     ps_req_pend |-> op = "request" \/ fast.ps_req_pend,
     passthrough_sync |-> Shift(fast.passthrough_sync, passthrough),
     rx_rd_req |-> op = "read" \/ (fast.rx_rd_req /\ ~fast.rd_ack_sync[2]),
     rd_ack_sync |-> Shift(fast.rd_ack_sync, slow.rd_ack_50),
     rx_valid_sync |-> slow.rx_valid_q,
     rx_data_d |-> slow.rx_data_q,
     rx_data_sync |-> fast.rx_data_d,
     tx_busy_sync |-> uart_tx_busy]

EntersPassthrough == passthrough /\ ~slow.passthrough_d
LeavesPassthrough == ~passthrough /\ slow.passthrough_d
PortLatched == passthrough /\ uart_tx_busy /\ ~slow.uart_tx_busy_d

tx_req_next ==
  CASE EntersPassthrough -> FALSE
    [] ~EntersPassthrough /\ Rises(slow.pend_sync) -> TRUE
    [] OTHER -> slow.tx_req /\ passthrough /\ ~PortLatched

(* Mutant: a byte is acknowledged when it is seen, not when it is latched. *)
AcksOnSight ==
  Rises(slow.pend_sync) \/ EntersPassthrough \/ LeavesPassthrough \/ PortLatched

(* Mutant: a byte discarded on leaving passthrough is not acknowledged. *)
NoAckOnExit ==
  (Rises(slow.pend_sync) /\ ~passthrough) \/ EntersPassthrough \/ PortLatched

Acknowledges ==
  \/ Rises(slow.pend_sync) /\ ~passthrough
  \/ EntersPassthrough \/ LeavesPassthrough \/ PortLatched

RxByteLatched == uart_rx_ready /\ ~slow.rx_ready_d

(* Mutant: valid is not held. *)
ValidNotHeld == RxByteLatched

rx_valid_next == RxByteLatched \/ (slow.rx_valid_q /\ ~slow.rd_sync[2])


rd_ack_next == slow.rd_sync[2]

SlowTick ==
  slow' =
    [pend_sync |-> Shift(slow.pend_sync, fast.tx_pend),
     tx_req |-> tx_req_next,
     ack_dly |-> Shift(slow.ack_dly, Acknowledges),
     tx_data_50 |-> fast.tx_data_q,
     passthrough_d |-> passthrough,
     uart_tx_busy_d |-> uart_tx_busy,
     ps_req_sync |-> Shift(slow.ps_req_sync, fast.ps_req_pend),
     rx_ready_d |-> uart_rx_ready,
     rx_valid_q |-> rx_valid_next,
     rx_data_q |-> IF RxByteLatched THEN uart_rx_data ELSE slow.rx_data_q,
     rd_sync |-> Shift(slow.rd_sync, fast.rx_rd_req),
     rd_ack_50 |-> rd_ack_next]
=============================================================================
