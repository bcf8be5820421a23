--------------------------- MODULE TwinController ---------------------------
(***************************************************************************)
(* The digital-twin controller (rtl/peripheral/twin_controller.sv), one    *)
(* step per 50 MHz edge.  The host sets switches and keys, polls the board *)
(* status, or hands the serial port to the CPU (passthrough).              *)
(***************************************************************************)
EXTENDS Naturals

CONSTANTS NStatus   \* bytes of a status frame, 18 in the code

VARIABLES
  twin,                           \* the registers
  rx_ready, rx_data, tx_busy,     \* inputs, from the serial port
  cpu_uart_tx_start, cpu_uart_tx_data, passthrough_req   \* from the bridge

POLL == 128     \* 8'h80
ENTER == 201    \* 8'hC9
EXIT == 202     \* 8'hCA

passthrough == twin.state = "PASSTHROUGH"

(* One switch stands for sw, key, seg and led: every byte of the status    *)
(* shows it, so that a frame taken at two times can be told from one.      *)
status_byte(i, sw) == 2 * i + sw

TwinInit ==
  twin = [state |-> "IDLE", send_cnt |-> 0, sw |-> 0,
          status_buffer |-> [i \in 0..NStatus - 1 |-> 0],
          tx_start |-> FALSE, tx_data |-> 0, tx_start_d |-> FALSE, pt_first |-> FALSE,
          rx_ready_d |-> FALSE, cpu_rx_valid |-> FALSE, cpu_rx_data |-> 0]

PollAccepted == rx_ready /\ rx_data = POLL /\ twin.state = "IDLE"

SendsStatus == twin.state = "SEND" /\ ~tx_busy


next_state ==
  CASE twin.state = "IDLE" /\ (passthrough_req \/ (rx_ready /\ rx_data = ENTER)) ->
         "PASSTHROUGH"
    [] twin.state = "IDLE" /\ ~passthrough_req /\ PollAccepted -> "SEND"
    [] SendsStatus /\ twin.send_cnt = NStatus - 1 -> "IDLE"
    [] passthrough /\ rx_ready /\ rx_data = EXIT -> "IDLE"
    [] OTHER -> twin.state

(* Mutant: every edge with tx_start up counts. *)
CountsEveryEdge ==
  CASE twin.state = "IDLE" -> 0
    [] twin.state = "SEND" /\ twin.tx_start /\ twin.send_cnt < NStatus - 1 ->
         twin.send_cnt + 1
    [] OTHER -> twin.send_cnt

send_cnt_next ==
  CASE twin.state = "IDLE" -> 0
    [] twin.state = "SEND" /\ twin.tx_start /\ ~twin.tx_start_d -> twin.send_cnt + 1
    [] OTHER -> twin.send_cnt

(* Bit 7 is the new value, bits 6..0 number the switch from 1. *)
sw_next ==
  IF rx_ready /\ rx_data # POLL /\ rx_data # 0 /\ ~passthrough /\ rx_data % 128 <= 72
  THEN rx_data \div 128
  ELSE twin.sw

TwinTick ==
  twin' =
    [state |-> next_state,
     send_cnt |-> send_cnt_next,
     sw |-> sw_next,
     status_buffer |-> IF PollAccepted
                       THEN [i \in 0..NStatus - 1 |-> status_byte(i, twin.sw)]
                       ELSE twin.status_buffer,
     tx_start |-> IF passthrough /\ twin.pt_first THEN cpu_uart_tx_start ELSE SendsStatus,
     tx_data |-> CASE passthrough -> cpu_uart_tx_data
                   [] SendsStatus -> twin.status_buffer[twin.send_cnt]
                   [] OTHER -> twin.tx_data,
     tx_start_d |-> twin.tx_start,
     pt_first |-> passthrough,
     rx_ready_d |-> rx_ready,
     cpu_rx_valid |-> passthrough /\ rx_ready /\ ~twin.rx_ready_d /\ rx_data # EXIT,
     cpu_rx_data |-> rx_data]
=============================================================================
