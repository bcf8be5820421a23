------------------------------ MODULE UartPort ------------------------------
(***************************************************************************)
(* The serial port (rtl/peripheral/uart.sv), one step per 50 MHz edge.  A  *)
(* frame of ten bits is FrameTicks edges long and is shifted as a whole.   *)
(***************************************************************************)
EXTENDS Naturals

CONSTANTS
  FrameTicks,  \* 10 * BAUD_DIV
  ReadyTicks   \* BAUD_DIV, for which rx_ready stays up

VARIABLES
  port,               \* the registers
  tx_start, tx_data   \* inputs, from the twin controller

(* rx_left: edges until another frame can have been received. *)
PortInit ==
  port = [rx_data |-> 0, rx_ready_pulse |-> FALSE, rx_ready |-> FALSE,
          rx_ready_cnt |-> 0, rx_left |-> 0,
          tx_state |-> 0, tx_busy |-> FALSE, tx_cnt |-> 0, tx_shift |-> 0]

(* The stop bit of a frame ends on this edge. *)
RxFrameEnds == port.rx_left = 0

(* frame: the bytes received on this edge, none or one. *)
Receive(frame, p) ==
  LET ends == frame # {}
  IN [p EXCEPT
        !.rx_data = IF ends THEN CHOOSE b \in frame : TRUE ELSE @,
        !.rx_ready_pulse = ends,
        !.rx_left = IF ends THEN FrameTicks - 1 ELSE IF @ > 0 THEN @ - 1 ELSE 0,
        !.rx_ready = \/ port.rx_ready_pulse
                     \/ @ /\ port.rx_ready_cnt < ReadyTicks - 1,
        !.rx_ready_cnt = IF port.rx_ready_pulse \/ ~port.rx_ready \/ @ = ReadyTicks - 1
                         THEN 0 ELSE @ + 1]

TxLatches == port.tx_state = 0 /\ tx_start

(* Mutant: the last count is one too many. *)
FrameTooLong == port.tx_state = 1 /\ port.tx_cnt = FrameTicks

TxFrameEnds == port.tx_state = 1 /\ port.tx_cnt = FrameTicks - 1

(* Mutant: tx_busy is not taken down in the idle state. *)
BusyNotCleared(p) ==
  CASE TxLatches ->
         [p EXCEPT !.tx_state = 1, !.tx_busy = TRUE, !.tx_shift = tx_data]
    [] port.tx_state = 0 /\ ~tx_start -> p
    [] TxFrameEnds -> [p EXCEPT !.tx_state = 0, !.tx_cnt = 0]
    [] OTHER -> [p EXCEPT !.tx_cnt = @ + 1]

(* tx_busy falls one edge after the last bit. *)
Transmit(p) ==
  CASE TxLatches ->
         [p EXCEPT !.tx_state = 1, !.tx_busy = TRUE, !.tx_shift = tx_data]
    [] port.tx_state = 0 /\ ~tx_start -> [p EXCEPT !.tx_busy = FALSE]
    [] TxFrameEnds -> [p EXCEPT !.tx_state = 0, !.tx_cnt = 0]
    [] OTHER -> [p EXCEPT !.tx_cnt = @ + 1]

PortTick(frame) == port' = Transmit(Receive(frame, port))
=============================================================================
