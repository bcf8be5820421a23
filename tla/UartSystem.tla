----------------------------- MODULE UartSystem -----------------------------
(***************************************************************************)
(* The serial console end to end: the host at the other end of the line,   *)
(* the serial port, the twin controller and the bridge as rtl/top/top.sv   *)
(* and rtl/bus/perip_bridge.sv wire them, and the polling driver of the    *)
(* RT-Thread BSP (rt-thread/bsp/mycpu/board.c) on the CPU.                 *)
(*                                                                         *)
(* One step is one 200 MHz cycle; the 50 MHz registers move on every       *)
(* fourth.                                                                 *)
(***************************************************************************)
EXTENDS Naturals, Sequences

CONSTANTS
  FrameTicks, ReadyTicks, NStatus,
  CpuByte,     \* what the driver prints
  TypedByte,   \* what is typed at a terminal
  CommandByte, \* what the twin's panel sends
  MaxTerminal, \* bounds on bytes printed, with a terminal at the other end
  MaxPanel,    \* and with the twin's panel
  MaxHost,     \* bound on bytes the host sends
  BootCycles,  \* least number of cycles from board_init to the first character
  StoreCycles  \* cycles a store to UART_DATA may stay in MEM1

MaxWritten == [terminal |-> MaxTerminal, panel |-> MaxPanel]
Host == DOMAIN MaxWritten

ASSUME SystemAssumption ==
  /\ FrameTicks \in Nat /\ ReadyTicks \in 1..FrameTicks - 1 /\ NStatus \in Nat \ {0}
  /\ CpuByte \cup TypedByte \cup CommandByte \subseteq 0..255
  /\ MaxWritten \in [Host -> Nat] /\ MaxHost \in Nat /\ BootCycles \in Nat \ {0}
  /\ StoreCycles \subseteq Nat \ {0}

VARIABLES
  phase,                    \* of the 50 MHz clock
  port, twin, fast, slow,   \* UartPort, TwinController, UartBridge
  drv,                      \* where the driver is
  host,                     \* who is at the other end, how many bytes it has sent, and
                            \* whether it has asked for passthrough
  written, sent,            \* history: printed in passthrough; left on the line
  frame,                    \* history: the status frame on the line
  unread                    \* history: how the last byte came, or that it was read

hardware == <<phase, port, twin, fast, slow>>
vars == <<hardware, drv, host, written, sent, frame, unread>>

Port == INSTANCE UartPort WITH tx_start <- twin.tx_start, tx_data <- twin.tx_data

Bridge == INSTANCE UartBridge
  WITH uart_tx_busy <- port.tx_busy, passthrough <- twin.state = "PASSTHROUGH",
       uart_rx_ready <- twin.cpu_rx_valid, uart_rx_data <- twin.cpu_rx_data

Twin == INSTANCE TwinController
  WITH rx_ready <- port.rx_ready, rx_data <- port.rx_data, tx_busy <- port.tx_busy,
       cpu_uart_tx_start <- Bridge!uart_tx_start, cpu_uart_tx_data <- Bridge!uart_tx_data,
       passthrough_req <- Bridge!passthrough_req

-----------------------------------------------------------------------------
(* One cycle of both clock domains, with the access the CPU makes in it.   *)
SlowEdge == phase = 3

Terminal == host.is = "terminal"

(* The host sends when it likes; a frame takes its time. *)
HostMaySend == SlowEdge /\ Port!RxFrameEnds /\ host.sent < MaxHost

HostByte == IF Terminal THEN TypedByte ELSE CommandByte

Hardware(op, b, rx) ==
  /\ phase' = (phase + 1) % 4
  /\ Bridge!FastTick(op, b)
  /\ IF SlowEdge
     THEN Port!PortTick(rx) /\ Twin!TwinTick /\ Bridge!SlowTick
     ELSE UNCHANGED <<port, twin, slow>>

CpuByteLeaves == SlowEdge /\ Port!TxFrameEnds /\ port.tx_shift \in CpuByte
StatusByteLeaves == SlowEdge /\ Port!TxFrameEnds /\ port.tx_shift \notin CpuByte

(* A byte for the CPU comes in while rx_rd_req is held; in quiet, when all *)
(* before it was read and the handshake is over; or in between.            *)
Arrival ==
  CASE fast.rx_rd_req -> "held"
    [] /\ ~fast.rx_rd_req /\ slow.rd_sync = <<FALSE, FALSE>>
       /\ ~slow.rx_valid_q /\ drv.at # "getchar_data" -> "quiet"
    [] OTHER -> "close"

(* A read of UART_DATA returns the byte received last, unless that one is  *)
(* on its way through rx_data_d.                                           *)
ReadsLast(op) == op = "read" /\ ~(slow.rx_ready_d /\ phase < 2)

(* The handshake of an earlier read is still on its way back. *)
HandshakeUp ==
  \/ fast.rx_rd_req \/ slow.rd_ack_50
  \/ TRUE \in {slow.rd_sync[1], slow.rd_sync[2], fast.rd_ack_sync[1], fast.rd_ack_sync[2]}

History(op, b, rx) ==
  /\ host' = IF rx = {} THEN host
             ELSE [host EXCEPT !.sent = @ + 1, !.opened = @ \/ Twin!ENTER \in rx]
  /\ written' = IF op = "write" /\ drv.left = 0 /\ Twin!passthrough
                THEN Append(written, b) ELSE written
  /\ sent' = IF CpuByteLeaves THEN Append(sent, port.tx_shift) ELSE sent
  /\ frame' = CASE ~StatusByteLeaves -> frame
                [] StatusByteLeaves /\ Len(frame) < NStatus -> Append(frame, port.tx_shift)
                [] OTHER -> <<port.tx_shift>>
  /\ unread' = CASE SlowEdge /\ Bridge!RxByteLatched -> Arrival
                 [] ~(SlowEdge /\ Bridge!RxByteLatched) /\ ReadsLast(op) ->
                      IF HandshakeUp THEN "reread" ELSE "none"
                 [] OTHER -> unread

Cycle(op, b) ==
  \E rx \in {{}} \cup (IF HostMaySend THEN {{x} : x \in HostByte} ELSE {}) :
    Hardware(op, b, rx) /\ History(op, b, rx)

-----------------------------------------------------------------------------
(* The driver.  Between two accesses any number of cycles may pass. *)
Go(to) == drv' = [drv EXCEPT !.at = to]

Wait ==
  /\ drv.left = 0
  /\ Cycle("none", 0)
  /\ UNCHANGED drv

(* rt_hw_board_init: ask for passthrough, then poll until it is there. *)
RequestPassthrough ==
  /\ drv.at = "board_init"
  /\ Cycle("request", 0)
  /\ Go("board_init_poll")

AwaitPassthrough ==
  /\ drv.at = "board_init_poll"
  /\ Cycle("none", 0)
  /\ IF Bridge!PASSTHROUGH
     THEN drv' = [drv EXCEPT !.at = "startup", !.left = BootCycles]
     ELSE UNCHANGED drv

(* The rest of the kernel's start-up, up to the banner. *)
StartUp ==
  /\ drv.at = "startup"
  /\ Cycle("none", 0)
  /\ drv' = [drv EXCEPT !.at = IF drv.left = 1 THEN "run" ELSE "startup", !.left = @ - 1]

(* rt_hw_console_output, one character: poll TX_BUSY, write UART_DATA. *)
PutChar ==
  /\ drv.at = "run" /\ Len(written) < MaxWritten[host.is]
  /\ Cycle("none", 0)
  /\ \E b \in CpuByte : drv' = [drv EXCEPT !.at = "output_poll", !.char = b]

(* Mutant: TX_BUSY is not waited for. *)
WriteWithoutPoll ==
  /\ drv.at = "output_poll"
  /\ Cycle("none", 0)
  /\ Go("output_write")

OutputPoll ==
  /\ drv.at = "output_poll"
  /\ Cycle("none", 0)
  /\ Go(IF Bridge!TX_BUSY THEN "output_poll" ELSE "output_write")

(* The store is presented again for as long as EX is busy behind it. *)
OutputWrite ==
  /\ drv.at = "output_write" /\ drv.left = 0
  /\ Cycle("write", drv.char)
  /\ \E n \in StoreCycles :
       drv' = [at |-> IF n = 1 THEN "run" ELSE "output_write", left |-> n - 1,
               char |-> IF n = 1 THEN 0 ELSE drv.char]

OutputWriteAgain ==
  /\ drv.at = "output_write" /\ drv.left > 0
  /\ Cycle("write", drv.char)
  /\ drv' = [at |-> IF drv.left = 1 THEN "run" ELSE "output_write",
             left |-> drv.left - 1, char |-> IF drv.left = 1 THEN 0 ELSE drv.char]

(* rt_hw_console_getchar: test RX_VALID, read UART_DATA. *)
GetChar ==
  /\ drv.at = "run"
  /\ Cycle("none", 0)
  /\ Bridge!RX_VALID /\ Go("getchar_data")

GetCharData ==
  /\ drv.at = "getchar_data"
  /\ Cycle("read", 0)
  /\ Go("run")

-----------------------------------------------------------------------------
DriverStep ==
  \/ RequestPassthrough \/ AwaitPassthrough \/ StartUp \/ OutputPoll
  \/ OutputWrite \/ OutputWriteAgain \/ GetCharData

Init ==
  /\ phase = 0 /\ Port!PortInit /\ Twin!TwinInit /\ Bridge!BridgeInit
  /\ drv = [at |-> "board_init", left |-> 0, char |-> 0]
  /\ host \in [is : Host, sent : {0}, opened : {FALSE}]
  /\ written = <<>> /\ sent = <<>> /\ frame = <<>> /\ unread = "none"

Next == Wait \/ PutChar \/ GetChar \/ DriverStep

(* The clocks run, and the CPU goes on executing its driver. *)
Spec == Init /\ [][Next]_vars /\ WF_vars(Next) /\ WF_vars(DriverStep)

-----------------------------------------------------------------------------
Channel == INSTANCE ConsoleChannel
  WITH Byte <- CpuByte, written <- IF Terminal THEN written ELSE <<>>,
       sent <- IF Terminal THEN sent ELSE <<>>

(* The machine states are those of the code's state machines. *)
TypeOK ==
  /\ phase \in 0..3
  /\ port.tx_cnt \in 0..FrameTicks - 1 /\ port.rx_ready_cnt \in 0..ReadyTicks - 1
  /\ twin.state \in {"IDLE", "SEND", "PASSTHROUGH"} /\ twin.send_cnt \in 0..NStatus - 1
  /\ drv.at \in {"board_init", "board_init_poll", "startup", "run", "output_poll",
                 "output_write", "getchar_data"}
  /\ written \in Seq(CpuByte) /\ sent \in Seq(CpuByte)

(* In passthrough TX_BUSY reads 1 for as long as the 50 MHz side holds a   *)
(* byte for the port, also while another one is still being sent           *)
(* (uart_bridge.sv:18, "no false idle").  That is so in the session which  *)
(* the driver asked for, however the host ends it.  In one that the host   *)
(* begins it is not: the acknowledgement of uart_bridge.sv:110 then meets  *)
(* a byte written meanwhile.                                               *)
NoFalseIdle ==
  slow.tx_req /\ Twin!passthrough /\ slow.passthrough_d /\ ~host.opened => Bridge!TX_BUSY

(* In an undisturbed passthrough session the console loses, repeats and    *)
(* reorders nothing: the path implements ConsoleChannel (board.c:45).      *)
PrintsInOrder == Channel!Spec

(* A byte that comes when those before it were read stays announced until  *)
(* the CPU has read it and no other (uart_bridge.sv:20).                   *)
QuietByteKept == unread = "quiet" => slow.rx_valid_q

(* One that comes while rx_rd_req is held does not, though its setting has *)
(* priority: rd_sync[1] is a level (uart_bridge.sv:175) and clears it on a *)
(* later edge, against uart_bridge.sv:23, "no data is lost".  When the     *)
(* handshake is over the byte is there and never announced again.          *)
HeldByteLost == unread = "held" /\ ~HandshakeUp => ~slow.rx_valid_q

(* Once the read handshake is over the CPU is told only of a byte it has   *)
(* not read: RX_VALID is down before rx_rd_req is (uart_bridge.sv:21).     *)
(* This is of reads which do not meet the handshake of an earlier one.     *)
NoStaleValid == Bridge!RX_VALID /\ ~fast.rx_rd_req => unread # "none"

(* Whatever the host does, the driver's poll of TX_BUSY comes to an end    *)
(* (uart_bridge.sv:16, "avoid hanging the CPU").                           *)
NeverHangs == []<>~Bridge!TX_BUSY

(* A status frame on the line is the bytes of one snapshot, in order and   *)
(* each once, whatever the switches do meanwhile (twin_controller.sv:101). *)
StatusFrameWhole ==
  \E sw \in {0, 1} : \A i \in DOMAIN frame : frame[i] = Twin!status_byte(i - 1, sw)

(* A status frame comes to an end: the twin controller serves the next     *)
(* command (twin_controller.sv:105).                                       *)
SendFinishes == twin.state = "SEND" ~> twin.state = "IDLE"



(* Neither side of the serial path waits for ever: TX_BUSY falls for the   *)
(* driver (uart_bridge.sv:16), and a status frame ends                     *)
(* (twin_controller.sv:105).                                               *)
Progress == NeverHangs /\ SendFinishes
=============================================================================
