SPECIFICATION Spec
\* Frames of seven 50 MHz edges, longer than every handshake of the bridge
\* (a real frame has 52080), and status frames of three bytes.
CONSTANTS
  FrameTicks = 7
  ReadyTicks = 2
  NStatus = 3
  CpuByte = {97, 98}
  TypedByte = {13}
  CommandByte = {128, 129, 201, 202}
  MaxTerminal = 2
  MaxPanel = 1
  MaxHost = 2
  BootCycles = 16
  StoreCycles = {1, 3}
INVARIANTS  NoFalseIdle StatusFrameWhole
PROPERTIES PrintsInOrder  Progress
