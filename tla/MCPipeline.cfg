SPECIFICATION ClockedSpec
CONSTANTS
  NReg = 2
  Radix = 4
  NWord = 2
  NPc = 5
  L0Lines = 1
  SbEntries = 1
  DivBusy = 3
  Programs <- MCPrograms
  ResetRegs <- MCResetRegs
  ResetMem <- MCResetMem
INVARIANTS PipelineInv
PROPERTIES RefinesISA DrivesLoadPath FrontEndMoves
