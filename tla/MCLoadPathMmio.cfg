SPECIFICATION Spec
CONSTANTS
  Bram <- MCBram
  Mmio <- MCMmio
  Lane <- MCLane
  Byte <- MCByte
  L0Line <- MCL0Line
  L0Tag <- MCTag
  SbEntry <- MCSbEntry
  SbTag <- MCTag
  l0Index <- MCIndex
  l0Tag <- MCTagOf
  sbIndex <- MCIndex
  sbTag <- MCTagOf
  DevVal <- MCDevVal
  StoreLanes <- MCStoreLanes
  StoreData <- MCStoreData
INVARIANT MmioLoadReturnsDevice
