SPECIFICATION Spec
CONSTANTS
  MAX_BITS = 3
  MAX_COILS = 3
  MAX_READ = 3
  MAX_WRITE = 3
  MAX_RW_WRITE = 3
  MAX_FILE_READ = 3
  MAX_FILE_WRITE = 3
  MAX_RECORD = 4
  ADDRESSES = 3
  MAX_TID = 10
  Crc <- MCCrc
  Supported = {1, 2, 3, 4, 5, 6, 15, 16, 20, 21, 23}
  InputBit <- MCInputBit
  InputRegister <- MCInputRegister
  Transports = {"RTU", "TCP"}
  Servers = {1, 2}
  Menus <- MCMenus
  CallbackFaults <- MCCallbackFaults
  FrameFaults = {"lose", "corrupt", "cut", "short", "late"}
  MaxByte = 5
  MaxCalls = 3
  MaxBrokenCalls = 2
  MaxFaults = 1
INVARIANTS TypeOK AnswersItsRequest AcknowledgedIsWritten WrittenWasSent FaultFreeCallsSucceed RegisterReadsHeld
