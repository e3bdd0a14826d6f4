SPECIFICATION Spec
CONSTANTS
  Machines <- MCMachines
  FirmwareApic <- MCFirmwareApic
  FirmwareControl <- MCFirmwareControl
  ResetControl <- MCResetControl
CHECK_DEADLOCK FALSE
INVARIANT ServiceEnds
