SPECIFICATION Spec
CONSTANTS
  Machines <- MCMachines
  FirmwareApic <- MCFirmwareApic
  FirmwareControl <- MCFirmwareControl
  ResetControl <- MCResetControl
CHECK_DEADLOCK FALSE
INVARIANTS
  OwnsPort
  NoEdgeLost
  StartsRight
  PicIsSilent
PROPERTIES
  BootEnds
  ByteTaken
