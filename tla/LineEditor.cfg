SPECIFICATION Spec
CONSTANTS
  BufSize = 3
  MaxCommands = 3
  a = a
  Key = {a, F1}
  InBase = {a}
  InModified = {a}
  PastModified = {F1}
  Letters = {a}
  ModifierKeys = {"CAPS_LOCK", "L_SHIFT", "R_SHIFT"}
  NUL = NUL
  BytesAtZero <- MCBytesAtZero
INVARIANTS
  RowsTerminated
  EndIsTerminator
  BrowsedExists
PROPERTIES
  DraftRestored
  ImplementsLineBuffer
