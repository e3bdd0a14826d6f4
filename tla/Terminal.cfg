SPECIFICATION TSpec
CONSTANTS
  BufSize = 3
  MaxCommands = 2
  Key = {space, hash}
  InBase = {space, hash}
  InModified = {}
  PastModified = {}
  Letters = {}
  ModifierKeys = {"L_SHIFT"}
  NUL = NUL
  BytesAtZero = {NUL}
  NumRows = 2
  NumCols = 2
  Blank = NUL
  Smudge = smudge
  p = p
  Prompt <- OneCellPrompt
  Output = o
  OutputLengths = {1}
  TabCells = 1
  RowsAbove = 1
SYMMETRY KeySymmetry
INVARIANTS
  NeverBehind
  LineShown
