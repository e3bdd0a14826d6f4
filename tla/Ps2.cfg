SPECIFICATION Spec
CONSTANTS
  letter = letter
  digit = digit
  Code = {letter, digit}
  Key <- Keys
  WireSize = 4
INVARIANTS
  PressesDecoded
  PrefixesForgotten
