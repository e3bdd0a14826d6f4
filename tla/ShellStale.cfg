SPECIFICATION Spec
CONSTANTS
  Base = 5
  SizeDigits = 2
  Pad = 1
  Space = 3
  Letters = {1, 2}
  LineSize = 5
  maybeOS_cmd <- MCMaybeOS
  echo_cmd <- MCEcho
  Tails = {15, 19, 24}
  Fills = {0}
CHECK_DEADLOCK FALSE
INVARIANT RunsWhatIsTyped
