SPECIFICATION FairSpec
CONSTANTS
  Works = {w1, w2, t}
  Timed = {t}
  Adders = {a1, a2}
  Counts = {0, 1, 2}
  FreqSec = 1
  NoWork = NoWork
PROPERTIES
  EndlessWorksTick
  TimedWorksLeave
CHECK_DEADLOCK FALSE
