CONSTANTS
  Writers = {w1}
  Sections = 2
  MaxOvertakes = 2
SPECIFICATION FairSpec
INVARIANT SleepIsWakeable
INVARIANT LinesAgree
INVARIANT UpIsWatched
INVARIANT GrantHolds
PROPERTY WriterServed
PROPERTY ModemServed
