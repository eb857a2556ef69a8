SPECIFICATION FairSpec
CONSTANTS
  a = a
  b = b
  Circle = 12
  Counts = {2, 3}
  Contents = {a, b}
  NoContent = NoContent
  Lists <- MCLists
  Pages = {p1}
  NoPage = NoPage
  Visits = {v1, v2}
  MaxDraws = 3
  MaxSpins = 1
  MaxEdits = 2
INVARIANTS
  TypeOK
  PointerOffOnlyWhenEdited
  AnnouncedIsRecorded
  SpinCapOvershoot
PROPERTIES
  ButtonComesBack
  ImplementsDraws
CONSTRAINT
  MCOneHour
