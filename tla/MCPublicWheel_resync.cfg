SPECIFICATION Spec
CONSTANTS
  a = a
  b = b
  Circle = 12
  Counts = {2, 3}
  Contents = {a, b}
  NoContent = NoContent
  Lists <- MCLists
  Pages = {p1}
  NoPage = NoPage
  Visits = {v1}
  MaxDraws = 1
  MaxSpins = 3
  MaxEdits = 2
PROPERTIES
  ReceivedIsAnnounced
