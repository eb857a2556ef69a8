SPECIFICATION Spec
CONSTANTS
  Pages = {e1, e2}
  NoPage = NoPage
  Requests = {r1, r2, r3}
  MaxSegments = 2
  MaxEdits = 1
  MaxSaves = 2
SYMMETRY MCSymmetry
CHECK_DEADLOCK FALSE
INVARIANTS
  TypeOK
  StoredListComplete
  SavedKeepsEdits
  TornOnlyWhenMixed
PROPERTIES
  DeletedForGood
