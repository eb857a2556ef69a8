SPECIFICATION Spec
CONSTANTS
  u1 = u1
  u2 = u2
  Images = {1, 2, 3}
  NoImage = NoImage
  Users = {u1, u2}
  NoUser = NoUser
  Wheels = {w1}
  NoWheel = NoWheel
  WheelOwner <- MCWheelOwner
  Uploaders = {p1, p2}
  Savers = {s1, s2}
  MinSegments = 1
  MaxSegments = 1
  MaxImagesPerDay = 1
  Window = 1
  Grace = 1
  MaxAge = 2
  PurgeLimit = 2
  InsertOutcomes = {"inserted", "refused"}
  MaxFaults = 0
  Millis <- MCMillis
  Draws <- MCDraws
  Created <- MCCreated
SYMMETRY MCSymmetry
CHECK_DEADLOCK FALSE
INVARIANTS
  LiveImageServed
  OwnImagesOnly
  QuotaOvershoot
  ListedAsCreated
PROPERTIES
  NoStripOutsideRace
