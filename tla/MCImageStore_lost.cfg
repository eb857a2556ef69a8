SPECIFICATION Spec
CONSTANTS
  u1 = u1
  u2 = u2
  Images = {1}
  NoImage = NoImage
  Users = {u1}
  NoUser = NoUser
  Wheels = {w1, w2}
  NoWheel = NoWheel
  WheelOwner <- MCWheelOwner
  Uploaders = {p1}
  Savers = {s1, s2}
  MinSegments = 1
  MaxSegments = 1
  MaxImagesPerDay = 1
  Window = 1
  Grace = 1
  MaxAge = 2
  PurgeLimit = 1
  InsertOutcomes = {"inserted", "refused", "lost"}
  MaxFaults = 0
  Millis <- MCMillis
  Draws <- MCDraws
  Created <- MCCreated
CHECK_DEADLOCK FALSE
INVARIANTS
  LiveImageServed
