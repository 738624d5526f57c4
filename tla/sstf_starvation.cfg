CONSTANTS
  Request = {r1, r2, r3}
  Sector = {1, 2, 3}
  Beyond = {9}
SPECIFICATION FairSpec
PROPERTY NoStarvation
CHECK_DEADLOCK FALSE
