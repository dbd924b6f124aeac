SPECIFICATION Spec
CONSTANTS
  Rules = {"r1", "r2", "r3"}
  NoRule = "none"
  Actions <- MCActions
  Program <- MCProgram
  Lists <- MCLists
  TestActions <- MCTestActions
  MaxFires = 2
  ALPV_IMAGE_MAX_ATTEMPTS = 2
  MAX_DIGEST_BUFFERS = 1
  MAX_DIGEST_LINES = 2
  DigestInterval = 2
INVARIANTS
  ListsKept
  ErrorsOwnUnlessMixed
  VerdictsRightUnlessCrossed
PROPERTIES
  WorkEnds
CHECK_DEADLOCK FALSE
