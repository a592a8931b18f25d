\* What the timeout answer says, against when it is given.
SPECIFICATION Spec
CONSTANTS
  Deadline = 1
  MaxPoints = 1
  PipeCap = 1
INVARIANT
  TimeoutIsHonest
