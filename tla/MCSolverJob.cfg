\* One solve, every order of child, deadline, disconnect and crash.
SPECIFICATION FairSpec
CONSTANTS
  Deadline = 3
  MaxPoints = 3
  PipeCap = 2
INVARIANTS
  TypeOK
  ReleasedAfterChildStops
  SlotReleasedOnce
  AnsweredOnce
  
PROPERTY
  SlotComesBack
