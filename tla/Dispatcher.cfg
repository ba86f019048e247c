CONSTANTS
  Work = {w1, w2, w3}
  Timed = {w1}
  Quit = {q1, q2}
  GameShutdown = GameShutdown
  Terminate = Terminate
SPECIFICATION FairSpec
INVARIANTS TypeOK NoLostWakeup DrainedAtExit
PROPERTIES WorkEnds ImplementsQueue
CHECK_DEADLOCK FALSE
