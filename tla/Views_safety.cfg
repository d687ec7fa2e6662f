\* Every request with up to two things going wrong; every view while the world moves.
CONSTANTS
  MaxFaults = 2
  MaxMoves <- Moves
  MaxReads <- OneOrTwo
SPECIFICATION ViewsSpec
INVARIANTS
  SurfacesHonest
  ShownWasSo
CHECK_DEADLOCK FALSE
