CONSTANTS
  Me = 2
  Peer <- MCPeer
  Caller = {c1, c2}
  MaxDrift = 1
  MaxSeq = 2
  MaxWall = 3
SYMMETRY Callers
SPECIFICATION Spec
INVARIANT ClockLeadBounded
PROPERTIES MintsIncrease WitnessReturnsAbove
