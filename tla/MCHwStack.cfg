SPECIFICATION Spec
CONSTANTS
  Depth = 3
  Words = {0, 1}
  Zero = 0
  Pairs <- MCPairs
  SpValues <- MCSpValues
  ScValues <- MCScValues
  Lengths = {1}
  AnchorBumps = {0}
INVARIANTS MirrorsShowTop PathsAgree CounterFollowsPointer
PROPERTIES ErrorPostedAtLatch ImplementsBoundedStack
