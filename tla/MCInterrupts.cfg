SPECIFICATION Spec
CONSTANTS
  Depth = 4
  Words = {0}
  Size = 44
  Codes <- MCCodes
  StackError = 1
  Illegal = 2
  Trap = 4
  Sources <- MCSources
  Ipl <- MCIpl
  MaxPosts = 3
INVARIANTS FramesMatch HandlersNest DispatchNotLost BudgetHasOwner
PROPERTIES FastResumes ParkedDelivered
