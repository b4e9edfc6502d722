SPECIFICATION Spec
CONSTANTS
  Depth = 4
  Words = {0}
  Size = 44
  Codes <- MCWait
  StackError = 1
  Illegal = 2
  Trap = 4
  Sources <- MCSources
  Ipl <- MCIpl
  MaxPosts = 1
PROPERTY WaitWakes
