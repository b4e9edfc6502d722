SPECIFICATION Spec
CONSTANTS
  W = 4
  EXT = 3
  Depth = 5
  Words = {}
  Menus <- MCMenus
INVARIANTS CallsOnStack LimitSticky ChangedIsDirty
PROPERTIES MovesAreSimultaneous StoresExact DevicesOnce NextInstruction
CHECK_DEADLOCK FALSE
