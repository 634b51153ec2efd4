SPECIFICATION Spec
CONSTANTS
  MaxStarts = 3
  MaxPanels = 2
  MaxUnread = 4
INVARIANTS TypeOK ReadClientIsNotFooled OnlyRestartsOrphan
PROPERTIES LostOnlyUnread
