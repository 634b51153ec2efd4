SPECIFICATION Spec
CONSTANTS
  MaxStarts = 3
  MaxPanels = 2
  MaxUnread = 4
INVARIANTS NoOrphan
