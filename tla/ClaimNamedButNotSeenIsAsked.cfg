SPECIFICATION Spec
CONSTANTS
  NameWords <- Words
  ClassWords <- Classes
  TitleWords <- Titles
  ClassOf <- Class
  Kin <- Inflections
  GenericApps <- Generics
  Creatable <- NewNames
  Apps <- Allowed
  Plain <- PlainNames
  Situations <- Unseen
  Lead = 1
  Window = 2
  Samples = 3
  PlaceDistance = 13
  PlaceFloor = 5
  Step = 25
  WaitMonitor = 5
  WaitPoll = 2
  Changes = 0
INVARIANTS NamedButNotSeenIsAsked
CHECK_DEADLOCK FALSE
