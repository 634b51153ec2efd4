SPECIFICATION Spec
CONSTANTS
  NameWords <- Words
  ClassWords <- Classes
  TitleWords <- Titles
  ClassOf <- Class
  Kin <- Inflections
  GenericApps <- Generics
  Creatable <- NewNames
  Apps <- Allowed
  Plain <- PlainNames
  Situations <- Commands
  Lead = 1
  Window = 2
  Samples = 3
  PlaceDistance = 13
  PlaceFloor = 5
  Step = 25
  WaitMonitor = 5
  WaitPoll = 2
  Changes = 1
INVARIANTS
  TypeOK
  ContractHolds
  ResolvedIsLive
  PointedOrAsked
  NothingPickedAmongEquals
  GazeIsFresh
  OnlyTheNamed
PROPERTIES
  ImplementsPlanRun
  WaitWithinBudget
  UtterancesEnd
CHECK_DEADLOCK FALSE
