SPECIFICATION ServicesSpec
CONSTANTS
  UsersMax = 3
  Handles <- SomeHandles
  Reserved = {"SYSOP"}
  Passwords = {"PASS", "WORD"}
  Attempts = 3
  UseREU = TRUE
  Faults = {"crash", "write", "check"}
  Boards = {1, 2}
  Users = {1}
  Ops = {}
  Limit = 2
  PruneBatch = 1
  MaxMsgs = 4
  ReaderFaults = {"save", "board", "power"}
  TableKinds = {"boards", "areas", "polls", "doors"}
  MaxSlots = 3
  Titles = {"A"}
  Values = {1, 2}
  TableFaults = {"crash", "write", "scratch"}
  Areas <- SomeAreas
  CallerLevels = {1, 2}
  Names = {"SHORT", "FULL"}
  FullNames = {"FULL"}
  EntryMax = 2
  MaxUploads = 3
  FileFaults = {"entry", "line"}
  DayUsers = {1, 2}
  Exempt = {2}
  DayLen = 4
  ElapsedMax = 2
  LastDay = 2
  MaxLogged = 2
  UsageFaults = {"read", "write", "power"}
  Devices = {8, 9}
  Partitions = {1, 2}
  PowerUp = 1
  MsgDevice = 9
  SystemSpecs <- SomeSystems
  MsgSpecs <- SomeMsgs
  Settings = {1}
  MaxSaves = 2
  ConfigFaults = {"refuse", "full", "power"}
  Placements <- SomePlacements
  DoorPlaces = {0, 1}
  ShowsAtLogin = FALSE
  LoadFails = TRUE
  NoiseLimit = 3
INVARIANTS
  ServicesTypeOK
  CopyIsTheFile HandlesAreUnique CallerIsOwner RegistrationIsComplete
  CurrentWasShown MarkIsHighestRead
  ListIsComplete
  UploadsAreListed
  OperationsLandWhereAsked
  MinutesAreOfTheDay
  CodeIsInTheZone
PROPERTIES
  AccountsAreKept
  NewIsNextUnread
  FreshIsEmpty
  ReportedIsLoaded
