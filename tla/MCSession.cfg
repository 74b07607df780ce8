CONSTANTS
  Unreadable = Unreadable
  NoAnswer = NoAnswer
  TierCount = 3
  Implementer <- Devs
  PodPm <- pm
  Spellings <- Texts
  Emitted <- SomeVerdicts
  Signals = {"proof", "blocked"}
  MaxVerdicts = 3
  Coordinators = {"c1", "c2"}
  NoProof = NoProof
  NotAsked = NotAsked
  Seats <- Team
  HarnessOf <- Harnesses
  StatedRole <- AsWorker
  Optional <- NotVital
  HandMade <- Made
  NameForms = {"display"}
  Arising = {"MCP_UNAVAILABLE", "IDLE_STALLED"}
  Statuses = {"AUTH_LOGIN_REQUIRED"}
  Sources = {"native_skill"}
  MaxTroubles = 2
  MAX_TEAMS = 9
  Follows = {"layout"}
  Options <- SomeOptions
  Files = {"f1", "f2"}
  Versions <- SameSize
  Packets <- SomePackets
  Receipts <- SomeReceipts
  Events = {"e1"}
  MaxEdits = 3
  NoRecord = NoRecord
  Gone = Gone
  Providers = {"p1", "p2"}
  Home = "p1"
  Rungs <- SomeRungs
  MaxRungs = 2
  TriggerTexts <- SomeTriggers
  NoPaper = NoPaper
  Part = {"wall", "launch", "advice", "message", "reading", "slice", "seat",
          "pod"}
SPECIFICATION SessionSpec
INVARIANTS
  WallIsPacked
  ActivatedIsProven
  DeliveryIsTrue
  SliceIsSupervised
  
  BatonIsAccepted
  RosterIsSound
  CoverIsFit
  HaltsOnWrongTarget
PROPERTIES
  OnlyTheGuestMoves
  AdviceLeadsToReady
CHECK_DEADLOCK FALSE
