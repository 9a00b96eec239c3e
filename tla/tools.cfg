SPECIFICATION Spec
CONSTANTS
  Lanes = {"nightly", "sast"}
  ShallowLanes = {"sast"}
  CancelLanes = {"sast"}
  HandLanes = {"sast"}
  PageSize = 2
  PushedCommits <- MCPushedCommits
  MaxCommits = 4
  NoRun = NoRun
  RowIds = {"a", "b", "c"}
  NoId = NoId
  NoCitation = NoCitation
  PushedRows <- MCPushedRows
  PushedClaims <- MCPushedClaims
  MaxPushes = 3
  MaxRows = 3
  NoClaim = NoClaim
  Units = {"a", "b"}
  Mutants = {"a1", "a2", "a3", "b1", "b2"}
  UnitOf <- MCUnitOf
  Caught <- MCCaught
  Compiling = {"a1", "a2", "b1", "b2"}
  DenyGuards = {"a3", "b1", "b2"}
  ScoreGate = 66
  Clean = Clean
  Missing = Missing
  NoMutant = NoMutant
  Writers = {"p", "q"}
  Texts = {"t1", "t2"}
  Modes = {"0644", "0755"}
  DefaultMode = "0644"
  PrivateMode = "0600"
  Torn = "torn"
  NoFile = NoFile
  NoRewrite = NoRewrite
  Engines = {"bot", "smoke", "lane"}
  MaxAttempts = 3
  Pids <- MCPids
  Hashes <- MCHashes
  Changes <- MCChanges
  Sites <- MCSites
  Revs = {"r2", "r3"}
  FilesOf <- MCFilesOf
  ContentsOf <- MCContentsOf
  Touches <- MCTouches
  Below <- MCBelow
  Base <- MCBase
  Manifest0 <- MCManifest
  NoRow = NoRow
  TornLedger = TornLedger
  NewFiles = {"n"}
  Removals = {"gone"}
  Candidates = {"r2", "r3"}
  NoSmoke = NoSmoke
  NoBundle = NoBundle
INVARIANTS
  TypesOK NoSilentRed NoFalseRed GreenIsLawful FinalIsProven AlwaysClosable
  GateIsEarned ServedWhole StacksStand
PROPERTIES
  FleetRecovers VerdictIsOwn RewritesAreAtomic FetchEnds PromotedApplies RefusedStops
CHECK_DEADLOCK FALSE
