SPECIFICATION Spec
CONSTANTS
  Pids <- RPids
  Hashes <- RHashes
  Changes <- RChanges
  Sites <- RSites
  Revs = {"r1", "r2", "r3"}
  FilesOf <- RFilesOf
  ContentsOf <- RContentsOf
  Touches <- RTouches
  Below <- RBelow
  Base <- RBase
  Manifest0 <- RManifest
  NewFiles = {"n"}
  Removals = {"moved"}
  Renames = {"moved"}
  Overlaps <- ROverlaps
  Targets = {"r1", "r3"}
  MaxLost = 1
  NoReport = NoReport
  Idle = Idle
PROPERTY ConflictsAreRouted
