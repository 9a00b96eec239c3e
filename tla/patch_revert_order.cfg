SPECIFICATION Spec
CONSTANTS
  Pids <- StkPids
  Hashes <- StkHashes
  Changes <- StkChanges
  Sites <- StkSites
  Revs = {"r1"}
  FilesOf <- StkFilesOf
  ContentsOf <- StkContentsOf
  Touches <- StkTouches
  Below <- StkBelow
  Base <- StkBase
  Manifest0 <- StkManifest
  NoRow = NoRow
  Torn = Torn
PROPERTY WholeRevertCompletes
