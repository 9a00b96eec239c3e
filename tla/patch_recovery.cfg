SPECIFICATION RecoverySpec
CONSTANTS
  Pids <- IndPids
  Hashes <- IndHashes
  Changes <- IndChanges
  Sites <- IndSites
  Revs = {"r1", "r2"}
  FilesOf <- IndFilesOf
  ContentsOf <- IndContentsOf
  Touches <- IndTouches
  Below <- IndBelow
  Base <- IndBase
  Manifest0 <- IndManifest
  NoRow = NoRow
  Torn = Torn
INVARIANT Truthful
PROPERTIES RecoversFromCrash KeepsGround NeverRefused
