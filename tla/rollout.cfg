SPECIFICATION FairSpec
CONSTANTS
  Clients = {"c"}
  Buckets = 2
  MaxVersion = 2
  MaxEpoch = 2
INVARIANT TypeOK
PROPERTIES RampContains NeverBackwards RolloutIsStaged Converges
