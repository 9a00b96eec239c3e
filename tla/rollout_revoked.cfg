SPECIFICATION Spec
CONSTANTS
  Clients = {"c"}
  Buckets = 2
  MaxVersion = 2
  MaxEpoch = 2
PROPERTY RevokedGetsNoOffer
