CONSTANTS
  d1 = d1
  d2 = d2
  d3 = d3
  x1 = x1
  x2 = x2
  None = None
  Devs = {d1, d2, d3}
  Address <- AddressOf
  Octets = {"00", "02", "0a"}
  Xids = {x1, x2}
  Strays <- StrayPackets
  Timeout = 2
  BufferSize = 2
  MaxInFlight = 1
SPECIFICATION FairSpec
INVARIANTS
  TypeOK
  OfferAnswersUs
  NothingOverlooked
PROPERTIES
  ProbeEnds
