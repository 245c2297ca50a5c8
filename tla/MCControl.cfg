CONSTANTS
  c1 = c1
  c2 = c2
  Clients = {c1, c2}
  MaxClients = 1
  MaxEvents = 2
  None = None
SPECIFICATION FairSpec
INVARIANTS
  TypeOK
  CheckIsTruthful
  ReconfigureIsHonest
PROPERTIES
  CommandsReturn
