CONSTANTS
  n1 = n1
  n2 = n2
  Ifaces = {1}
  HotPluggable = {}
  Nets = {n1}
  None = None
  AutoIface = AutoIface
  Configs <- SameNet
  Files <- SameNetFiles
  FailingSteps = {"probe", "clientFlush", "clientStart", "gatewayRoute", "gatewayDnsmasq"}
  Invalid = Invalid
  Missing = Missing
  DefaultConfig <- AutoConfig
  FailThreshold = 3
  MaxEvents = 1
  MaxSignals = 1
  MaxInputs = 2
SPECIFICATION FairSpec
PROPERTIES
  LinkLossReselects
  EmptyIsReported
  MissingProcessNoticed
  EditIsLoaded
  TermStops
CHECK_DEADLOCK FALSE
