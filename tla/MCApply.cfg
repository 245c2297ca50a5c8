CONSTANTS
  Ifaces = {1, 2}
  HotPluggable = {2}
  Nets = {n1, n2}
  None = None
  AutoIface = AutoIface
  Configs <- MCConfigs
  FailingSteps = {"resolve", "waitCarrier", "bringUp", "probe", "assign", "clientStart",
                  "staticRoute", "gatewayFlush", "gatewayAdd", "gatewayDnsmasq"}
SPECIFICATION CliSpec
INVARIANTS
  ApplyTypeOK
  NoSelfDiscovery
  Isolated
  CallInv
PROPERTIES
  AppliedMode
  TeardownClean
