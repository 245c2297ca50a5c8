CONSTANTS
  n1 = n1
  n2 = n2
  Ifaces = {1, 2}
  HotPluggable = {2}
  Nets = {n1, n2}
  None = None
  AutoIface = AutoIface
  Configs <- BothConfigs
  Files <- AllFiles
  FailingSteps = {"isolate", "probe", "gatewayDnsmasq"}
  Invalid = Invalid
  Missing = Missing
  DefaultConfig <- AutoConfig
  FailThreshold = 2
  MaxEvents = 1
  MaxSignals = 1
  MaxInputs = 2
SPECIFICATION Spec
INVARIANTS
  DaemonTypeOK
  HealthIsHysteretic
  ReasonMatchesStatus
  LinkDownIsHealthy
  DnsmasqServesStatus
  NoLostReload
  DaemonInv
CHECK_DEADLOCK FALSE
