CONSTANTS
  n1 = n1
  n2 = n2
  Ifaces = {1}
  HotPluggable = {}
  Nets = {n1, n2}
  None = None
  AutoIface = AutoIface
  Configs <- BothConfigs
  Files <- AllFiles
  FailingSteps = {"bringUp", "probe", "clientStart", "gatewayDnsmasq"}
  Invalid = Invalid
  Missing = Missing
  DefaultConfig <- AutoConfig
  FailThreshold = 3
  MaxEvents = 1
  MaxSignals = 1
  MaxInputs = 3
SPECIFICATION Spec
PROPERTY FailClosed
CHECK_DEADLOCK FALSE
