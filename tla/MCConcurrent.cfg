CONSTANTS
  n1 = n1
  Ifaces = {1}
  HotPluggable = {}
  Nets = {n1}
  None = None
  AutoIface = AutoIface
  Configs <- OneConfig
  Files <- OneConfig
  FailingSteps = {"gatewayDnsmasq", "tdFlush", "tdRoute"}
  Invalid = Invalid
  Missing = Missing
  DefaultConfig <- AutoConfig
  FailThreshold = 2
  MaxEvents = 1
  MaxSignals = 1
  MaxInputs = 2
  Commands = {"apply", "teardown", "serve", "check"}
SPECIFICATION ConcSpec
INVARIANTS
  UndisturbedProbes
PROPERTIES
  NextCallRecovers
