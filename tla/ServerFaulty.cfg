SPECIFICATION Spec
CONSTANTS
  NumServices = 2
  StartupOutcome = {"ok", "fail", "raise"}
  RequestOutcome = {"ok", "raise"}
  PluginHooks = {"startup", "shutdown"}
  MaxCrashes = 1
  Headers = {"start_all", "start", "send", "loglevel", "stop_all", "stop"}
  Targets = {0, 1, 2}
  Configured = {TRUE, FALSE}
  MaxRequests = 4
INVARIANTS TypeOK OneListener NoOrphans JoinCanFinish AnsweredInOrder
PROPERTIES EndOfInputExits StopReturned
