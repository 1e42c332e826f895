SPECIFICATION Spec
CONSTANTS
  NumServices = 1
  StartupOutcome = {"ok"}
  RequestOutcome = {"ok"}
  PluginHooks = {"startup", "shutdown"}
  MaxCrashes = 1
  Headers = {"start", "send", "stop"}
  Targets = {1}
  Configured = {TRUE}
  MaxRequests = 4
PROPERTIES RestartServes
