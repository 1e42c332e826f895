SPECIFICATION Spec
CONSTANTS
  NumServices = 2
  StartupOutcome = {"ok"}
  RequestOutcome = {"ok"}
  PluginHooks = {"startup", "shutdown"}
  MaxCrashes = 0
  Headers = {"start_all", "start", "send", "loglevel", "stop_all", "stop", "exit", "unknown", "malformed"}
  Targets = {1, 2}
  Configured = {TRUE,FALSE}
  MaxRequests = 4
INVARIANT ReadyOrDrained
PROPERTIES KeepsContract RestartServes
