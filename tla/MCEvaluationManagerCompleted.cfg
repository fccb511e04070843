SPECIFICATION Spec
CONSTANTS
  c1 = c1
  handler = handler
  Clients = {c1}
  Handler = handler
  Operations = {"get", "start", "start_instance", "retry", "cancel", "process", "process_instance"}
  MaxInstances <- MCMaxInstances
  MaxRequests <- MCMaxRequests
  MaxBacklog = 1
INVARIANT CompletedMeansFinished
