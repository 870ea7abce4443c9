SPECIFICATION Spec
CONSTANTS
  a = a
  b = b
  Clients = {a, b}
  Configs <- BadEndpoint
INVARIANTS
  ServiceLogs
